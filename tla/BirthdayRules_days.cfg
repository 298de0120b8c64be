SPECIFICATION Spec
CONSTANTS
    Yes = Yes No = No Fall = Fall capricorn = capricorn aquarius = aquarius pisces = pisces
    aries = aries taurus = taurus gemini = gemini cancer = cancer leo = leo virgo = virgo
    libra = libra scorpio = scorpio sagittarius = sagittarius rat = rat ox = ox tiger = tiger
    rabbit = rabbit dragon = dragon snake = snake horse = horse goat = goat monkey = monkey
    rooster = rooster dog = dog pig = pig winter = winter spring = spring summer = summer
    autumn = autumn garnet = garnet amethyst = amethyst aquamarine = aquamarine
    diamond = diamond emerald = emerald pearl = pearl ruby = ruby peridot = peridot
    sapphire = sapphire opal = opal topaz = topaz turquoise = turquoise monday = monday
    tuesday = tuesday wednesday = wednesday thursday = thursday friday = friday
    saturday = saturday sunday = sunday Winter = Winter Capricorn = Capricorn typo = typo
    broken = broken ri = ri dot = dot named = named bounded = bounded
    ZODIAC_SIGNS <- ZodiacSigns
    CHINESE_ZODIACS <- ChineseZodiacs
    SEASONS <- Seasons
    BIRTHSTONES <- Birthstones
    WEEKDAYS <- Weekdays
    Lower <- SomeLower
    Within <- SomeWithin
    BadPatterns = {broken}
    Matching <- SomeMatching
    PgMatching <- SomePgMatching
    PgBadPatterns = {broken, named}
    MaxInt4 = 3000
    MaxGroups = 2
    MaxConditions = 2
    Birthdays <- SomeBirthdays
    First <- Yearless
    FirstDays <- SomeFirstDays
    Bodies <- SomeBodies
    SaveDays = 1
    Judged = 2
    Span = 500
INVARIANTS
    TypeOK
    FactsAgree
    QueryAgrees
    CelebratedOnTheDay
    NobodyUntilConfigured
    NumbersFailClosed
    StoredTextsCanMatch
PROPERTIES
    CountdownExact
    AgesOnTheDay
CHECK_DEADLOCK FALSE
