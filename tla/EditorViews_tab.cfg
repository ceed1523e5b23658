SPECIFICATION Spec
CONSTANTS
    Blank = ""
    Cells = {"", "a", "b"}
    CsvTexts <- MCCsvTexts
    ReloadsBeforeFrame = FALSE
    MaxRecords = 3
    MaxColumns = 3
    MaxCsvEdits = 2
    MaxCsvTexts = 1
    LineCap = 2
    MaxLines = 3
    MaxTruncations = 1
    MaxPolls = 2
    Tab = {1, 2, 3}
    Editors = {1, 2}
    Texts <- MCTexts
    Queries <- MCQueries
    Replacements <- MCReplacements
    MaxLength = 4
    MaxEdits = 1
    MaxReplaced = 1
PROPERTY TailIsShown EditKeepsCells ReplacesOccurrences
CHECK_DEADLOCK FALSE
