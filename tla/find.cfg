SPECIFICATION Spec
CONSTANTS
  Documents <- MCDocuments
  Queries <- MCQueries
  Replacements <- MCReplacements
  Inserted <- MCInserted
  Ranges <- MCRanges
  Patterns <- MCPatterns
  Searched <- MCSearched
  Budget = 5
  MaxRevision = 2
  MaxLength = 4
INVARIANTS MatchesDescribeTheText
PROPERTIES ReplacesWhatIsThere
CHECK_DEADLOCK FALSE
