CONSTANT Htmls <- MCHtmls
SPECIFICATION SvgSpec
INVARIANT EveryDocumentIsRewritten
CHECK_DEADLOCK FALSE
