----------------------------- MODULE FindMatching -----------------------------
(***************************************************************************)
(* Finding a query in a text (FindReplace.cpp): literally, or as a regular *)
(* expression parsed by recursive descent and matched by sets of ends.     *)
(*                                                                         *)
(* A text, and a query, is a sequence of scalars; positions count scalars  *)
(* from 0.  "A" and "B" fold to "a" and "b"; "W" is any other scalar       *)
(* beyond ASCII.  A query that is no UTF-8 never reaches the search.       *)
(***************************************************************************)
EXTENDS SelectionNavigation

\* The places of the scalars in ASCII, which ranges of a class go by.
codeOf(c) ==
  LET codes == (" " :> 32) @@ ("$" :> 36) @@ ("(" :> 40) @@ (")" :> 41) @@ ("*" :> 42) @@ ("+" :> 43) @@ ("-" :> 45)
               @@ ("." :> 46) @@ ("?" :> 63) @@ ("A" :> 65) @@ ("B" :> 66) @@ ("[" :> 91) @@ ("\\" :> 92) @@ ("]" :> 93)
               @@ ("^" :> 94) @@ ("_" :> 95) @@ ("a" :> 97) @@ ("b" :> 98) @@ ("|" :> 124) @@ ("W" :> 233)
  IN codes[c]

folded(c, caseSensitive) == IF caseSensitive THEN c ELSE IF c = "A" THEN "a" ELSE IF c = "B" THEN "b" ELSE c
wordScalar(c) == c \in {"a", "b", "A", "B", "_", "W"}

-----------------------------------------------------------------------------
(* Parsing.  A parser is what is left of the pattern with its validity;    *)
(* every part yields [rest, valid, node].  Once invalid it stays so, and   *)
(* the whole pattern is refused.                                           *)

Node(kind, children) ==
  [kind |-> kind, children |-> children, literal |-> "", negated |-> FALSE, ranges |-> <<>>, least |-> 0, most |-> None]
LiteralNode(c) == [Node("Literal", <<>>) EXCEPT !.literal = c]
ClassNode(negated, ranges) == [Node("CharacterClass", <<>>) EXCEPT !.negated = negated, !.ranges = ranges]
RepeatNode(child, least, most) == [Node("Repeat", <<child>>) EXCEPT !.least = least, !.most = most]

Parsed(rest, valid, node) == [rest |-> rest, valid |-> valid, node |-> node]
Rejected == Parsed(<<>>, FALSE, Node("Empty", <<>>))
StartsWith(rest, c) == rest # <<>> /\ Head(rest) = c
StartsIn(rest, set) == rest # <<>> /\ Head(rest) \in set

\* A scalar of a class, taken literally after a backslash.
classScalar(rest) ==
  IF rest = <<>> \/ rest = <<"\\">> THEN [rest |-> <<>>, valid |-> FALSE, scalar |-> " "]
  ELSE IF Head(rest) = "\\" THEN [rest |-> Tail(Tail(rest)), valid |-> TRUE, scalar |-> rest[2]]
  ELSE [rest |-> Tail(rest), valid |-> TRUE, scalar |-> Head(rest)]

ranged(rest) == Len(rest) > 1 /\ Head(rest) = "-" /\ rest[2] # "]"
RECURSIVE classRanges(_, _)
rangeAdded(ranges, first, last) ==
  IF ~first.valid \/ ~last.valid \/ codeOf(last.scalar) < codeOf(first.scalar)
    THEN [rest |-> <<>>, valid |-> FALSE, ranges |-> <<>>]
  ELSE classRanges(last.rest, Append(ranges, <<first.scalar, last.scalar>>))
rangeFrom(ranges, first) ==
  rangeAdded(ranges, first, IF ranged(first.rest) THEN classScalar(Tail(first.rest)) ELSE first)
classRanges(rest, ranges) ==
  IF rest = <<>> \/ Head(rest) = "]" THEN [rest |-> rest, valid |-> ranges # <<>> /\ rest # <<>>, ranges |-> ranges]
  ELSE rangeFrom(ranges, classScalar(rest))

classClosed(negated, class) ==
  IF class.valid THEN Parsed(Tail(class.rest), TRUE, ClassNode(negated, class.ranges)) ELSE Rejected
characterClass(rest) ==
  classClosed(StartsWith(rest, "^"), classRanges(IF StartsWith(rest, "^") THEN Tail(rest) ELSE rest, <<>>))

RECURSIVE alternatives(_, _, _), sequence(_, _, _)
expression(rest, depth) == alternatives(rest, depth, <<>>)

groupClosed(inner) ==
  IF ~inner.valid \/ ~StartsWith(inner.rest, ")") THEN Rejected ELSE Parsed(Tail(inner.rest), TRUE, inner.node)
atom(rest, depth) ==
  CASE rest = <<>>                          -> Rejected
    [] StartsWith(rest, "(")                -> IF depth = 0 THEN Rejected ELSE groupClosed(expression(Tail(rest), depth - 1))
    [] StartsWith(rest, ".")                -> Parsed(Tail(rest), TRUE, Node("Any", <<>>))
    [] StartsWith(rest, "^")                -> Parsed(Tail(rest), TRUE, Node("Begin", <<>>))
    [] StartsWith(rest, "$")                -> Parsed(Tail(rest), TRUE, Node("End", <<>>))
    [] StartsWith(rest, "[")                -> characterClass(Tail(rest))
    [] StartsWith(rest, "\\")               ->
         IF Tail(rest) = <<>> THEN Rejected ELSE Parsed(Tail(Tail(rest)), TRUE, LiteralNode(rest[2]))
    [] StartsIn(rest, {"*", "+", "?", ")"}) -> Rejected
    [] OTHER                                -> Parsed(Tail(rest), TRUE, LiteralNode(Head(rest)))

\* At most one repetition follows an atom: a second sign is an atom, and refused as one.
repeated(value, least, most) == Parsed(Tail(value.rest), TRUE, RepeatNode(value.node, least, most))
repetition(value) ==
  CASE ~value.valid                -> Rejected
    [] StartsWith(value.rest, "*") -> repeated(value, 0, None)
    [] StartsWith(value.rest, "+") -> repeated(value, 1, None)
    [] StartsWith(value.rest, "?") -> repeated(value, 0, 1)
    [] OTHER                       -> value
factor(rest, depth) == repetition(atom(rest, depth))

OneOrMany(kind, nodes) ==
  IF nodes = <<>> THEN Node("Empty", <<>>) ELSE IF Len(nodes) = 1 THEN nodes[1] ELSE Node(kind, nodes)

sequenceFrom(depth, parts, more) ==
  IF more.valid THEN sequence(more.rest, depth, Append(parts, more.node)) ELSE Rejected
sequence(rest, depth, parts) ==
  IF rest = <<>> \/ Head(rest) \in {")", "|"} THEN Parsed(rest, TRUE, OneOrMany("Concat", parts))
  ELSE sequenceFrom(depth, parts, factor(rest, depth))

alternativesFrom(depth, nodes, more) ==
  IF ~more.valid THEN Rejected
  ELSE IF StartsWith(more.rest, "|") THEN alternatives(Tail(more.rest), depth, Append(nodes, more.node))
  ELSE Parsed(more.rest, TRUE, OneOrMany("Alternate", Append(nodes, more.node)))
alternatives(rest, depth, nodes) == alternativesFrom(depth, nodes, sequence(rest, depth, <<>>))

\* The node of a pattern, or none: all of it must be used.
MaximumDepth == 256
wholePattern(result) == [valid |-> result.valid /\ result.rest = <<>>, node |-> result.node]
parse(pattern) == wholePattern(expression(pattern, MaximumDepth))

-----------------------------------------------------------------------------
(* Matching.  The ends of a node from a position, with the number of nodes *)
(* evaluated for it: the budget runs out when the sum of a search does.    *)

Ends(set, spent) == [ends |-> set, spent |-> spent]
inRange(range, value, caseSensitive) ==
  codeOf(value) \in codeOf(folded(range[1], caseSensitive))..codeOf(folded(range[2], caseSensitive))
AcceptsScalar(node, value, caseSensitive) ==
  CASE node.kind = "Literal"        -> value = folded(node.literal, caseSensitive)
    [] node.kind = "Any"            -> TRUE
    [] node.kind = "CharacterClass" ->
         node.negated # \E k \in DOMAIN node.ranges : inRange(node.ranges[k], value, caseSensitive)
Accepts(context, node, position) ==
  AcceptsScalar(node, folded(At(context.text, position), context.caseSensitive), context.caseSensitive)

endsOfBoth(a, e) == Ends(a.ends \cup e.ends, a.spent + e.spent)
endsAfter(a, e) == Ends(e.ends, a.spent + e.spent)

RECURSIVE evaluateNode(_, _, _), evaluateRepeat(_, _, _, _, _, _, _)

\* The ends of a node from each of several positions, taken in order.
FromAll(node, positions, context) ==
  FoldSet(LAMBDA p, a : endsOfBoth(a, evaluateNode(node, p, context)), Ends({}, 0), positions)

\* One repetition more for as long as it comes to positions that were not seen.
repeatedOnce(node, seen, count, accepted, spent, context, more) ==
  evaluateRepeat(node, more.ends \ seen, seen \cup more.ends, count,
                 IF count >= node.least THEN accepted \cup more.ends ELSE accepted, spent + more.spent, context)
evaluateRepeat(node, frontier, seen, count, accepted, spent, context) ==
  IF frontier = {} \/ (node.most # None /\ count >= node.most) THEN Ends(accepted, spent)
  ELSE repeatedOnce(node, seen, count + 1, accepted, spent, context, FromAll(node.children[1], frontier, context))

evaluateNode(node, position, context) ==
  CASE node.kind = "Empty" -> Ends({position}, 1)
    [] node.kind \in {"Literal", "Any", "CharacterClass"} ->
         Ends(IF position < context.upper /\ Accepts(context, node, position) THEN {position + 1} ELSE {}, 1)
    [] node.kind = "Begin" -> Ends({position} \cap {context.lower}, 1)
    [] node.kind = "End"   -> Ends({position} \cap {context.upper}, 1)
    [] node.kind = "Alternate" ->
         FoldLeft(LAMBDA a, child : endsOfBoth(a, evaluateNode(child, position, context)), Ends({}, 1), node.children)
    [] node.kind = "Concat" ->
         FoldLeft(LAMBDA a, child : endsAfter(a, FromAll(child, a.ends, context)), Ends({position}, 1), node.children)
    [] node.kind = "Repeat" ->
         evaluateRepeat(node, {position}, {position}, 0, IF node.least = 0 THEN {position} ELSE {}, 1, context)

wholeWordMatch(text, begin, end, low, high) ==
  /\ begin = low \/ ~wordScalar(At(text, begin - 1))
  /\ end = high \/ ~wordScalar(At(text, end))

-----------------------------------------------------------------------------
(* The search.  Options are [caseSensitive, wholeWord, regex,              *)
(* selectionOnly], a request [query, options, selection, budget] with no   *)
(* or one selection [begin, end].                                          *)

Match(begin, end) == [begin |-> begin, end |-> end]
Found(matches) == [error |-> "None", matches |-> matches]
Failed(error) == [error |-> error, matches |-> <<>>]

\* Matches one after the other: longest[k] is where the one from the k-th position on ends.
RECURSIVE MatchesFrom(_, _, _)
MatchesFrom(k, low, longest) ==
  IF k > Len(longest) THEN <<>>
  ELSE IF longest[k] = None THEN MatchesFrom(k + 1, low, longest)
  ELSE <<Match(low + k - 1, longest[k])>>
         \o MatchesFrom(Greatest(longest[k], low + k) - low + 1, low, longest)

\* The positions a search looks at: every one but those inside a match.
Visited(low, high, matches) ==
  {p \in low..high : \A k \in DOMAIN matches : p <= matches[k].begin \/ p >= matches[k].end}

readsLiterally(text, query, p, caseSensitive) ==
  \A k \in DOMAIN query : folded(At(text, p + k - 1), caseSensitive) = folded(query[k], caseSensitive)
literalEnd(text, request, low, high, p, end) ==
  IF /\ readsLiterally(text, request.query, p, request.options.caseSensitive)
     /\ request.options.wholeWord => wholeWordMatch(text, p, end, low, high)
    THEN end ELSE None
withinBudget(spent, request, matches) == IF spent > request.budget THEN Failed("BudgetExhausted") ELSE Found(matches)
literalFound(request, low, last, matches) ==
  withinBudget(Len(request.query) * Cardinality(Visited(low, last, matches)), request, matches)
literalMatches(text, request, low, high) ==
  IF request.query = <<>> THEN Found(<<>>)
  ELSE literalFound(request, low, high - Len(request.query),
         MatchesFrom(1, low, Each(Numbers(low, high - Len(request.query)),
                                  LAMBDA p : literalEnd(text, request, low, high, p, p + Len(request.query)))))

longestOf(ends) == IF ends = {} THEN None ELSE Max(ends)
regexEnd(text, request, low, high, p, ends) ==
  longestOf({e \in ends : request.options.wholeWord => wholeWordMatch(text, p, e, low, high)})
regexFound(request, low, high, found, matches) ==
  withinBudget(Len(request.query) + FoldSet(LAMBDA p, n : n + found[p - low + 1].spent, 0, Visited(low, high, matches)),
               request, matches)
regexAmong(text, request, low, high, found) ==
  regexFound(request, low, high, found,
    MatchesFrom(1, low, Listed([k \in DOMAIN found |-> regexEnd(text, request, low, high, low + k - 1, found[k].ends)])))
contextOf(text, request, low, high) ==
  [text |-> text, caseSensitive |-> request.options.caseSensitive, lower |-> low, upper |-> high]
regexParsed(text, request, low, high, pattern) ==
  IF ~pattern.valid THEN Failed("InvalidPattern")
  ELSE regexAmong(text, request, low, high,
         Each(Numbers(low, high), LAMBDA p : evaluateNode(pattern.node, p, contextOf(text, request, low, high))))
regexMatches(text, request, low, high) ==
  IF request.query = <<>> THEN Found(<<>>)
  ELSE IF Len(request.query) > request.budget THEN Failed("BudgetExhausted")
  ELSE regexParsed(text, request, low, high, parse(request.query))

searchedIn(text, request, low, high) ==
  IF high > Len(text) THEN Failed("InvalidSelection")
  ELSE IF request.options.regex THEN regexMatches(text, request, low, high)
  ELSE literalMatches(text, request, low, high)
findTextMatches(text, request) ==
  IF request.options.selectionOnly /\ request.selection = <<>> THEN Failed("InvalidSelection")
  ELSE searchedIn(text, request,
                  IF request.options.selectionOnly THEN request.selection[1].begin ELSE 0,
                  IF request.options.selectionOnly THEN request.selection[1].end ELSE Len(text))

-----------------------------------------------------------------------------
(* Reference definitions. *)

\* The pattern reads the text from p to e: the textbook meaning of the signs.
RECURSIVE Reads(_, _, _, _), ReadsAll(_, _, _, _), ReadsAgain(_, _, _, _)
Reads(node, p, e, context) ==
  LET child == node.children[1]
  IN CASE node.kind = "Empty" -> p = e
       [] node.kind = "Begin" -> p = e /\ p = context.lower
       [] node.kind = "End"   -> p = e /\ p = context.upper
       [] node.kind \in {"Literal", "Any", "CharacterClass"} -> e = p + 1 /\ Accepts(context, node, p)
       [] node.kind = "Alternate" -> \E k \in DOMAIN node.children : Reads(node.children[k], p, e, context)
       [] node.kind = "Concat"    -> ReadsAll(node.children, p, e, context)
       [] node.kind = "Repeat" /\ node.most = 1  -> p = e \/ Reads(child, p, e, context)
       [] node.kind = "Repeat" /\ node.least = 0 -> ReadsAgain(child, p, e, context)
       [] OTHER -> \E m \in p..e : Reads(child, p, m, context) /\ ReadsAgain(child, m, e, context)
ReadsAll(nodes, p, e, context) ==
  IF nodes = <<>> THEN p = e
  ELSE \E m \in p..e : Reads(Head(nodes), p, m, context) /\ ReadsAll(Tail(nodes), m, e, context)
ReadsAgain(child, p, e, context) ==
  p = e \/ \E m \in (p + 1)..e : Reads(child, p, m, context) /\ ReadsAgain(child, m, e, context)

\* The matches of a regular expression are the leftmost ones, each as long as it can be:
\* none is missed between two of them, and none goes on after its end.
Means(text, request, node, p, e) ==
  /\ Reads(node, p, e, contextOf(text, request, 0, Len(text)))
  /\ request.options.wholeWord => wholeWordMatch(text, p, e, 0, Len(text))
AreLeftmostLongest(text, request, node, matches) ==
  /\ \A k \in DOMAIN matches :
       /\ k > 1 => matches[k].begin >= matches[k - 1].end /\ matches[k].begin > matches[k - 1].begin
       /\ \A e \in matches[k].end..Len(text) : Means(text, request, node, matches[k].begin, e) <=> e = matches[k].end
  /\ \A p \in Visited(0, Len(text), matches) \ {matches[k].begin : k \in DOMAIN matches}, e \in 0..Len(text) :
       p <= e => ~Means(text, request, node, p, e)
MatchesAreLeftmostLongest(text, request, pattern) ==
  pattern.valid => AreLeftmostLongest(text, request, pattern.node, findTextMatches(text, request).matches)

\* A query without signs finds the same literally and as a regular expression.
PlainQueriesAgree(text, request) ==
  LET As(regex) == findTextMatches(text, [request EXCEPT !.options.regex = regex])
  IN ToSet(request.query) \subseteq {"a", "b", "A", "B", "_", "W", " "} => As(TRUE) = As(FALSE)

\* A pattern written out from its nodes is read back as those nodes.
RECURSIVE Written(_)
Grouped(node) ==
  IF node.kind \in {"Empty", "Concat", "Alternate", "Repeat"} THEN <<"(">> \o Written(node) \o <<")">> ELSE Written(node)
WrittenScalar(c) == IF c \in {"a", "b", "A", "B", "_", "W", " "} THEN <<c>> ELSE <<"\\", c>>
WrittenRange(r) == WrittenScalar(r[1]) \o IF r[1] = r[2] THEN <<>> ELSE <<"-">> \o WrittenScalar(r[2])
Written(node) ==
  CASE node.kind = "Empty" -> <<>>
    [] node.kind = "Literal" -> WrittenScalar(node.literal)
    [] node.kind = "Any" -> <<".">> [] node.kind = "Begin" -> <<"^">> [] node.kind = "End" -> <<"$">>
    [] node.kind = "CharacterClass" ->
         <<"[">> \o (IF node.negated THEN <<"^">> ELSE <<>>) \o FlattenSeq(Each(node.ranges, WrittenRange)) \o <<"]">>
    [] node.kind = "Concat" -> FlattenSeq(Each(node.children, Grouped))
    [] node.kind = "Alternate" -> Tail(FlattenSeq(Each(node.children, LAMBDA child :
           <<"|">> \o IF child.kind = "Alternate" THEN Grouped(child) ELSE Written(child))))
    [] node.kind = "Repeat" ->
         Grouped(node.children[1]) \o (IF node.most = 1 THEN <<"?">> ELSE IF node.least = 1 THEN <<"+">> ELSE <<"*">>)
IsReadBack(node, read) == read.valid /\ (read.node = node)
PatternsReadBack(node) == IsReadBack(node, parse(Written(node)))
=============================================================================
