--------------------------------- MODULE Rules ---------------------------------
(* Row-level rules (db.EvaluateRule): a rule is cut into tokens, parsed by     *)
(* descent and evaluated on what a request claims.  Evaluation has no effect   *)
(* and no error, so the value is computed along with the parse here; the tree  *)
(* between them is left out.  A value is a pair of its kind and its text.      *)
EXTENDS Integers, Sequences, FiniteSets, FiniteSetsExt

CONSTANTS RuleTokens,  \* tokens of rules
          MaxTokens    \* bound: tokens of a rule

VARIABLES
  tokens,  \* the tokens cut off so far
  auth     \* what "auth" stands for

ruleVars == <<tokens, auth>>

Null == <<"null", "null">>
Bool(b) == <<"bool", IF b THEN "true" ELSE "false">>
True == Bool(TRUE)

\* checkRLS puts a map there without a claim, too: one that is nil, but a map.
Claims == {<<"map", "map[]">>, <<"map", "map[uid:u1]">>}
Member(v, field) ==
  IF v = <<"map", "map[uid:u1]">> /\ field = "uid" THEN <<"string", "u1">> ELSE Null

RuleInit == tokens = <<>> /\ auth \in Claims

\* Tokenize goes on by a token.
Tokenize(token) ==
  /\ Len(tokens) < MaxTokens /\ tokens' = Append(tokens, token) /\ UNCHANGED auth

RuleNext == \E token \in RuleTokens : Tokenize(token)
RuleSpec == RuleInit /\ [][RuleNext]_ruleVars

\* A parse: whether it succeeded, the value, and the token it stopped at.
Parsed(ok, val, pos) == [ok |-> ok, val |-> val, pos |-> pos]
Failed(pos) == Parsed(FALSE, Null, pos)
peek(pos) == IF pos <= Len(tokens) THEN tokens[pos] ELSE "end"

Literals == {"true", "false", "null", "'u1'"}
Idents == {"auth", "uid"}
Value(token) ==
  CASE token \in {"true", "false"} -> <<"bool", token>>
    [] token = "'u1'" -> <<"string", "u1">>
    [] token = "auth" -> auth
    [] OTHER -> Null

\* Whatever is no boolean counts as false, negated or not.
Not(v) == Bool(v = <<"bool", "false">>)

\* Two values are equal when both are null, or print alike.
Equal(a, b) == IF Null \in {a, b} THEN a = b ELSE a[2] = b[2]

Binary(op, a, b) ==
  CASE op = "&&" -> Bool(a = True /\ b = True)
    [] op = "||" -> Bool(a = True \/ b = True)
    [] op = "==" -> Bool(Equal(a, b))
    [] op = "!=" -> Bool(~Equal(a, b))

\* Operators by how weakly they bind.
\* Mutant of Level: "and" binds as weakly as "or".
FlatLevel == <<{"||", "&&"}, {}, {"==", "!="}>>

Level == <<{"||"}, {"&&"}, {"==", "!="}>>

RECURSIVE parse(_, _), parseChain(_, _), parseUnary(_), parseFields(_), parsePrimary(_)

parse(level, pos) ==
  IF level > Len(Level) THEN parseUnary(pos) ELSE parseChain(level, parse(level + 1, pos))

parseChain(level, left) ==
  IF ~left.ok \/ peek(left.pos) \notin Level[level] THEN left
  ELSE LET right == parse(level + 1, left.pos + 1) IN
         parseChain(level, Parsed(right.ok, Binary(peek(left.pos), left.val, right.val), right.pos))

parseUnary(pos) ==
  IF peek(pos) # "!" THEN parsePrimary(pos)
  ELSE LET sub == parseUnary(pos + 1) IN Parsed(sub.ok, Not(sub.val), sub.pos)

parseFields(left) ==
  IF ~left.ok \/ peek(left.pos) # "." THEN left
  ELSE IF peek(left.pos + 1) \notin Idents THEN Failed(left.pos)
  ELSE parseFields(Parsed(TRUE, Member(left.val, peek(left.pos + 1)), left.pos + 2))

parsePrimary(pos) ==
  LET inner == parse(1, pos + 1) IN
  CASE peek(pos) \in Literals \cup Idents -> parseFields(Parsed(TRUE, Value(peek(pos)), pos + 1))
    [] peek(pos) = "(" -> parseFields(
         IF inner.ok /\ peek(inner.pos) = ")" THEN Parsed(TRUE, inner.val, inner.pos + 1)
         ELSE Failed(pos))
    [] OTHER -> Failed(pos)

\* The outcome: "allow", "deny", or an error for a rule that does not parse, goes
\* on after its end, or is no boolean.
Outcome(ok, val) ==
  IF ~ok \/ val[1] # "bool" THEN "error" ELSE IF val = True THEN "allow" ELSE "deny"

EvaluateRule ==
  LET p == parse(1, 1)
  IN IF tokens = <<>> THEN "deny" ELSE Outcome(p.ok /\ peek(p.pos) = "end", p.val)

------------------------------------------------------------------------------
\* The grammar read from outside in: an expression is split at the last of the
\* operators that bind most weakly and stand outside of parentheses.
Nested(s, i) ==
  Cardinality({j \in 1..(i - 1) : s[j] = "("}) - Cardinality({j \in 1..(i - 1) : s[j] = ")"})
Outside(s, ops) == {i \in DOMAIN s : s[i] \in ops /\ Nested(s, i) = 0}
Part(s, from, to) == SubSeq(s, from, to)
NoMeaning == [ok |-> FALSE, val |-> Null]

RECURSIVE Meaning(_)

Split(s, i) ==
  LET a == Meaning(Part(s, 1, i - 1))  b == Meaning(Part(s, i + 1, Len(s)))
  IN [ok |-> a.ok /\ b.ok, val |-> Binary(s[i], a.val, b.val)]

Meaning(s) ==
  CASE s = <<>> -> NoMeaning
    [] Outside(s, {"||"}) # {} -> Split(s, Max(Outside(s, {"||"})))
    [] OTHER ->
  CASE Outside(s, {"&&"}) # {} -> Split(s, Max(Outside(s, {"&&"})))
    [] OTHER ->
  CASE Outside(s, {"==", "!="}) # {} -> Split(s, Max(Outside(s, {"==", "!="})))
    [] OTHER ->
  CASE s[1] = "!" -> LET m == Meaning(Tail(s)) IN [m EXCEPT !.val = Not(m.val)]
    [] OTHER ->
  CASE Len(s) > 2 /\ s[Len(s) - 1] = "." /\ s[Len(s)] \in Idents ->
         LET m == Meaning(Part(s, 1, Len(s) - 2)) IN [m EXCEPT !.val = Member(m.val, s[Len(s)])]
    [] s[1] = "(" /\ s[Len(s)] = ")" -> Meaning(Part(s, 2, Len(s) - 1))
    [] Len(s) = 1 /\ s[1] \in Literals \cup Idents -> [ok |-> TRUE, val |-> Value(s[1])]
    [] OTHER -> NoMeaning

RuleTypeOK == auth \in Claims /\ tokens \in Seq(RuleTokens) /\ Len(tokens) <= MaxTokens

\* A rule decides what its grammar says: "or" binds weaker than "and", "and"
\* weaker than comparison, all to the left, negation and fields strongest; and
\* whatever has no meaning is an error, which the handlers take for a refusal.
DecidesAsWritten ==
  LET m == Meaning(tokens)
  IN EvaluateRule = IF tokens = <<>> THEN "deny" ELSE Outcome(m.ok, m.val)
==============================================================================
