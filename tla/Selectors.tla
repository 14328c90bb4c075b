----------------------------- MODULE Selectors -----------------------------
(***************************************************************************)
(* What a selector of the command line names, decided twice: by the client *)
(* on the list it was given (internal/cli/cli.go, selectWorkflowID) and by *)
(* the daemon on the table (internal/store/store.go,                       *)
(* ResolveWorkflowSelector).  Selectors, names and ids are sequences of    *)
(* characters; rows is a set of records with id, name and version.         *)
(***************************************************************************)
EXTENDS Integers, Sequences, FiniteSets, SequencesExt

Found(id) == [kind |-> "found", id |-> id]
Missing == [kind |-> "missing", id |-> << >>]
Ambiguous == [kind |-> "ambiguous", id |-> << >>]

Only(some) == Found((CHOOSE r \in some : TRUE).id)
OneOf(some) ==
  IF some = {} THEN Missing
  ELSE IF Cardinality(some) = 1 THEN Only(some) ELSE Ambiguous
-----------------------------------------------------------------------------
ById(rows, selector) == {r \in rows : r.id = selector}
ByName(rows, selector) == {r \in rows : r.name = selector}
Latest(rows) == {r \in rows : r.version = "latest"}

SelectWorkflowID(rows, selector) ==
  LET named == ByName(rows, selector)
  IN IF ById(rows, selector) # {} THEN Found(selector)
     ELSE IF Cardinality(named) > 1 /\ Latest(named) # {} THEN Only(Latest(named))
     ELSE IF named # {} THEN OneOf(named)
     ELSE OneOf({r \in rows : IsPrefix(selector, r.id)})
-----------------------------------------------------------------------------
(* LIKE of SQLite: the case of a letter does not matter, "_" is any one       *)
(* character, "%" any number of them.  The prefix search adds a "%" to        *)
(* the selector.  A match is how much of the text stands before the part that *)
(* a character of the pattern matches: without a "%" between them, two        *)
(* characters match as far apart as they are.                                 *)
AnyText == "%"
AnyChar == "_"
Lower(ch) == CASE ch = "A" -> "a" [] ch = "B" -> "b" [] OTHER -> ch

CharsLike(pattern, text) ==
  \E before \in [1..(Len(pattern) + 1) -> 0..Len(text)] :
    /\ before[1] = 0 /\ before[Len(pattern) + 1] = Len(text)
    /\ \A k \in 1..Len(pattern) :
         \/ pattern[k] \in {AnyText, AnyChar}
         \/ before[k] < Len(text) /\ Lower(pattern[k]) = Lower(text[before[k] + 1])
    /\ \A k \in 1..Len(pattern), l \in 2..(Len(pattern) + 1) : k < l =>
         IF \E m \in k..(l - 1) : pattern[m] = AnyText
           THEN before[k] <= before[l] ELSE before[l] - before[k] = l - k

(* A digit of an id (workflowIDFor, hex.EncodeToString): LIKE takes it as it  *)
(* is.                                                                        *)
Plain(ch) == Lower(ch) = ch /\ ch \notin {AnyText, AnyChar}

(* Mutant of ResolveByName: the newest of several versions is taken.          *)
ResolveByNameAny(rows, selector) ==
  LET named == ByName(rows, selector)
  IN IF named # {} THEN Only(named) ELSE Missing

(* Ordered with the latest version first: it, or the only one.                *)
ResolveByName(rows, selector) ==
  LET named == ByName(rows, selector)
  IN IF Latest(named) # {} THEN Only(Latest(named)) ELSE OneOf(named)

BeginsLike(id, selector) == CharsLike(selector \o <<AnyText>>, id)

ResolveByIDPrefix(rows, selector) == OneOf({r \in rows : BeginsLike(r.id, selector)})

ResolveWorkflowSelector(rows, selector) ==
  IF ById(rows, selector) # {} THEN Found(selector)
  ELSE IF ResolveByName(rows, selector) # Missing THEN ResolveByName(rows, selector)
  ELSE ResolveByIDPrefix(rows, selector)
=============================================================================
