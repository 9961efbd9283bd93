---------------------------- MODULE FilterValues ----------------------------
(***************************************************************************)
(* The values that filters compute and rows hold, and the expressions that *)
(* filters are. A text is a sequence of characters; the text of a          *)
(* timestamp is one digit.                                                 *)
(***************************************************************************)
EXTENDS Integers, Sequences, SequencesExt

----------------------------------------------------------------------------
(* Values, of CEL and of SQL. What they hold differs in kind, so that they *)
(* are compared by their types first.                                      *)

Str(s)  == [t |-> "string", v |-> s]
Time(n) == [t |-> "timestamp", v |-> n]
Num(n)  == [t |-> "int", v |-> n]
Bool(b) == [t |-> "bool", v |-> b]
Null    == [t |-> "null"]
Err     == [t |-> "error"]

True(x) == x.t = "bool" /\ x.v
False(x) == x.t = "bool" /\ ~x.v

Digits == <<"1", "2", "3", "4">>

\* p is a part of the text s.
IsInfix(p, s) == \E i \in 1..Len(s) + 1 : IsPrefix(p, SubSeq(s, i, Len(s)))

\* The time that a text stands for.
Parsed(s) ==
    LET hits == {i \in DOMAIN Digits : s = <<Digits[i]>>}
    IN IF hits = {} THEN Err ELSE Time(CHOOSE i \in hits : TRUE)

----------------------------------------------------------------------------
(* Expressions                                                             *)

Const(x)      == [op |-> "const", val |-> x]
Ident(n)      == [op |-> "ident", name |-> n]
Select(e, f)  == [op |-> "select", of |-> e, key |-> f]
Index(e, k)   == [op |-> "index", of |-> e, key |-> k]
Call(f, l, r) == [op |-> "call", fn |-> f, l |-> l, r |-> r]
Not(e)        == [op |-> "not", of |-> e]
Stamp(e)      == [op |-> "timestamp", of |-> e]
In(e, xs)     == [op |-> "in", of |-> e, list |-> xs]
=============================================================================
