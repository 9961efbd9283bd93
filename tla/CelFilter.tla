----------------------------- MODULE CelFilter -----------------------------
(***************************************************************************)
(* Filters of the list and summary requests: a CEL expression is compiled  *)
(* to a condition in SQL (package cel2sql), which the database evaluates   *)
(* on its rows. Cel says what an expression means by the rules of CEL, Sql *)
(* what the database makes of the condition.                               *)
(*                                                                         *)
(* An expression is a record with the kind of its node. A row has columns, *)
(* and JSON columns: functions from the paths of their leaves to texts.    *)
(* Regular expressions, parts of dates and numbers in JSON are left out.   *)
(* Texts and keys are written into the SQL between quotes as they are: one *)
(* that holds a quote ends there. What such a condition, where HoldsQuote  *)
(* is true, does to the statement is up to ReadApi, not Sql.               *)
(***************************************************************************)
EXTENDS FilterValues

----------------------------------------------------------------------------
(* Expressions and their types                                             *)

\* The types of the variables in NewResultsEnv and NewRecordsEnv.
VarType(n) ==
    CASE n = "data"        -> "any"
      [] n = "annotations" -> "map"
      [] n = "summary"     -> "summary"
      [] n \in {"create_time", "update_time"} -> "timestamp"
      [] OTHER             -> "string"

\* The types of the fields of RecordSummary.
FieldType(f) ==
    CASE f = "status"      -> "int"
      [] f = "annotations" -> "map"
      [] f \in {"start_time", "end_time"} -> "timestamp"
      [] OTHER             -> "string"

\* What the type checker finds.
RECURSIVE TypeOf(_)
TypeOf(e) ==
    CASE e.op = "const"     -> e.val.t
      [] e.op = "ident"     -> VarType(e.name)
      [] e.op = "select"    -> IF TypeOf(e.of) = "summary" THEN FieldType(e.key) ELSE "dyn"
      [] e.op = "index"     -> IF TypeOf(e.of) = "map" THEN "string" ELSE "dyn"
      [] e.op = "timestamp" -> "timestamp"
      [] e.op = "call"      -> IF e.fn = "+" THEN "string" ELSE "bool"
      [] OTHER              -> "bool"

Compatible(s, t) == s = t \/ {s, t} \cap {"dyn", "any"} # {}

\* What both compile with, overloads and all.
RECURSIVE Compiles(_)
Compiles(e) ==
    CASE e.op \in {"const", "ident"}   -> TRUE
      [] e.op \in {"select", "index"}  -> /\ Compiles(e.of)
                                          /\ TypeOf(e.of) \in {"dyn", "any", "map", "summary"}
      [] e.op = "not"                  -> Compiles(e.of) /\ Compatible(TypeOf(e.of), "bool")
      [] e.op \in {"timestamp", "in"}  -> Compiles(e.of) /\ Compatible(TypeOf(e.of), "string")
      [] e.op = "call" ->
            /\ Compiles(e.l) /\ Compiles(e.r)
            /\ Compatible(TypeOf(e.l), TypeOf(e.r))
            /\ e.fn \in {"&&", "||"} => Compatible(TypeOf(e.l), "bool")
            /\ e.fn \in {"+", "contains", "startsWith", "endsWith"} =>
                  Compatible(TypeOf(e.l), "string")

----------------------------------------------------------------------------
(* What an expression means                                                *)

\* A comparison of two values of one type; times and numbers have an order.
Compare(f, a, b) ==
    CASE f = "=="         -> Bool(a.v = b.v)
      [] f = "!="         -> Bool(a.v # b.v)
      [] f = "<"          -> Bool(a.v < b.v)
      [] f = "<="         -> Bool(a.v <= b.v)
      [] f = ">"          -> Bool(a.v > b.v)
      [] f = ">="         -> Bool(a.v >= b.v)
      [] f = "contains"   -> Bool(IsInfix(b.v, a.v))
      [] f = "startsWith" -> Bool(IsPrefix(b.v, a.v))
      [] f = "endsWith"   -> Bool(IsSuffix(b.v, a.v))
      [] f = "+"          -> Str(a.v \o b.v)

\* The keys on the way to e, from the variable.
RECURSIVE Path(_)
Path(e) == IF e.op \in {"select", "index"} THEN Append(Path(e.of), e.key) ELSE <<>>

RECURSIVE Root(_)
Root(e) == IF e.op \in {"select", "index"} THEN Root(e.of) ELSE e

\* The field of a row that a path leads to; one that is missing is an error.
Field(row, name, path) ==
    LET json == IF name = "summary" THEN row.json["recordsummary_annotations"] ELSE row.json[name]
        rest == IF name = "summary" THEN Tail(path) ELSE path
        leaf == IF rest \in DOMAIN json THEN Str(json[rest]) ELSE Err
    IN IF name # "summary" \/ rest # <<>> THEN leaf
       ELSE IF row.summary[path[1]].t = "null" THEN Err ELSE row.summary[path[1]]

\* cel2sql promises to compare dynamic values with timestamps as timestamps.
Coerce(a, other) == IF a.t = "string" /\ other.t = "timestamp" THEN Parsed(a.v) ELSE a

RECURSIVE Cel(_, _)
Cel(e, row) ==
    CASE e.op = "const"     -> e.val
      [] e.op = "ident"     -> row.var[e.name]
      [] e.op \in {"select", "index"} -> Field(row, Root(e).name, Path(e))
      [] e.op = "timestamp" -> LET x == Cel(e.of, row)
                               IN IF x.t = "string" THEN Parsed(x.v) ELSE Err
      [] e.op = "not"       -> LET x == Cel(e.of, row)
                               IN IF x.t = "bool" THEN Bool(~x.v) ELSE Err
      [] e.op = "in"        -> LET x == Cel(e.of, row)
                               IN IF x.t = "error" THEN Err
                                  ELSE Bool(\E i \in DOMAIN e.list : e.list[i] = x.v)
      [] e.op = "call" ->
            LET l == Cel(e.l, row)
                r == Cel(e.r, row)
                a == Coerce(l, r)
                b == Coerce(r, l)
            IN CASE e.fn = "&&" -> IF False(l) \/ False(r) THEN Bool(FALSE)
                                   ELSE IF True(l) /\ True(r) THEN Bool(TRUE) ELSE Err
                 [] e.fn = "||" -> IF True(l) \/ True(r) THEN Bool(TRUE)
                                   ELSE IF False(l) /\ False(r) THEN Bool(FALSE) ELSE Err
                 [] OTHER       -> IF a.t # b.t \/ a.t = "error" THEN Err
                                   ELSE Compare(e.fn, a, b)

----------------------------------------------------------------------------
(* The conversion. A condition is a record with the kind of its node.      *)

Unsupported == [s |-> "unsupported"]

\* identToColumn
Column(n) ==
    CASE n = "uid"         -> "id"
      [] n = "create_time" -> "created_time"
      [] n = "update_time" -> "updated_time"
      [] n = "data_type"   -> "type"
      [] OTHER             -> n

\* translateToRecordSummaryColumn: a column for each field; what follows the
\* field is dropped.
RecordSummaryColumn(path) ==
    CASE path[1] = "record"      -> "recordsummary_record"
      [] path[1] = "type"        -> "recordsummary_type"
      [] path[1] = "status"      -> "recordsummary_status"
      [] path[1] = "start_time"  -> "recordsummary_start_time"
      [] path[1] = "end_time"    -> "recordsummary_end_time"
      [] path[1] = "annotations" -> "recordsummary_annotations"

Col(c) == [s |-> "col", col |-> c]

\* translateToJSONAccessors: root->'a'->>'b'.
JSONAccessors(root, path) == [s |-> "json", col |-> root, path |-> path]

\* interpretSelectExpr, with the fields of e and additional ones. Only a chain
\* of fields that begins with a variable has them.
SelectExpr(e, more) ==
    CASE Root(e).op = "ident" /\ TypeOf(e.of) = "dyn" ->
            JSONAccessors(Root(e).name, Path(e) \o more)
      [] Root(e).op = "ident" /\ TypeOf(e.of) = "summary" ->
            Col(RecordSummaryColumn(Path(e)))
      [] OTHER -> Unsupported

\* interpretIndexExpr
IndexExpr(e) ==
    CASE e.of.op = "select" -> SelectExpr(e.of, <<e.key>>)
      [] e.of.op = "ident"  -> JSONAccessors(Column(e.of.name), <<e.key>>)
      [] OTHER              -> Unsupported

\* allStringConcatArgs: the operands of nested additions. Any other call, an
\* index among them, is left out.
RECURSIVE allStringConcatArgs(_)
allStringConcatArgs(e) ==
    CASE e.op = "call" /\ e.fn = "+"         -> allStringConcatArgs(e.l) \o allStringConcatArgs(e.r)
      [] e.op \in {"const", "ident", "select"} -> <<e>>
      [] OTHER                               -> <<>>

\* mayBeTranslatedToJSONPathContainsExpression
JSONPathContains(l, fn, r) ==
    /\ l.op = "index" /\ fn = "=="
    /\ r.op = "const" /\ r.val.t = "string"
    /\ TypeOf(l.of) # "dyn"

\* What is dynamic takes the type of the other operand, if that is a timestamp.
coerceToTypeOf(c, e, other) ==
    IF TypeOf(e) = "dyn" /\ TypeOf(other) = "timestamp"
    THEN [s |-> "cast", of |-> c] ELSE c

\* interpretConstExpr: the text between quotes, which is a literal of its value
\* unless it holds a quote itself.
ConstExpr(e) == [s |-> "lit", val |-> e.val]

\* Mutant: NOT without its parentheses.
NegatedBare(c) ==
    IF c.s = "bin" /\ c.o \in {"&&", "||"} THEN [c EXCEPT !.l = [s |-> "not", of |-> c.l]]
    ELSE [s |-> "not", of |-> c]

\* interpretUnaryCallExpr: NOT (...).
Negated(c) == [s |-> "not", of |-> c]

\* interpretExpr
RECURSIVE Interpret(_)
Interpret(e) ==
    LET Binary(f) == [s |-> "bin", o |-> f, l |-> coerceToTypeOf(Interpret(e.l), e.l, e.r),
                                            r |-> coerceToTypeOf(Interpret(e.r), e.r, e.l)]
        Function(f) == [s |-> "bin", o |-> f, l |-> Interpret(e.l), r |-> Interpret(e.r)]
        HasEntry(l, r) == [s |-> "@>", of |-> Interpret(l.of), key |-> l.key, val |-> r.val]
    IN
    CASE e.op = "const"     -> ConstExpr(e)
      [] e.op = "ident"     -> Col(Column(e.name))
      [] e.op = "select"    -> SelectExpr(e, <<>>)
      [] e.op = "index"     -> IndexExpr(e)
      [] e.op = "timestamp" -> [s |-> "cast", of |-> Interpret(e.of)]
      [] e.op = "not"       -> Negated(Interpret(e.of))
      [] e.op = "in"        -> [s |-> "in", of |-> Interpret(e.of), list |-> e.list]
      [] e.op = "call" ->
            CASE e.fn = "+" /\ "string" \in {TypeOf(e.l), TypeOf(e.r)} ->
                    LET args == allStringConcatArgs(e)
                    IN [s |-> "concat", args |-> [i \in DOMAIN args |-> Interpret(args[i])]]
              [] JSONPathContains(e.l, e.fn, e.r)                -> HasEntry(e.l, e.r)
              [] JSONPathContains(e.r, e.fn, e.l)                -> HasEntry(e.r, e.l)
              [] e.fn \in {"contains", "startsWith", "endsWith"} -> Function(e.fn)
              [] OTHER                                           -> Binary(e.fn)

\* An unsupported part makes the whole filter unsupported.
RECURSIVE Supported(_)
Supported(c) ==
    CASE c.s = "unsupported"                 -> FALSE
      [] c.s \in {"not", "cast", "in", "@>"} -> Supported(c.of)
      [] c.s = "bin"                         -> Supported(c.l) /\ Supported(c.r)
      [] c.s = "concat"                      -> \A i \in DOMAIN c.args : Supported(c.args[i])
      [] OTHER                               -> TRUE

----------------------------------------------------------------------------
(* What PostgreSQL makes of a condition                                    *)

ColumnType(c) ==
    CASE c \in {"data", "annotations", "recordsummary_annotations"} -> "jsonb"
      [] c = "recordsummary_status"                                 -> "int"
      [] c \in {"created_time", "updated_time", "recordsummary_start_time",
                "recordsummary_end_time"}                           -> "timestamp"
      [] OTHER                                                      -> "string"

RECURSIVE SqlType(_)
SqlType(c) ==
    CASE c.s = "lit"                -> c.val.t
      [] c.s = "col"                -> ColumnType(c.col)
      [] c.s \in {"json", "concat"} -> "string"
      [] c.s = "cast"               -> "timestamp"
      [] OTHER                      -> "bool"

\* A condition whose operands differ in type fails, whatever the rows.
RECURSIVE WellTyped(_)
WellTyped(c) ==
    CASE c.s = "not"  -> WellTyped(c.of) /\ SqlType(c.of) = "bool"
      [] c.s = "cast" -> SqlType(c.of) \in {"string", "timestamp"}
      [] c.s = "in"   -> SqlType(c.of) = "string"
      [] c.s = "@>"   -> SqlType(c.of) = "jsonb"
      [] c.s = "bin"  -> /\ WellTyped(c.l) /\ WellTyped(c.r)
                         /\ SqlType(c.l) = SqlType(c.r)
                         /\ c.o \in {"&&", "||"} => SqlType(c.l) = "bool"
                         /\ c.o \in {"contains", "startsWith", "endsWith"} =>
                               SqlType(c.l) = "string"
      [] OTHER        -> TRUE

\* CONCAT ignores NULLs.
RECURSIVE Concat(_)
Concat(xs) == IF xs = <<>> THEN <<>>
              ELSE (IF Head(xs).t = "null" THEN <<>> ELSE Head(xs).v) \o Concat(Tail(xs))

\* LIKE takes an underscore for any character.
Like(p, s) == Len(p) = Len(s) /\ \A i \in DOMAIN p : p[i] \in {"_", s[i]}

SqlCompare(o, a, b) ==
    CASE o = "startsWith" -> Bool(Len(b.v) <= Len(a.v) /\ Like(b.v, SubSeq(a.v, 1, Len(b.v))))
      [] o = "endsWith"   -> Bool(/\ Len(b.v) <= Len(a.v)
                                  /\ Like(b.v, SubSeq(a.v, Len(a.v) - Len(b.v) + 1, Len(a.v))))
      [] OTHER            -> Compare(o, a, b)

\* A text that is no time fails when it is cast, and with it the query.
RECURSIVE Sql(_, _)
Sql(c, row) ==
    LET Leaf(col, path) == IF path \in DOMAIN row.json[col] THEN Str(row.json[col][path]) ELSE Null
    IN
    CASE c.s = "lit"    -> c.val
      [] c.s = "col"    -> row.col[c.col]
      [] c.s = "json"   -> Leaf(c.col, c.path)
      [] c.s = "cast"   -> LET x == Sql(c.of, row)
                           IN IF x.t = "string" THEN Parsed(x.v) ELSE x
      [] c.s = "concat" -> Str(Concat([i \in DOMAIN c.args |-> Sql(c.args[i], row)]))
      [] c.s = "@>"     -> LET x == Leaf(c.of.col, <<c.key>>)
                           IN Bool(x.t = "string" /\ x.v = c.val.v)
      [] c.s = "in"     -> LET x == Sql(c.of, row)
                           IN IF x.t # "string" THEN x
                              ELSE Bool(\E i \in DOMAIN c.list : c.list[i] = x.v)
      [] c.s = "not"    -> LET x == Sql(c.of, row)
                           IN IF x.t = "bool" THEN Bool(~x.v) ELSE x
      [] c.s = "bin"    ->
            LET l == Sql(c.l, row)
                r == Sql(c.r, row)
            IN IF "error" \in {l.t, r.t} THEN Err ELSE
               CASE c.o = "&&" -> IF False(l) \/ False(r) THEN Bool(FALSE)
                                  ELSE IF True(l) /\ True(r) THEN Bool(TRUE) ELSE Null
                 [] c.o = "||" -> IF True(l) \/ True(r) THEN Bool(TRUE)
                                  ELSE IF False(l) /\ False(r) THEN Bool(FALSE) ELSE Null
                 [] OTHER      -> IF "null" \in {l.t, r.t} THEN Null ELSE SqlCompare(c.o, l, r)

----------------------------------------------------------------------------
(* Filters of requests                                                     *)

\* filter.build: InvalidArgument for what does not compile or convert.
Builds(e) == Compiles(e) /\ TypeOf(e) \in {"bool", "dyn"} /\ Supported(Interpret(e))

\* The database takes the condition, whatever the rows.
Prepares(e) == WellTyped(Interpret(e)) /\ SqlType(Interpret(e)) = "bool"

Quote == "'"

\* A text or a key of the filter holds a quote, which nothing escapes.
RECURSIVE HoldsQuote(_)
HoldsQuote(e) ==
    CASE e.op = "const" -> e.val.t = "string" /\ Contains(e.val.v, Quote)
      [] e.op = "ident" -> FALSE
      [] e.op = "index" -> e.key = Quote \/ HoldsQuote(e.of)
      [] e.op = "in"    -> HoldsQuote(e.of) \/ \E i \in DOMAIN e.list : Contains(e.list[i], Quote)
      [] e.op = "call"  -> HoldsQuote(e.l) \/ HoldsQuote(e.r)
      [] OTHER          -> HoldsQuote(e.of)

\* What the WHERE clause makes of a row.
Where(e, row) == Sql(Interpret(e), row)

\* The variables of a filter.
RECURSIVE Variables(_)
Variables(e) ==
    CASE e.op = "const" -> {}
      [] e.op = "ident" -> {e.name}
      [] e.op = "call"  -> Variables(e.l) \cup Variables(e.r)
      [] OTHER          -> Variables(e.of)

\* recordCEL, ParseFilter: the filter of ListLogs is not converted.
LogFilter(e) == Compiles(e) /\ Variables(e) \subseteq {"name", "data_type", "data"}
=============================================================================
