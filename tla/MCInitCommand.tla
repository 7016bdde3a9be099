---------------------------- MODULE MCInitCommand ----------------------------
(***************************************************************************)
(* Small drafts for TLC: one that a person is asked about, with an object  *)
(* that can be read two ways and a search by POST, and one that files of   *)
(* decisions answer, with failed rows, a clash of names, and operations    *)
(* that the emitter refuses.                                               *)
(***************************************************************************)
EXTENDS InitCommand

Id(a, b) == <<a, Dot, b>>
Always2 == [items |-> 2, presentNonNull |-> 2]
Often == [items |-> 2, presentNonNull |-> 1]

Text(nullable) == [kind |-> "scalar", type |-> None, values |-> {}, nullable |-> nullable]
Enum == [kind |-> "scalar", type |-> "enum", values |-> {"txt", "bad"}, nullable |-> FALSE]
Property(name, declared, presence, node) ==
  [name |-> name, declaredRequired |-> declared, presence |-> presence, node |-> node]
Object(name, properties) == [kind |-> "object", name |-> name, properties |-> properties]
List(items, rowErrors) == [kind |-> "array", items |-> items, rowErrors |-> rowErrors]
Unknown == [kind |-> "unknown"]

Input(name, in, required) ==
  [name |-> name, in |-> in, type |-> None, values |-> {}, required |-> required, list |-> FALSE]
Operation(key, method, response) ==
  [key |-> key, method |-> method, placeholders |-> {}, input |-> {}, response |-> response,
   auth |-> "inherit", refused |-> FALSE]

-----------------------------------------------------------------------------
(* The draft a person is asked about. *)
Customer == Object("customer",
  {Property("id", TRUE, None, Text(FALSE)), Property("name", TRUE, None, Text(TRUE)),
   Property("nick", TRUE, None, Text(None)),
   Property("orders", FALSE, None, List(Object(None, {Property("sku", FALSE, None, Text(FALSE))}), None))})

One == [Operation("GET one", "GET", Customer) EXCEPT
          !.placeholders = {"id"}, !.input = {Input("id", "path", None)}]
Search == [Operation("POST search", "POST",
                     List(Object("customer", {Property("id", None, Always2, Text(None))}), None)) EXCEPT
             !.input = {Input("q", "body", FALSE)}]

Asks == [operations |-> <<One, Search>>, auth |-> FALSE]

-----------------------------------------------------------------------------
(* The draft that files of decisions answer. *)
RowErrors == [property |-> "kind", equals |-> "bad",
              code |-> Property("code", TRUE, None, Text(FALSE)),
              message |-> Property("why", TRUE, None, Text(TRUE))]
Order(note) == {Property("sku", TRUE, None, Text(FALSE)), Property("note", None, note, Text(None)),
                Property("kind", FALSE, None, Enum)}

Orders == [Operation("GET orders", "GET",
                     Object(None, {Property("count", TRUE, Often, Text(FALSE)),
                                   Property("data", TRUE, None, List(Object("order", Order(Often)), RowErrors))})) EXCEPT
             !.auth = "header"]
Latest == Operation("GET latest", "GET", Object("order", Order(Always2)))
Nested == Operation("GET nested", "GET",
                    Object("order", {Property("sku", TRUE, None, Text(FALSE)),
                                     Property("in", TRUE, None, Object(None, {Property("data", TRUE, None,
                                       List(Object(None, {Property("sku", TRUE, None, Text(FALSE))}), RowErrors))}))}))
Hostile == Operation("GET hostile", "GET", Object("order", {Property("a(", TRUE, None, Text(FALSE)),
                                                            Property("a'", TRUE, None, Text(FALSE))}))
Nameless == Operation("GET nameless", "GET", List(Object(None, {Property("id", TRUE, None, Text(FALSE))}), None))
Empty == [Operation("DELETE one", "DELETE", Unknown) EXCEPT !.auth = "none"]
Trace == Operation("TRACE one", "TRACE", Unknown)
Lost == [Operation("GET lost", "GET", Unknown) EXCEPT !.placeholders = {"id"}]
Cookie == [Operation("GET cookie", "GET", Unknown) EXCEPT !.refused = TRUE]

Answered == [operations |-> <<Orders, Latest, Nested, Hostile, Nameless, Empty, Trace, Lost, Cookie>>, auth |-> TRUE]

-----------------------------------------------------------------------------
(* What the operations answer. *)
At(path, atom) == [p \in {path} |-> atom]
Root == At(<<>>, "obj")
CustomerBody == Root @@ At(<<"id">>, "txt") @@ At(<<"name">>, "nil") @@ At(<<"nick">>, "txt")
                @@ At(<<"orders">>, "arr") @@ At(<<"orders", "#1">>, "obj") @@ At(<<"orders", "#1", "sku">>, "txt")
Found == At(<<>>, "arr") @@ At(<<"#1">>, "obj") @@ At(<<"#1", "id">>, "txt")
FoundNone == [Found EXCEPT ![<<"#1", "id">>] = "nil"]
Rows == Root @@ At(<<"data">>, "arr") @@ At(<<"data", "#1">>, "obj") @@ At(<<"data", "#1", "kind">>, "bad")
        @@ At(<<"data", "#1", "code">>, "txt") @@ At(<<"data", "#1", "why">>, "nil")
MoreRows == Rows @@ At(<<"count">>, "txt") @@ At(<<"data", "#2">>, "obj") @@ At(<<"data", "#2", "sku">>, "txt")
Sku == Root @@ At(<<"sku">>, "txt") @@ At(<<"note">>, "txt")

MCBackend ==
  [key \in {"GET one", "POST search", "GET orders", "GET latest", "GET nested", "GET hostile", "GET nameless",
            "DELETE one", "TRACE one", "GET lost", "GET cookie"} |->
     CASE key = "GET one" -> <<CustomerBody, None>>
       [] key = "POST search" -> <<Found, FoundNone>>
       [] key = "GET orders" -> <<MoreRows, Rows, Root>>
       [] key = "GET latest" -> <<Sku, [Sku EXCEPT ![<<"sku">>] = "nil"]>>
       [] OTHER -> <<Root>>]

-----------------------------------------------------------------------------
(* Decisions. *)
Keep(op, id, effect) ==
  [keep |-> TRUE, operation |-> op.key, capabilityId |-> id, effect |-> effect, responseLocus |-> None,
   resourceName |-> None, probe |-> TRUE, probeNonReadMethodConfirmed |-> FALSE, sampleInput |-> {"id"}]
KeepOrders == [Keep(Orders, Id("m", "list"), "read") EXCEPT !.responseLocus = <<"data", AnyItem>>]
KeepLatest == Keep(Latest, Id("m", "latest"), "read")
Record(decisions) ==
  [company |-> "acme", provider |-> None, baseUrlEnvVar |-> None, authEnvVar |-> None, decisions |-> decisions]

Named == Record(<<KeepOrders, [KeepLatest EXCEPT !.resourceName = <<"Receipt">>]>>)
Records ==
  {Torn, Named,
   Record(<<KeepOrders, KeepLatest>>),
   Record(<<[KeepLatest EXCEPT !.effect = "write"], [KeepLatest EXCEPT !.operation = Orders.key]>>),
   Record(<<[KeepLatest EXCEPT !.effect = "write"], Keep(Empty, Id("m", "drop"), "read")>>),
   [Record(<<KeepLatest>>) EXCEPT !.baseUrlEnvVar = "URL"],
   [Record(<<KeepOrders>>) EXCEPT !.authEnvVar = "TOKEN"],
   Record(<<KeepLatest, Keep(Hostile, Id("n", "hostile"), "read")>>),
   Record(<<Keep(Nested, Id("m", "nested"), "read"), Keep(Nameless, Id("m", "nameless"), "read"),
            Keep(Trace, Id("m", "trace"), "read"), Keep(Lost, Id("m", "lost"), "read"),
            Keep(Cookie, Id("m", "cookie"), "read"), Keep(Orders, Id("m", "list"), "read"),
            [KeepLatest EXCEPT !.operation = "GET gone"], [KeepLatest EXCEPT !.capabilityId = Id("m", "Bad")],
            [keep |-> FALSE, operation |-> "GET latest"]>>),
   Record(<<[KeepLatest EXCEPT !.effect = "delete"]>>),
   [Record(<<KeepLatest>>) EXCEPT !.provider = "Bad"]}

Line(record, probe, force) ==
  [record |-> record, probe |-> probe, force |-> force, interactive |-> TRUE, named |-> FALSE]
MCWords == {"acme", "Bad"}
MCAnsweredIds == [key \in {"GET one", "POST search"} |->
                    IF key = "GET one" THEN {Id("m", "get"), Id("m", "Bad")} ELSE {Id("n", "find"), Id("m", "get")}]
AllSet == {"acme_API_URL", "acme_API_TOKEN"}
MCUnaddressable == {"a'", AnyItem}
MCUnbalanced == {"a("}
MCPascalCase == [w \in {"customer", "order"} |-> IF w = "order" THEN "Order" ELSE "Customer"]
MCSingular == [w \in {"orders"} |-> "order"]
MCBadWords == {"Bad", "_"}

-----------------------------------------------------------------------------
(* Directories to write to: nothing, a file of no kind, a resource left    *)
(* over, a capability left over, and what an earlier run left, edited,     *)
(* once with its report.                                                   *)
Earlier == emit(Answered, Named, NoFiles)
Legacy == [name |-> Id("m", "Legacy"), fields |-> {}, blocks |-> TRUE]
Targets ==
  {NoFiles, Note :> None,
   FilePath("resource", Id("m", "Legacy")) :> Legacy,
   FilePath("capability", Id("m", "old")) :>
     [Earlier[FilePath("capability", Id("m", "list"))] EXCEPT !.id = Id("m", "old"), !.output = {}],
   (ReportFile :> Torn) @@ (FilePath("resource", <<"by-hand">>) :> [Legacy EXCEPT !.name = Id("m", "Order")]) @@ Earlier,
   (FilePath("binding", <<"by-hand">>) :> Earlier[FilePath("binding", Id("m", "list"))])
     @@ [Earlier EXCEPT ![FilePath("resource", Id("m", "Order"))] = [Legacy EXCEPT !.name = Id("m", "Order")]]}

-----------------------------------------------------------------------------
Case(d, line, directory, variables) ==
  [draft |-> d, args |-> line, target |-> directory, environment |-> variables]

MCCases ==
  {Case(Asks, Line(None, TRUE, TRUE), NoFiles, AllSet),
   Case(Asks, [Line(None, TRUE, TRUE) EXCEPT !.interactive = FALSE], NoFiles, AllSet),
   Case([Asks EXCEPT !.operations = <<>>], Line(None, TRUE, TRUE), NoFiles, AllSet),
   Case(Answered, [Line(Named, TRUE, TRUE) EXCEPT !.named = TRUE], NoFiles, AllSet)}
  \cup {Case(Answered, Line(r, TRUE, TRUE), t, AllSet) : r \in Records, t \in Targets}
  \cup {Case(Answered, Line(r, probe, force), t, {"acme_API_URL"}) :
          r \in Records, probe \in BOOLEAN, force \in BOOLEAN, t \in {NoFiles, Note :> None}}
=============================================================================
