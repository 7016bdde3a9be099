---------------------------- MODULE ToolRegistry ----------------------------
(***************************************************************************)
(* The index a host serves tools from: which name each bound capability is *)
(* advertised under, what a name resolves to, and what a client is told    *)
(* about a tool's health (packages/emitter-support/src/registry.ts and     *)
(* exposure.ts, packages/runtime/src/registry.ts).                         *)
(*                                                                         *)
(* An id is a sequence of parts, dots and other separators; the name it is *)
(* advertised under keeps the parts and replaces every dot by "_".         *)
(***************************************************************************)
EXTENDS JsonShape, Exposure

toolName(id) == [i \in 1..Len(id) |-> IF id[i] = "." THEN "_" ELSE id[i]]

(* The last tool of an id; 0 when there is none. *)
byId(tools, id) ==
  LET at == {i \in 1..Len(tools) : tools[i].id = id}
  IN IF at = {} THEN 0 ELSE CHOOSE i \in at : \A k \in at : i >= k

(* An invocable tool is known by its name and its place in the list. *)
EmptyIndex == [byName |-> [n \in {} |-> 0], ambiguous |-> {}, invocable |-> {}]

(* Mutation: a collision is not remembered for the tools to come. *)
ForgetsCollisions(index, tools, i) ==
  LET name == toolName(tools[i].id)
  IN IF name \in DOMAIN index.byName
     THEN [index EXCEPT !.byName = [n \in DOMAIN @ \ {name} |-> @[n]],
                        !.invocable = {nt \in @ : nt.name # name}]
     ELSE [index EXCEPT !.byName = [n \in DOMAIN @ \cup {name} |-> IF n = name THEN i ELSE @[n]],
                        !.invocable = @ \cup {[name |-> name, tool |-> i]}]

(* One bound tool at a time: its name must be no other capability's raw id *)
(* and no other capability's name, else the name is nobody's for good.     *)
AddTool(index, tools, i) ==
  LET name == toolName(tools[i].id)
      owner == byId(tools, name)
      named == IF name \in DOMAIN index.byName THEN index.byName[name] ELSE 0
      taken == \/ owner # 0 /\ tools[owner].id # tools[i].id
               \/ named # 0 /\ tools[named].id # tools[i].id
  IN IF tools[i].connector = None THEN index
     ELSE IF name \in index.ambiguous \/ taken
     THEN [index EXCEPT !.ambiguous = @ \cup {name},
                        !.byName = [n \in DOMAIN @ \ {name} |-> @[n]]]
     ELSE [index EXCEPT !.byName = [n \in DOMAIN @ \cup {name} |-> IF n = name THEN i ELSE @[n]],
                        !.invocable = @ \cup {[name |-> name, tool |-> i]}]

indexOf(tools) ==
  LET upto[i \in 0..Len(tools)] ==
        IF i = 0 THEN EmptyIndex ELSE AddTool(upto[i - 1], tools, i)
  IN [upto[Len(tools)] EXCEPT !.invocable = {nt \in @ : nt.name \notin upto[Len(tools)].ambiguous}]

toolNameCollisions(tools) == indexOf(tools).ambiguous

(* A raw id or an advertised name, to the tool's position; 0: unknown. *)
getCapability(tools, idOrName) ==
  LET index == indexOf(tools)
  IN IF idOrName \in index.ambiguous THEN 0
     ELSE IF byId(tools, idOrName) # 0 THEN byId(tools, idOrName)
     ELSE IF idOrName \in DOMAIN index.byName THEN index.byName[idOrName] ELSE 0

-----------------------------------------------------------------------------
(* Health only ever raises a hint. *)
severityOf(hint) == CASE hint = "deprecation" -> 2 [] hint = "caution" -> 1 [] OTHER -> 0

healthHint(health) ==
  CASE health = "red" -> "deprecation" [] health = "yellow" -> "caution" [] OTHER -> "none"

combineExposure(base, health) ==
  IF severityOf(healthHint(health)) <= severityOf(base.hint) THEN base
  ELSE [base EXCEPT !.hint = healthHint(health)]

HealthStatuses == {"green", "yellow", "red"}

(* Mutation: a probe that policy refused counts as a verdict. *)
CountsRefusals(file) ==
  IF file = None THEN [id \in {} |-> "green"]
  ELSE [id \in {file[i].id : i \in 1..Len(file)} |->
          (CHOOSE r \in {file[i] : i \in 1..Len(file)} : r.id = id).status]

(* The snapshot a verification left: an unreadable one says nothing, nor   *)
(* does a result that a policy decided; the last result of an id counts.   *)
readHealthSnapshot(file) ==
  IF file = None THEN [id \in {} |-> "green"]
  ELSE LET usable == {i \in 1..Len(file) : ~file[i].policyDenied /\ file[i].status \in HealthStatuses}
           last(id) == CHOOSE i \in usable : /\ file[i].id = id
                                             /\ \A k \in usable : file[k].id = id => i >= k
       IN [id \in {file[i].id : i \in usable} |-> file[last(id)].status]

(* Of two tools with one id the last tells its exposure; an id without a   *)
(* tool is neither listed nor invocable.                                   *)
getExposure(tools, health, id) ==
  IF byId(tools, id) = 0 THEN [listed |-> FALSE, invocable |-> FALSE]
  ELSE combineExposure(lifecycleExposure(tools[byId(tools, id)].lifecycle),
                       IF id \in DOMAIN health THEN health[id] ELSE None)

(* What tools/list answers. *)
toolDefinitions(tools, health) ==
  {nt \in indexOf(tools).invocable : getExposure(tools, health, tools[nt.tool].id).listed}
=============================================================================
