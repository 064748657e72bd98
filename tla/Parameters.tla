----------------------------- MODULE Parameters ----------------------------
(***************************************************************************)
(* The arguments of a controller's method: createParamDecorator and the    *)
(* decorators made with it (src/router/controller/params/decorators.ts),   *)
(* and resolveMethodParam, which awaits one resolver after another while   *)
(* other requests are at theirs.  Routing runs these actions.              *)
(***************************************************************************)
EXTENDS Naturals, SequencesExt

CONSTANTS
    Requests,
    Payloads,   \* what the requests may carry
    Keys,       \* the names of queries
    None        \* undefined, null, or no decorator

(* A request has a verb, a path, a body, queries (a sequence of values for *)
(* each name) and perhaps a session.  A body is "malformed" (no JSON),     *)
(* "falsy", or it is "accepted" by the class of the parameter, or only a   *)
(* "part" of it is, or it is "refused".  A decorator reads something `of'  *)
(* the request: a property `prop' of it or, if that is None, all; of a     *)
(* query a `value': the first, the last or the array of them.              *)

ASSUME ErrorsAssumption ==
    None \notin {"SyntaxError", "NotValidBodyException", "TypeError"}

VARIABLES
    content, \* what each request carries, fixed from the start
    at,      \* how many resolvers of a request's method have been called
    params   \* its arguments so far

resolving == <<content, at, params>>

ParametersInit ==
    /\ content \in Payloads
    /\ at = [r \in Requests |-> 0]
    /\ params = [r \in Requests |-> <<>>]

-----------------------------------------------------------------------------
FormatQueryValue(values, value) ==
    CASE values = <<>> -> <<>>
      [] values # <<>> /\ value = "last" -> <<Last(values)>>
      [] values # <<>> /\ value = "array" -> values
      [] OTHER -> <<Head(values)>>

(* Without a name, every query of the request, by default its first value. *)
ReadQuery(d, r) ==
    LET queries == content[r].queries
        value == IF d.value = None THEN "first" ELSE d.value
    IN  IF d.prop # None THEN FormatQueryValue(queries[d.prop], d.value)
        ELSE [k \in {x \in Keys : queries[x] # <<>>} |->
                FormatQueryValue(queries[k], value)]

(* validateObject, with the class of the parameter.                        *)
Accepts(d, r) ==
    content[r].body = "accepted" \/ (d.prop # None /\ content[r].body = "part")

(* The error that a resolver throws, if any.                               *)
ErrorOf(d, r) ==
    CASE d.of = "body" /\ content[r].body = "malformed" -> "SyntaxError"
      [] d.of = "body" /\ content[r].body \notin {"malformed", "falsy"}
           /\ ~ Accepts(d, r) -> "NotValidBodyException"
      [] d.of = "session" /\ d.prop # None /\ ~ content[r].session -> "TypeError"
      [] OTHER -> None

(* What it gives: part of its own request.                                 *)
ValueOf(d, r) ==
    CASE d.of = "query" -> <<r, "query", ReadQuery(d, r)>>
      [] d.of = "body" /\ content[r].body = "falsy" -> <<r, "body", None>>
      [] OTHER -> <<r, d.of, d.prop>>

(* Parameter decorators are applied from the last to the first, and each   *)
(* adds its resolver to the Map: map[n] is the Map after the last n.       *)
ResolverMap(decorators) ==
    LET size == Len(decorators)
        map[n \in 0 .. size] ==
          IF n = 0 THEN <<>>
          ELSE IF decorators[size - n + 1] = None THEN map[n - 1]
          ELSE Append(map[n - 1], size - n + 1)
    IN  map[size]

(* Mutant: the arguments are pushed in the order of the Map.               *)
PutNext(args, i, v) == Append(args, v)

(* params[key] = value: an array grows, with holes.                        *)
Put(args, i, v) ==
    [k \in 1 .. (IF i > Len(args) THEN i ELSE Len(args)) |->
       IF k = i THEN v ELSE IF k \in DOMAIN args THEN args[k] ELSE <<None>>]

(* The next resolver of a method with these decorators.                    *)
Pending(decorators, r) == at[r] < Len(ResolverMap(decorators))
Current(decorators, r) == ResolverMap(decorators)[at[r] + 1]

ResolveNext(decorators, r) ==
    /\ Pending(decorators, r)
    /\ LET i == Current(decorators, r)
           d == decorators[i]
       IN  /\ ErrorOf(d, r) = None
           /\ params' = [params EXCEPT ![r] = Put(@, i, ValueOf(d, r))]
    /\ at' = [at EXCEPT ![r] = @ + 1]
    /\ UNCHANGED content

(* The first error ends the resolution.                                    *)
ResolveThrows(decorators, r) ==
    /\ Pending(decorators, r)
    /\ ErrorOf(decorators[Current(decorators, r)], r) # None
    /\ UNCHANGED resolving

=============================================================================
