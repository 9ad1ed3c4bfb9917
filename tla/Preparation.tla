------------------------------ MODULE Preparation ------------------------------
(***************************************************************************)
(* How a request is built: the parameters are resolved from the input and  *)
(* the configuration, each is placed where its specification or the method *)
(* says, the idempotency key is added, and the body is rendered. What is   *)
(* kept of a value is whether it holds a null, may stand in a cookie, is a *)
(* file of a multipart body, and fits the limit of a request.              *)
(***************************************************************************)
EXTENDS Integers, Sequences, SequencesExt

CONSTANTS
  ParameterNames,  \* in the order of their names (BTreeMap)
  Connections,     \* bound: configurations
  Inputs,          \* bound: inputs, functions of the keys of the input
  Nothing          \* None

VARIABLES
  connection,   \* ConnectionConfig, with the key of the request
  input,        \* input.params and the record
  parameters,   \* resolve_parameters
  sentAt,       \* where each parameter goes
  keyAt,        \* where the idempotency key goes
  bodyAs,       \* PreparedBody
  retries,      \* retry_non_idempotent
  placed,       \* how many parameters have been placed
  stage         \* "resolve", "place", "key", "query", "body", "prepared", "refused"

preparationVars == <<connection, input, parameters, sentAt, keyAt, bodyAs, retries, placed, stage>>

NamesSet == Range(ParameterNames)
Places == {"path", "query", "header", "cookie", "body"}

ASSUME PreparationAssumption ==
  /\ ParameterNames \in Seq(STRING)
  /\ Nothing \notin Places
  /\ \A c \in Connections :
       /\ \A n \in NamesSet : c.specs[n] # Nothing =>
            /\ c.specs[n].mode \in {"fixed", "mapped"}
            /\ c.specs[n].location \in Places \cup {"auto"}
       /\ c.key # Nothing => c.key.at \in {"query", "header", "body"}
       /\ c.bodyType \in {"json", "form", "multipart", "raw", "none"}
       /\ c.retries \in BOOLEAN

\* What a value is, as far as it is told apart.
HasNull(v)  == v \in {"null", "nested"}
InCookie(v) == v \in {"text", "key"}
TooLarge(v) == v = "large"
BrokenFile(v) == v = "broken"
IsObject(v) == v \in {"object", "file", "broken"}

-----------------------------------------------------------------------------
(* Resolution.                                                             *)

Specified(n) == connection.specs[n]

\* static_parameters, overridden by the input.
Given(n) == IF input[n] # Nothing THEN input[n] ELSE connection.static[n]

Mapped(n) ==
  IF input[Specified(n).source] # Nothing THEN input[Specified(n).source]
  ELSE Specified(n).value

Resolved(n) ==
  CASE Specified(n) = Nothing          -> Given(n)
    [] Specified(n).mode = "fixed"     -> Specified(n).value
    [] OTHER -> IF Mapped(n) # Nothing THEN Mapped(n) ELSE Given(n)

Unresolved(n) ==
  /\ Specified(n) # Nothing
  /\ IF Specified(n).mode = "fixed" THEN Specified(n).value = Nothing
     ELSE Mapped(n) = Nothing /\ Specified(n).required

PreparationStart ==
  /\ parameters = [n \in NamesSet |-> Nothing]
  /\ sentAt = [n \in NamesSet |-> Nothing]
  /\ keyAt = Nothing
  /\ bodyAs = Nothing
  /\ retries = connection.retries
  /\ placed = 0
  /\ stage = "resolve"
PreparationInit == connection \in Connections /\ input \in Inputs /\ PreparationStart

Refuse == stage' = "refused" /\ UNCHANGED <<connection, input, parameters, sentAt, keyAt, bodyAs, retries, placed>>

ResolveParameters ==
  /\ stage = "resolve"
  /\ \A n \in NamesSet : ~Unresolved(n)
  /\ parameters' = [n \in NamesSet |-> Resolved(n)]
  /\ stage' = "place"
  /\ UNCHANGED <<connection, input, sentAt, keyAt, bodyAs, retries, placed>>
RefuseParameters == stage = "resolve" /\ (\E n \in NamesSet : Unresolved(n)) /\ Refuse

-----------------------------------------------------------------------------
(* Placement.                                                              *)

location(n) == IF Specified(n) = Nothing THEN "auto" ELSE Specified(n).location
style(n) == IF Specified(n) = Nothing THEN Nothing ELSE Specified(n).style

legacy_query_only ==
  connection.method \in {"GET", "HEAD", "DELETE", "OPTIONS"} \/ connection.bodyType = "none"

\* The placeholders of the URL are filled whatever the location.
Consumed(n) == n \in connection.url

PlaceOf(n) ==
  IF Consumed(n) THEN "path"
  ELSE IF location(n) # "auto" THEN location(n)
  ELSE IF legacy_query_only THEN "query" ELSE "body"

\* Faulty variant: nulls are looked for in the query, the headers and the
\* cookies, but not in the URL.
MisplacedBesideUrl(n) ==
  LET v == parameters[n]
  IN  \/ Consumed(n) /\ location(n) \notin {"auto", "path"}
      \/ ~Consumed(n) /\ location(n) = "path"
      \/ PlaceOf(n) \in {"query", "header", "cookie"} /\ HasNull(v)
      \/ PlaceOf(n) = "cookie" /\ ~InCookie(v)

Misplaced(n) ==
  LET v == parameters[n]
  IN  \/ Consumed(n) /\ location(n) \notin {"auto", "path"}
      \/ ~Consumed(n) /\ location(n) = "path"
      \/ PlaceOf(n) # "body" /\ HasNull(v)
      \/ PlaceOf(n) = "cookie" /\ ~InCookie(v)

Here == ParameterNames[placed + 1]

PlaceParameter ==
  /\ stage = "place"
  /\ parameters[Here] # Nothing => ~Misplaced(Here)
  /\ sentAt' = [sentAt EXCEPT ![Here] =
       IF parameters[Here] = Nothing THEN Nothing ELSE PlaceOf(Here)]
  /\ placed' = placed + 1
  /\ stage' = IF placed' = Len(ParameterNames) THEN "key" ELSE "place"
  /\ UNCHANGED <<connection, input, parameters, keyAt, bodyAs, retries>>
RefusePlacement == stage = "place" /\ parameters[Here] # Nothing /\ Misplaced(Here) /\ Refuse

-----------------------------------------------------------------------------
(* The idempotency key.                                                    *)

Key == connection.key

\* A field of the same name in the same place must already hold the key; a
\* parameter has taken the place of a configured header.
KeyConflicts ==
  \/ \E n \in NamesSet : n = Key.name /\ sentAt[n] = Key.at /\ parameters[n] # "key"
  \/ /\ Key.at = "header" /\ connection.header \notin {Nothing, "key"}
     /\ ~(Key.name \in NamesSet /\ sentAt[Key.name] = "header")
  \/ Key.at = "body" /\ connection.bodyType \in {"none", "raw"}

ApplyIdempotency ==
  /\ stage = "key"
  /\ Key # Nothing => ~KeyConflicts
  /\ keyAt' = IF Key = Nothing THEN Nothing ELSE Key.at
  /\ retries' = (retries \/ Key # Nothing)
  /\ stage' = "query"
  /\ UNCHANGED <<connection, input, parameters, sentAt, bodyAs, placed>>
RefuseConflict == stage = "key" /\ Key # Nothing /\ KeyConflicts /\ Refuse

\* append_query: a deep object is an object.
BadQuery ==
  \E n \in NamesSet : sentAt[n] = "query" /\ style(n) = "deep_object" /\ ~IsObject(parameters[n])
AppendQuery ==
  /\ stage = "query" /\ ~BadQuery
  /\ stage' = "body"
  /\ UNCHANGED <<connection, input, parameters, sentAt, keyAt, bodyAs, retries, placed>>
RefuseQuery == stage = "query" /\ BadQuery /\ Refuse

-----------------------------------------------------------------------------
(* The body.                                                               *)

Fields == {n \in NamesSet : sentAt[n] = "body"}
Rendered == {n \in connection.raw : parameters[n] # Nothing}

build_body ==
  \/ Fields # {} \/ keyAt = "body"
  \/ ~legacy_query_only
  \/ connection.bodyType = "raw" /\ connection.raw # Nothing

\* What a body of this type is made of.
Contents ==
  CASE ~build_body \/ connection.bodyType = "none"     -> {}
    [] build_body /\ connection.bodyType = "raw"       ->
         IF connection.raw = Nothing THEN {} ELSE Rendered
    [] OTHER                                           -> Fields

BadBody ==
  \/ \E n \in Contents : connection.bodyType # "json" /\ HasNull(parameters[n])
  \/ \E n \in Contents : TooLarge(parameters[n])
  \/ \E n \in Contents : connection.bodyType = "multipart" /\ BrokenFile(parameters[n])

BuildBody ==
  /\ stage = "body" /\ ~BadBody
  /\ bodyAs' = IF build_body THEN connection.bodyType ELSE "none"
  /\ stage' = "prepared"
  /\ UNCHANGED <<connection, input, parameters, sentAt, keyAt, retries, placed>>
RefuseBody == stage = "body" /\ BadBody /\ Refuse

PreparationNext ==
  \/ ResolveParameters \/ RefuseParameters
  \/ PlaceParameter \/ RefusePlacement
  \/ ApplyIdempotency \/ RefuseConflict
  \/ AppendQuery \/ RefuseQuery
  \/ BuildBody \/ RefuseBody

PreparationSpec == PreparationInit /\ [][PreparationNext]_preparationVars

-----------------------------------------------------------------------------

\* The places where the request holds the value of n.
SentIn(n) ==
  {p \in {"path", "query", "header", "cookie"} : sentAt[n] = p}
  \cup (IF n \in Contents THEN {"body"} ELSE {})

\* Each parameter that has a value is sent once, in the place that its
\* specification names, or the URL, or the method; a template of a raw body may
\* repeat it, and is the only way into such a body. No null is written as text,
\* a fixed value is not replaced by the input, a key goes out once, as given,
\* and allows the retries of any method (engine.rs: prepare_request).
SentAsDeclared ==
  stage = "prepared" =>
    /\ \A n \in NamesSet :
         LET v == parameters[n]
         IN  /\ v = Nothing => SentIn(n) = {}
             /\ v # Nothing /\ connection.bodyType \notin {"raw", "none"} =>
                  SentIn(n) = {PlaceOf(n)}
             /\ v # Nothing /\ PlaceOf(n) # "body" => PlaceOf(n) \in SentIn(n)
             /\ v # Nothing /\ HasNull(v) => SentIn(n) \subseteq {"body"}
             /\ HasNull(v) /\ SentIn(n) # {} => bodyAs = "json"
             /\ Specified(n) # Nothing =>
                  /\ Specified(n).mode = "fixed" => v = Specified(n).value
                  /\ Specified(n).required => v # Nothing
    /\ keyAt = (IF Key = Nothing THEN Nothing ELSE Key.at)
    /\ keyAt = "body" => bodyAs \in {"json", "form", "multipart"}
    /\ \A n \in NamesSet :
         Key # Nothing /\ n = Key.name /\ sentAt[n] = keyAt => parameters[n] = "key"
    /\ retries = (connection.retries \/ keyAt # Nothing)
=============================================================================
