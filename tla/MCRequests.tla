------------------------------ MODULE MCRequests ------------------------------
(* Small instances, for TLC, of what makes a request and reads an answer:  *)
(* the pace of requests, the waits, the preparation of a request, the      *)
(* transforms of a response, the runtime envelope and the URL of the next  *)
(* request. A behaviour runs one of them, and leaves the others where they *)
(* began.                                                                  *)
EXTENDS RequestRate, Backoff, Transforms, Preparation, Binding, FollowUps, TLC

VARIABLE part

(* Four requests, one of them at each tick.                                *)
Retried ==
  {[interval |-> 1, key |-> NoToken, download |-> FALSE, retries |-> TRUE, redirects |-> 1],
   [interval |-> 2, key |-> NoToken, download |-> TRUE, retries |-> FALSE, redirects |-> 0]}
Symmetry == Permutations(Requests)

(* Every double of a small exponent and three bits of fraction, in both    *)
(* loops.                                                                  *)
Lowest == -7
Loop(loop, base, factor, cap, respect, longest) ==
  [loop |-> loop, base |-> base, factor |-> factor, cap |-> cap,
   respect |-> respect, maxAfter |-> longest]
SomeDoubles == {d \in Doubles : d.negative => d.fraction = 0}
SomeSettings ==
  {Loop("poll", b, f, c, TRUE, 0) : b \in {0, 1, 3}, f \in SomeDoubles, c \in {2, 31}}
  \cup {Loop("retry", b, f, 15, r, 3) : b \in {1, 6}, f \in SomeDoubles, r \in BOOLEAN}

(* Floats of two binary digits, integers on both sides of every width, and *)
(* the texts that read as them.                                            *)
SomeFloats == {s * m * 2^e : s \in {-1, 1}, m \in {0, 2, 3}, e \in 0..4}
SmallScale == [d \in 0..2 |-> 3^d]
V(t, n) == [t |-> t, n |-> n]
SomeTexts ==
  {V("words", 0), V("textWide", 0), V("textInf", 0), V("textFloat", 6)}
  \cup {V("textInt", n) : n \in {-9, 0, 31}}
SomeReceived ==
  SomeTexts \cup {Null, V("bool", 0), V("object", 0)}
  \cup {Integer(n) : n \in {-1, 3, 5, 15}} \cup {Float(q) : q \in {-48, 6}}
On(is, column, literal) == [is |-> is, column |-> column, literal |-> literal]
Always == On("always", "a", Null)
Transform(op, value, condition, from, to) ==
  [op |-> op, value |-> value, condition |-> condition, source |-> from, column |-> to]
SomeTransforms ==
  {Transform(op, v, Always, "a", "a") : op \in Arithmetic, v \in SomeReceived}
  \cup {Transform(op, v, Always, "a", "b") :
           op \in {"round", "replace", "prefix", "default_if_null"},
           v \in {Absent, Null, Integer(1), V("object", 0)}}
  \cup {Transform(op, Absent, c, "b", "a") :
           op \in {"kelvin_to_celsius", "celsius_to_kelvin", "lowercase", "unknown"},
           c \in {Always, On("unparsed", "a", Null)}
                 \cup {On(is, "b", V("textInt", 5)) : is \in {"equal", "different"}}}

(* One parameter with a specification and one without, which may have the  *)
(* name of the idempotency field: every place and body type, raw bodies,   *)
(* and every way to resolve.                                               *)
TwoNames == <<"p", "q">>
Spec1(mode, source, value, required, place, serialized) ==
  [mode |-> mode, source |-> source, value |-> value, required |-> required,
   location |-> place, style |-> serialized]
Connection(method, body, url, raw, spec, key, header, static, again) ==
  [method |-> method, bodyType |-> body, url |-> url, raw |-> raw,
   specs |-> [n \in {"p", "q"} |-> IF n = "p" THEN spec ELSE Nothing],
   key |-> key, header |-> header,
   static |-> [n \in {"p", "q"} |-> IF n = "p" THEN static ELSE Nothing], retries |-> again]
KeyIn(place) == [at |-> place, name |-> "q"]
SomeConnections ==
  {Connection(m, b, url, Nothing, Spec1("mapped", "p", Nothing, TRUE, l, "deep_object"), k,
              Nothing, Nothing, FALSE) :
     m \in {"GET", "POST"}, b \in {"json", "form", "multipart", "none"}, url \in {{}, {"p"}},
     l \in {"auto", "path", "query", "header", "body", "cookie"},
     k \in {Nothing, KeyIn("query"), KeyIn("body")}}
  \cup {Connection("POST", "raw", {}, raw, Nothing, k, h, Nothing, TRUE) :
     raw \in {Nothing, {"p"}, {"q"}}, k \in {Nothing, KeyIn("header"), KeyIn("body")},
     h \in {Nothing, "text", "key"}}
  \cup {Connection("GET", "json", {}, Nothing, Spec1(mode, from, v, required, "auto", Nothing),
                   KeyIn("query"), Nothing, static, FALSE) :
     mode \in {"fixed", "mapped"}, from \in {"p", "s"}, v \in {Nothing, "null", "text"},
     required \in BOOLEAN, static \in {Nothing, "large"}}
SomeInputs ==
  {("p" :> v) @@ ("q" :> w) @@ ("s" :> t) :
     v \in {Nothing, "null", "nested", "text", "object", "large", "broken"},
     w \in {Nothing, "key", "text"}, t \in {Nothing, "text"}}

(* Envelopes with any two faults, and envelopes without one whose payload, *)
(* references and artifacts take every form.                               *)
EveryField == Metadata \cup Envelope
FaultsOf(f) ==
  CASE f \in {"kind", "payload"}    -> {"malformed"}
    [] f = "content"                -> {"malformed", "foreign"}
    [] f \in {"schema", "contract"} -> {"foreign"}
    [] f \in {"id", "correlation", "causation", "idempotency"} ->
         {"absent", "malformed", "untyped"}
    [] OTHER -> {"absent", "malformed", "foreign", "untyped"}
Faults == UNION {{<<f, v>> : v \in FaultsOf(f)} : f \in EveryField}
Legal == [f \in EveryField |-> "ok"]
TwoFaults == {[Legal EXCEPT ![x[1]] = x[2], ![y[1]] = y[2]] : x \in Faults, y \in Faults}
Message(text, values, request, secret, credential, operation, file) ==
  [text |-> text, values |-> values, request |-> request, inlineSecret |-> secret,
   credential |-> credential, operation |-> operation, file |-> file]
SomeMessages ==
  {Message("envelope", v, q, FALSE, "opaque", "generate", NoAnswer) :
     v \in TwoFaults, q \in {"ok", "alien"}}
  \cup {Message(t, Legal, q, s, c, o, f) :
     t \in {"envelope", "other"}, q \in {"ok", "alien"}, s \in BOOLEAN,
     c \in {"none", "opaque", "path"}, o \in {"generate", "download"},
     f \in {NoAnswer} \cup [path : BOOLEAN, artifact : {"none", "opaque", "path"}, other : BOOLEAN]}

(* Links with a delimiter in every place that may hold one: one link with  *)
(* up to two parameters, or two with one, cut at every place.              *)
Token(c) == [quoted |-> FALSE, text |-> <<c>>, escapes |-> FALSE]
Quoted(text, escapes) == [quoted |-> TRUE, text |-> text, escapes |-> escapes]
Param(name, value) == [name |-> name, value |-> value]
SomeParameters ==
  {Param("rel", Token("prev")), Param("REL", Token("NEXT")), Param("rel", Unnamed),
   Param("rel", Quoted(<<"next">>, TRUE)), Param("rel", Quoted(<<"prev", " ", "next">>, FALSE)),
   Param("rel", Quoted(<<"x:next", " ", "x:NEXT">>, FALSE)),
   Param("title", Quoted(<<";", "rel", "=", "next">>, FALSE)),
   Param("title", Quoted(<<Quote, ",", "<">>, FALSE))}
QuotedParameters == {p \in SomeParameters : p.value # Unnamed /\ p.value.quoted}
SomeTargets == {<<"u">>, <<"v", ",", ";", Quote>>}
LinksWith(lists) == [target: SomeTargets, parameters: lists]
SomeHeaders ==
  {<<>>} \cup {<<l>> : l \in LinksWith({<<>>} \cup {<<p, q>> : p, q \in SomeParameters})}
  \cup {<<l, m>> : l, m \in LinksWith({<<p>> : p \in QuotedParameters})}
SomeLinks ==
  UNION {[relation: {"next"}, header: {h}, arrived: 0..Len(Written(h))] : h \in SomeHeaders}
  \cup {[relation |-> "x:next", header |-> h, arrived |-> Len(Written(h))] : h \in SomeHeaders}

(* A job with every id, URL and template.                                  *)
Place(origin, place) == [origin |-> origin, place |-> place, id |-> Unnamed]
IdOf(sort, text) == [kind |-> sort, text |-> text]
Polled(status, set, given, template, id, served, crossOrigin, cancel, result) ==
  [status |-> status, set |-> set, given |-> given, template |-> template, id |-> id,
   served |-> served, crossOrigin |-> crossOrigin, cancel |-> cancel, result |-> result]
Ids == {IdOf("absent", ""), IdOf("text", "7"), IdOf("text", ""), IdOf("number", "7"), IdOf("bool", "true")}
FewTemplates == [at: {"relative", "away"}, id: {TRUE}]
SomeJobs ==
  {Polled("pending", {"template"}, Unnamed, t, i, s, x, c, r) :
     t \in Template, i \in Ids, s \in {FirstUrl, Place("away", "other"), Place("home", "other")},
     x \in BOOLEAN,
     c \in {Unnamed, [template |-> Unnamed, timeout |-> 0]}
           \cup {[template |-> u, timeout |-> 1] : u \in FewTemplates},
     r \in {[from |-> "answer", template |-> Unnamed]}
           \cup {[from |-> "config", template |-> u] : u \in FewTemplates}}
  \cup {Polled(status, set, given, t, IdOf("null", ""), FirstUrl, x, Unnamed, Unnamed) :
     status \in {"none", "null", "success", "failure", "unknown"},
     set \in SUBSET {"path", "template", "location"},
     given \in {Unnamed, Place("home", "jobs"), Place("away", "jobs")},
     t \in {v \in Template : v.at = "base"}, x \in BOOLEAN}

-----------------------------------------------------------------------------

RateTurn == part = "rate" /\ UNCHANGED <<part, backoffVars, transformVars, preparationVars, bindingVars, followUpVars>>
BackoffTurn == part = "backoff" /\ UNCHANGED <<part, rateVars, transformVars, preparationVars, bindingVars, followUpVars>>
TransformTurn == part = "transform" /\ UNCHANGED <<part, rateVars, backoffVars, preparationVars, bindingVars, followUpVars>>
PreparationTurn == part = "preparation" /\ UNCHANGED <<part, rateVars, backoffVars, transformVars, bindingVars, followUpVars>>
BindingTurn == part = "binding" /\ UNCHANGED <<part, rateVars, backoffVars, transformVars, preparationVars, followUpVars>>
LinkTurn == part = "link" /\ UNCHANGED <<part, rateVars, backoffVars, transformVars, preparationVars, bindingVars>>
PollTurn == part = "poll" /\ UNCHANGED <<part, rateVars, backoffVars, transformVars, preparationVars, bindingVars>>

(* What the other parts do not use has one value.                          *)
OneSetting    == CHOOSE s \in Settings : ~ValidFactor(s.factor)
OneConnection == CHOOSE c \in Connections : TRUE
OneInput      == CHOOSE i \in Inputs : TRUE
OneMessage    == CHOOSE m \in Messages : TRUE
OneLink       == CHOOSE l \in LinkHeaders : l.header = <<>>
OneJob        == CHOOSE j \in PolledJobs : j.status = "null"

RequestsInit ==
  /\ part \in {"rate", "backoff", "transform", "preparation", "binding", "link", "poll"}
  /\ RateInit
  /\ TransformInit
  /\ IF part = "backoff" THEN BackoffInit ELSE setting = OneSetting /\ BackoffStart
  /\ IF part = "preparation" THEN PreparationInit
     ELSE connection = OneConnection /\ input = OneInput /\ PreparationStart
  /\ IF part = "binding" THEN BindingInit ELSE message = OneMessage /\ BindingStart
  /\ IF part = "link" THEN links \in LinkHeaders ELSE links = OneLink
  /\ IF part = "poll" THEN job \in PolledJobs ELSE job = OneJob
  /\ StartSearch
  /\ StartPolling

RequestsNext ==
  \/ RateTurn /\ RateNext
  \/ BackoffTurn /\ BackoffNext
  \/ TransformTurn /\ TransformNext
  \/ PreparationTurn /\ PreparationNext
  \/ BindingTurn /\ BindingNext
  \/ LinkTurn /\ LinkNext
  \/ PollTurn /\ PollNext

RequestsSpec ==
  RequestsInit /\ [][RequestsNext]_<<part, rateVars, backoffVars, transformVars, preparationVars, bindingVars, followUpVars>>
=============================================================================
