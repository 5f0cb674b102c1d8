------------------------------- MODULE Fields -------------------------------
(***************************************************************************)
(* What happens to the fields of a parsed line: tier 3 adds what it finds  *)
(* in the text and hides secrets (uli/parsers/inference.py), and the       *)
(* normalizer turns them into an OCSF event (uli/normalization/ocsf.py).   *)
(*                                                                         *)
(* Lines and fields are those of Parsers; a line also has the addresses    *)
(* among its tokens, in their order (ips), and perhaps a severity word     *)
(* (word).  An event is the function of paths to values that it holds.     *)
(***************************************************************************)
EXTENDS Parsers

CONSTANTS
  SourceKeys, TargetKeys,    \* _IP_KEYS_SRC, _IP_KEYS_DST, in their order
  SourcePorts, TargetPorts,  \* the keys of their ports
  Addresses,                 \* values that are IP addresses
  Private,                   \* names that end in a _PRIVATE_KEY_SUFFIX
  Str                        \* str(v)[:2000] of the values that are no scalars

Redacted == "***REDACTED***"
\* No suffix of a private name ends the names that the normalizer gives itself.
ASSUME PrivateAssumption ==
  Private \cap {"ip", "port", "time", "observables", "raw_data"} = {} /\ None # Redacted
ASSUME StrAssumption == DOMAIN Str \cap {None, "", Redacted} = {}

SetDefault(f, k, v) == IF k \in DOMAIN f THEN f ELSE Put(f, k, v)
Internal(n) == <<"__", n>>
-----------------------------------------------------------------------------
(***************************************************************************)
(* infer                                                                   *)
(***************************************************************************)
InferTokens(f, x) == IF x.ips = <<>> THEN f ELSE SetDefault(f, Internal("ips"), x.ips)

\* A pair is inferred unless the parser has a field of its name already.
InferKV(f, x) ==
  With(Under("inferred", [n \in {m \in DOMAIN x.pairs : <<"", m>> \notin DOMAIN f} |-> x.pairs[n]]), f)

\* low: the field of that name, inferred or not, if it has a value
Named(f, n) == IF <<"", n>> \in DOMAIN f THEN f[<<"", n>>] ELSE Get(f, <<"inferred", n>>)
FirstOf(f, names) ==
  LET filled == SelectSeq(names, LAMBDA n : Named(f, n) \notin Empty)
  IN IF filled = <<>> THEN None ELSE Named(f, Head(filled))

\* _endpoint_roles: the first key that has a value decides, be it an address
\* or not.  Without either role the first addresses of the text stand in.
Role(f, name, names) ==
  LET v == FirstOf(f, names) IN IF v \in Addresses THEN SetDefault(f, Internal(name), v) ELSE f
StandIn(f) ==
  LET ips == Get(f, Internal("ips"))
      src == Put(f, Internal("src_ip"), ips[1])
  IN IF ips = None \/ {Internal("src_ip"), Internal("dst_ip")} \cap DOMAIN f # {} THEN f
     ELSE IF Len(ips) > 1 THEN Put(src, Internal("dst_ip"), ips[2]) ELSE src
\* The first port key that is there decides, even if it has no value.
Port(f, name, names) ==
  LET there == SelectSeq(names, LAMBDA n : {<<"", n>>, <<"inferred", n>>} \cap DOMAIN f # {})
  IN IF there = <<>> THEN f ELSE SetDefault(f, Internal(name), Named(f, Head(there)))
Roles(f) == Role(Role(f, "src_ip", SourceKeys), "dst_ip", TargetKeys)
EndpointRoles(f) == Port(Port(StandIn(Roles(f)), "src_port", SourcePorts), "dst_port", TargetPorts)

\* _redact
IsPrivate(k) == IF k[1] = "ocsf" THEN Last(k[2]) \in Private ELSE k[2] \in Private
RedactUnmapped(f) ==   \* mutant: what the pack has mapped is taken for safe
  [k \in DOMAIN f |-> IF k[1] # "ocsf" /\ IsPrivate(k) /\ f[k] \notin Empty THEN Redacted ELSE f[k]]
Redact(f) ==
  [k \in DOMAIN f |-> IF IsPrivate(k) /\ f[k] \notin Empty THEN Redacted ELSE f[k]]

Found(ir, x) ==
  [ir EXCEPT !.fields = InferKV(InferTokens(@, x), x),
             !.ts  = @ \/ "text" \in x.time,
             !.sev = IF @ # None \/ x.word = None THEN @ ELSE LevelToSeverity(x.word)]
Infer(ir, x) == [Found(ir, x) EXCEPT !.fields = Redact(EndpointRoles(@))]

\* One handler is around all of it: a step that raises is the last one, and nothing
\* is redacted.  The addresses do, when a line has a number as its own "__ips".
InferRaised(ir, x) ==
  {[i EXCEPT !.errs = @ \cup {"inference_error"}] :
     i \in {ir, Found(ir, x), [Found(ir, x) EXCEPT !.fields = Roles(@)]}}
-----------------------------------------------------------------------------
(***************************************************************************)
(* normalize, with embed_raw off.  That one rule's target contains         *)
(* another's is left out, and so is what an event is given of its class,   *)
(* product and protocol where nothing is mapped.                           *)
(***************************************************************************)
OcsfField(f) == [p \in {k[2] : k \in {j \in DOMAIN f : j[1] = "ocsf"}} |-> f[<<"ocsf", p>>]]

\* Fields whose names have a reserved prefix, and those without a value, are left
\* out.  What is no scalar is kept as the text of it, cut.
Scalar(v) == IF v \in DOMAIN Str THEN Str[v] ELSE v
Unmapped(f) ==
  [p \in {<<"unmapped", k[2]>> : k \in {j \in DOMAIN f : j[1] = "" /\ f[j] # None}} |->
     Scalar(f[<<"", p[2]>>])]

\* A mapped endpoint is never mixed with an inferred one.
Endpoint(body, f, name, ip, port) ==
  IF Get(f, Internal(ip)) \in Empty \/ \E p \in DOMAIN body : Head(p) = name THEN body
  ELSE LET with == Put(body, <<name, "ip">>, f[Internal(ip)])
       IN IF Get(f, Internal(port)) \in DOMAIN Number THEN Put(with, <<name, "port">>, f[Internal(port)]) ELSE with

\* What the normalizer gives itself takes the place of all that is mapped there.
Without(body, name) == [p \in {q \in DOMAIN body : Head(q) # name} |-> body[p]]
Give(body, name, v) == Put(Without(body, name), <<name>>, v)

\* The time of the event is what was parsed, else the time of its arrival.  Of the
\* observables that tier 3 collects here are the addresses.
Body(ir) ==
  LET mapped == SetDefault(OcsfField(ir.fields), <<"severity_id">>, IF ir.sev = None THEN 0 ELSE ir.sev)
      timed  == Give(mapped, "time", IF ir.ts THEN "parsed" ELSE "received")
      meta   == [p \in DOMAIN timed \ {<<"metadata">>} |-> timed[p]]   \* unless it is a dict
      ends   == Endpoint(Endpoint(meta, ir.fields, "src_endpoint", "src_ip", "src_port"),
                         ir.fields, "dst_endpoint", "dst_ip", "dst_port")
  IN IF Internal("ips") \in DOMAIN ir.fields THEN Give(ends, "observables", "inferred") ELSE ends

Normalize(ir) ==
  LET unmapped == Unmapped(ir.fields)
      body == IF DOMAIN unmapped = {} THEN Body(ir) ELSE With(Without(Body(ir), "unmapped"), unmapped)
  IN Give(body, "raw_data", None)
=============================================================================
