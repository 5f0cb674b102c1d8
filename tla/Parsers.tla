------------------------------- MODULE Parsers -------------------------------
(***************************************************************************)
(* The parsers of tiers 1 and 2: uli/parsers/structural.py and declarative *)
(* packs (uli/parsers/declarative.py), as functions of a line.             *)
(*                                                                         *)
(* A line is what the parsers can tell of it: its shape; the marks their   *)
(* tests and regular expressions find in it; where in it a timestamp can   *)
(* be read; its level and syslog severity; and the names and values that   *)
(* the groups of the header that fits (groups) and key=value pairs, JSON   *)
(* keys or attributes (pairs) give.  Scores and confidences are            *)
(* hundredths.  A field is named <<prefix, name>>; the name of an "ocsf"   *)
(* field is the sequence of its path.                                      *)
(***************************************************************************)
EXTENDS Integers, Sequences, FiniteSetsExt, SequencesExt

CONSTANTS
  LevelWord,   \* _LEVEL_WORDS
  Number,      \* what the values that can be read as integers are worth
  Numeric,     \* those of them that are numbers and not text
  None

NoFields == [k \in {} |-> 0]
With(f, g) == [k \in DOMAIN f \cup DOMAIN g |-> IF k \in DOMAIN g THEN g[k] ELSE f[k]]
Put(f, k, v) == [j \in DOMAIN f \cup {k} |-> IF j = k THEN v ELSE f[j]]
Get(f, k) == IF k \in DOMAIN f THEN f[k] ELSE None
Under(prefix, g) == [k \in {<<prefix, n>> : n \in DOMAIN g} |-> g[k[2]]]
Empty == {None, ""}
Times(a, b) == (a * b) \div 100

\* new_ir of a parser of the given tier
NewIR(id, tier, conf) ==
  [id |-> id, tier |-> tier, conf |-> conf, ts |-> FALSE, sev |-> None,
   fields |-> NoFields, errs |-> {}]

\* level_to_severity: a number beyond 6 says nothing.
LevelToSeverity(v) ==
  IF v \notin Numeric THEN Get(LevelWord, v)
  ELSE IF Number[v] \in 0..6 THEN Number[v] ELSE None

\* _SEV_SYSLOG.  An emergency, 0, is given the lowest severity.
FromSyslog(pri) ==
  IF pri = None THEN None ELSE <<1, 6, 5, 4, 3, 2, 1, 1>>[pri + 1]
-----------------------------------------------------------------------------
(***************************************************************************)
(* Structural parsers.  can_parse looks at the beginning or the tokens of  *)
(* a line; parse matches the whole header, and when that fails it says so  *)
(* with a confidence of .3.                                                *)
(***************************************************************************)
Structural(id, x, worth, ir) ==
  [id |-> id,
   score |-> Max({0} \cup {worth[k] : k \in DOMAIN worth \cap x.marks}),
   ir |-> [ir EXCEPT !.id = id]]

Parsed(conf, ts, sev, fields) ==
  [NewIR(None, 1, conf) EXCEPT !.ts = ts, !.sev = sev, !.fields = fields]
Invalid(conf, err) == [NewIR(None, 1, conf) EXCEPT !.errs = {err}]
IfFits(header, x, ir) == IF header \in x.marks THEN ir ELSE Invalid(30, "mismatch")

\* A line in braces is an object or no JSON, so that the value which is no object
\* is left out.  Lists stay values, and names of nested objects are joined.
JSON(x) ==
  LET ts == "field" \in x.time
  IN Structural("structural.json", x, [braces |-> 90],
       CASE "json" \notin x.marks -> Invalid(0, "json_invalid")
         [] "docker" \in x.marks  -> Parsed(85, ts, None, Under("", x.pairs))
         [] OTHER -> Parsed(IF ts THEN 80 ELSE 70, ts, LevelToSeverity(x.level), Under("", x.pairs)))

\* The severity of CEF is a scale of its own.
CEF(x) ==
  LET n   == Get(Number, x.level)
      sev == CASE n = None -> LevelToSeverity(x.level)
               [] n <= 3 -> 1 [] n \in 4..5 -> 2 [] n = 6 -> 3 [] n \in 7..8 -> 4 [] OTHER -> 5
  IN Structural("structural.cef", x, [cef |-> 95],
       IfFits("cef_header", x,
         Parsed(85, x.time \cap {"prefix", "field"} # {}, sev,
                With(Under("cef", x.groups), Under("", x.pairs)))))

LEEF(x) ==
  Structural("structural.leef", x, [leef |-> 95],
    IfFits("leef_header", x,
      Parsed(85, x.time \cap {"prefix", "field"} # {}, None,
             With(Under("leef", x.groups), Under("", x.pairs)))))

\* "-" stands for a name or id that is not there.
Syslog5424(x) ==
  LET g == [n \in DOMAIN x.groups |-> IF n # "hostname" /\ x.groups[n] = "-" THEN None ELSE x.groups[n]]
  IN Structural("structural.syslog5424", x, [pri_version |-> 95, version_time |-> 80],
       IfFits("rfc5424", x,
         Parsed(80, "header" \in x.time, FromSyslog(x.pri),
                With(Under("syslog", g), Under("sd", x.pairs)))))

\* Without an application before the colon the line may be anything.
Syslog3164(x) ==
  Structural("structural.syslog3164", x,
    [pri |-> 85, bsd_head |-> 80, iso_head |-> 75, bsd_time |-> 40, iso_time |-> 40],
    IfFits("rfc3164", x,
      Parsed(IF "appname" \in DOMAIN x.groups THEN 75 ELSE 60, "header" \in x.time,
             FromSyslog(x.pri), Under("syslog", x.groups))))

CLF(x) ==
  Structural("structural.clf", x, [http_request |-> 85],
    IfFits("clf_line", x, Parsed(85, "header" \in x.time, None, Under("", x.groups))))

ApacheError(x) ==
  Structural("structural.apache_error", x, [bracket_day |-> 85],
    IfFits("apache_line", x,
      Parsed(80, "header" \in x.time, LevelToSeverity(x.level), Under("", x.groups))))

Log4j(x) ==
  Structural("structural.log4j", x, [date_level |-> 80],
    IfFits("log4j_line", x,
      Parsed(75, "header" \in x.time, LevelToSeverity(x.level), Under("", x.groups))))

\* The tokens may show pairs where the expression finds none.
KV(x) ==
  LET ir == Parsed(60, x.time # {}, LevelToSeverity(x.level), Under("", x.pairs))
  IN Structural("structural.kv", x, [kv3 |-> 70, kv2_short |-> 55],
       IF DOMAIN x.pairs # {} THEN ir ELSE [ir EXCEPT !.conf = 20, !.errs = {"kv_none"}])

\* STRUCTURAL_PARSERS, in the order in which they are asked.
StructuralParsers(x) ==
  <<JSON(x), CEF(x), LEEF(x), Syslog5424(x), Syslog3164(x), CLF(x), ApacheError(x), Log4j(x), KV(x)>>
-----------------------------------------------------------------------------
(***************************************************************************)
(* Declarative packs.  A pack has signatures, perhaps a structural parser  *)
(* to run first, extracts that fill fields, rules that map fields to OCSF  *)
(* paths, and fields it requires.                                          *)
(***************************************************************************)
SignatureScore ==
  [syslog_app |-> 100, prefix |-> 95, regex |-> 90, json_keys |-> 90, contains |-> 85,
   shape_family |-> 80, token_count |-> 50]

\* can_parse: the best signature counts, but none that is required may fail.  Both
\* tests are taken for one; in the code a required json_keys asks for the keys
\* alone, and a regex that times out in one of them may match in the other.
PackScore(d, x) ==
  IF \E s \in d.sigs : s.required /\ s.mark \notin x.marks THEN 0
  ELSE Times(Max({0} \cup {SignatureScore[s.kind] : s \in {r \in d.sigs : r.mark \in x.marks}}), d.base)

\* The structural parser runs whatever its can_parse says; empty fields are dropped.
TakeOver(ir, pre) ==
  [ir EXCEPT !.ts = pre.ts, !.sev = pre.sev, !.errs = pre.errs,
     !.fields = [k \in {j \in DOMAIN pre.fields : pre.fields[j] # None} |-> pre.fields[k]]]
PreParsed(d, x) ==
  LET i   == SelectInSeq(StructuralParsers(x), LAMBDA r : r.id = d.pre)
      new == NewIR(d.id, 2, d.base)
  IN IF i = 0 THEN new ELSE TakeOver(new, StructuralParsers(x)[i].ir)

\* An extract that does not match, and one that raises, leave a note and no
\* fields.  The note of an optional one ends in "_nomatch" as well.
RunExtract(ir, ex, x) ==
  CASE ex.raises \in x.marks -> [ir EXCEPT !.errs = @ \cup {"extract_error"}]
    [] ex.mark \in x.marks   ->
         [ir EXCEPT !.fields = With(@, [k \in {<<"", n>> : n \in ex.names \cap DOMAIN x.pairs} |->
                                          x.pairs[k[2]]])]
    [] OTHER -> [ir EXCEPT !.errs = @ \cup {IF ex.optional THEN "optional_nomatch" ELSE "nomatch"}]

\* One rule of _apply_map.  conv converts a value, to None where the rule does
\* not apply to it, and to "raises" where the conversion does.
ApplyRule(ir, r) ==
  LET found == Get(ir.fields, r.from)
      val   == IF found \in Empty THEN r.default ELSE found
      out   == IF r.const # None THEN r.const ELSE IF val = None THEN None
               ELSE IF val \in DOMAIN r.conv THEN r.conv[val] ELSE val
  IN CASE out = None     -> ir
       [] out = "raises" -> [ir EXCEPT !.errs = @ \cup {"map_error"}]
       [] OTHER ->
            [ir EXCEPT !.fields = Put(@, <<"ocsf", r.target>>, out),
                       !.ts  = IF r.target = <<"time">> /\ r.typed THEN TRUE ELSE @,
                       !.sev = IF r.target = <<"severity_id">> /\ r.typed THEN Number[out] ELSE @]

Root(n) == CHOOSE r \in 0..100 : r * r <= n /\ n < (r + 1) * (r + 1)

\* _score: base, the square root of the share of rules that filled their
\* target, and a factor for each thing amiss.
Scored(d, ir) ==
  LET filled  == Cardinality({k \in DOMAIN ir.fields : k[1] = "ocsf"})
      fill    == Root(Min({10000, (10000 * filled) \div Max({1, Len(d.rules)})}))
      missing == \E k \in d.require : Get(ir.fields, k) \in Empty
      nomatch == ir.errs \cap {"nomatch", "optional_nomatch"} # {}
  IN [ir EXCEPT !.conf = Times(Times(Times(Times(d.base, fill), IF missing THEN 50 ELSE 100),
                                     IF ir.ts THEN 100 ELSE 85), IF nomatch THEN 50 ELSE 100),
                !.errs = IF missing THEN @ \cup {"missing_required"} ELSE @]

\* The i-th step of parse: the extracts in their order, then the rules in theirs.
RunStep(ir, d, i, x) ==
  IF i <= Len(d.extracts) THEN RunExtract(ir, d.extracts[i], x)
  ELSE ApplyRule(ir, d.rules[i - Len(d.extracts)])

PackParsed(d, x) ==
  LET steps == Len(d.extracts) + Len(d.rules)
      after[i \in 0..steps] == IF i = 0 THEN PreParsed(d, x) ELSE RunStep(after[i - 1], d, i, x)
  IN Scored(d, after[steps])

Declarative(d, x) == [id |-> d.id, score |-> PackScore(d, x), ir |-> PackParsed(d, x)]
=============================================================================
