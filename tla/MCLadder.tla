------------------------------- MODULE MCLadder -------------------------------
(* Lines for Ladder: a filterlog line and one of another program with the      *)
(* same shape, both with a BSD syslog head; a CEF line with a broken header;   *)
(* an access line that its pack reads in part, mapping even an observable;     *)
(* JSON with the same secret and a list; a syslog body of key=value pairs; and *)
(* a line nobody knows, with a shape close to the first.                       *)
EXTENDS Ladder

CONSTANTS t1, t2
MCSymmetry == Permutations(Threads)

Blank == [shape |-> "s0", marks |-> {}, time |-> {}, level |-> None, pri |-> None,
          groups |-> NoFields, pairs |-> NoFields, ips |-> <<>>, word |-> None]

Filter == [Blank EXCEPT !.shape = "s1", !.time = {"header", "text"}, !.pri = 6,
  !.marks = {"pri", "bsd_head", "bsd_time", "rfc3164", "app=filterlog", "rule", "rest"},
  !.groups = [hostname |-> "fw", appname |-> "filterlog"],
  !.pairs = [action |-> "block", src_ip |-> "10.0.0.1", dst_ip |-> "10.0.0.2", length |-> "60"],
  !.ips = <<"10.0.0.1", "10.0.0.2">>]
Other == [Filter EXCEPT !.marks = @ \ {"app=filterlog"}, !.groups = [hostname |-> "fw", appname |-> "ipmon"]]
BadCEF == [Blank EXCEPT !.shape = "s2", !.marks = {"cef"}, !.word = "ERROR"]
Access == [Blank EXCEPT !.shape = "s3", !.marks = {"access", "head", "kv3"}, !.time = {"text"},
  !.pairs = [client |-> "10.0.0.1", session_token |-> "t0", spt |-> "99", user |-> ""],
  !.ips = <<"10.0.0.3">>]
Json == [Access EXCEPT !.shape = "s4", !.marks = {"json", "braces"}, !.level = "error",
  !.pairs = [src |-> "10.0.0.1", session_token |-> "t0", spt |-> "99", user |-> None, tags |-> "[a, b]"]]
Pairs == [Blank EXCEPT !.shape = "s5", !.marks = {"bsd_time", "kv3"}, !.time = {"text"},
  !.pairs = [src |-> "10.0.0.1", password |-> "t0"]]
Odd == [Blank EXCEPT !.shape = "s6", !.ips = <<"10.0.0.3">>]

MCLine == [filter |-> Filter, other |-> Other, cef |-> BadCEF, access |-> Access, json |-> Json,
           pairs |-> Pairs, odd |-> Odd]

Rule(target, from) == [target |-> target, from |-> from, default |-> None, const |-> None,
                       conv |-> NoFields, typed |-> FALSE]
Extract(mark, optional, names) == [raises |-> "-", mark |-> mark, optional |-> optional, names |-> names]

PfSense == [id |-> "vendor.pfsense.filterlog", base |-> 92, pre |-> "structural.syslog3164",
  sigs |-> {[kind |-> "syslog_app", mark |-> "app=filterlog", required |-> TRUE]},
  extracts |-> <<Extract("rule", FALSE, {"action"}), Extract("rest", TRUE, {"src_ip", "dst_ip"})>>,
  rules |-> <<Rule(<<"src_endpoint", "ip">>, <<"", "src_ip">>), Rule(<<"dst_endpoint", "ip">>, <<"", "dst_ip">>),
              [Rule(<<"action_id">>, <<"", "action">>) EXCEPT !.conv = [pass |-> "1", block |-> "2"]],
              Rule(<<"device", "name">>, <<"syslog", "hostname">>)>>,
  require |-> {<<"", "src_ip">>, <<"", "dst_ip">>}]
Web == [id |-> "vendor.web.access", base |-> 90, pre |-> None,
  sigs |-> {[kind |-> "contains", mark |-> "access", required |-> TRUE]},
  extracts |-> <<Extract("head", FALSE, {"client", "session_token", "user"})>>,
  rules |-> <<Rule(<<"src_endpoint", "ip">>, <<"", "client">>), Rule(<<"session", "token">>, <<"", "session_token">>),
              Rule(<<"actor", "user">>, <<"", "user">>), Rule(<<"url">>, <<"", "url">>),
              Rule(<<"observables">>, <<"", "client">>)>>,
  require |-> {}]
MCPacks == <<PfSense, Web>>

\* What suggest drafts for the cluster of a line nobody knows, promoted.
Draft == [id |-> "suggested.s", base |-> 50, pre |-> None,
  sigs |-> {[kind |-> "shape_family", mark |-> "family", required |-> TRUE]},
  extracts |-> <<Extract("family", FALSE, {"field_0", "field_2"})>>, rules |-> <<>>, require |-> {}]
MCPromoted == <<Draft>>
MCFamily == [family |-> [Odd EXCEPT !.marks = {"family"}, !.pairs = [field_0 |-> "link", field_2 |-> "10.0.0.3"]],
             access |-> [Access EXCEPT !.marks = @ \cup {"family"}]]

\* A pack that is promoted serves as tier 2 immediately (README.md:131): a line
\* of the cluster it was drafted from is an event of tier 2.
PromotedServes ==
  \A t \in Returned : Winner(Answers[job[t].line]).id = Draft.id /\ faults = 0 => Result(t).tier = 2

MCSimilarity == [a, b \in {"s1", "s2", "s3", "s4", "s5", "s6"} |->
                   IF a = b THEN 100 ELSE IF {a, b} = {"s1", "s6"} THEN 85 ELSE 10]
MCClose == [a \in {"s1", "s2", "s3", "s4", "s5", "s6"} |->
              [b \in {"s1", "s2", "s3", "s4", "s5", "s6"} |-> MCSimilarity[a, b]]]

MCNumber == [n \in {"99", "60"} |-> IF n = "99" THEN 99 ELSE 60]
MCStr == [v \in {"[a, b]"} |-> "['a', 'b']"]
MCWords == [error |-> 4, ERROR |-> 4]
MCSourceKeys == <<"src", "src_ip", "client">>
MCTargetKeys == <<"dst", "dst_ip">>
MCSourcePorts == <<"spt", "src_port">>
MCTargetPorts == <<"dpt", "dst_port">>
==============================================================================
