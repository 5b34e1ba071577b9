-------------------------------- MODULE Dsn ---------------------------------
(***************************************************************************)
(* ParseDSN and splitAltHost (cubrid/config.go), and Connect's second      *)
(* parse of the alternative hosts (cubrid/conn.go).                        *)
(*                                                                         *)
(* The parameters of a DSN come from a Go map, in any order.  A number is  *)
(* an integer, or NaN for what does not parse.  An altHosts entry is a     *)
(* sequence of characters; a port is written in base two.                  *)
(***************************************************************************)
EXTENDS Integers, Sequences, SequencesExt

CONSTANTS
  MaxLen,       \* bound on the length of an altHosts entry
  MaxPort,      \* 65535
  DefaultPort   \* 33000

DsnConstants == MaxLen \in Nat /\ MaxPort \in Nat /\ DefaultPort \in 1 .. MaxPort

VARIABLES
  query,    \* the DSN's parameters: the values of each, and the altHosts entries
  todo,     \* those ParseDSN has still to look at
  cfg,      \* the Config
  targets,  \* the addresses Connect will dial
  phase     \* "parsing", "parsed", "resolved" or "refused"

vars == <<query, todo, cfg, targets, phase>>

Chars == {"h", ":", "[", "]", "+", "0", "1"}
Numbers == {"fetch_size", "connect_timeout", "ssl", "ssl_verify", "unknown"}
NaN == -9

Default(k) == IF k = "fetch_size" THEN 100 ELSE 0

Valid(k, v) ==
  CASE k = "fetch_size" -> v > 0
    [] k = "connect_timeout" -> v >= 0
    [] k \in {"ssl", "ssl_verify"} -> v \in {0, 1}
    [] k = "unknown" -> FALSE

-----------------------------------------------------------------------------
(* Strings: net.SplitHostPort, net.JoinHostPort, strconv                   *)

Has(s, c) == c \in ToSet(s)
Bit(c) == IF c = "1" THEN 1 ELSE 0
IsNumber(s) == s # <<>> /\ ToSet(s) \subseteq {"0", "1"}
NumberOf(s) == FoldLeft(LAMBDA n, c : 2 * n + Bit(c), 0, s)
\* strconv.Atoi, which takes a sign.
Atoi(s) ==
  LET digits == IF s # <<>> /\ s[1] = "+" THEN Tail(s) ELSE s
  IN IF IsNumber(digits) THEN NumberOf(digits) ELSE NaN

Itoa[n \in 0 .. MaxPort] ==
  (IF n < 2 THEN <<>> ELSE Itoa[n \div 2]) \o <<IF n % 2 = 1 THEN "1" ELSE "0">>

JoinHostPort(host, port) ==
  (IF Has(host, ":") THEN <<"[">> \o host \o <<"]">> ELSE host) \o <<":">> \o Itoa[port]

Split(how, host, port) == [how |-> how, host |-> host, port |-> port]
SplitHostPort(s) ==
  LET i == SelectLastInSeq(s, LAMBDA c : c = ":")
      end == SelectInSeq(s, LAMBDA c : c = "]")
      bracketed == s # <<>> /\ s[1] = "["
      host == IF bracketed THEN SubSeq(s, 2, end - 1) ELSE SubSeq(s, 1, i - 1)
      stray == \/ Has(SubSeq(s, IF bracketed THEN 2 ELSE 1, Len(s)), "[")
               \/ Has(SubSeq(s, IF bracketed THEN end + 1 ELSE 1, Len(s)), "]")
  IN CASE i = 0 -> Split("missing port", <<>>, <<>>)
       [] i > 0 /\ bracketed /\ end = 0 -> Split("invalid", <<>>, <<>>)
       [] i > 0 /\ bracketed /\ end > 0 /\ end + 1 # i ->
            Split(IF end < Len(s) /\ s[end + 1] = ":" THEN "invalid" ELSE "missing port", <<>>, <<>>)
       [] OTHER -> Split(IF stray \/ (~bracketed /\ Has(host, ":")) THEN "invalid" ELSE "ok",
                         host, SubSeq(s, i + 1, Len(s)))

-----------------------------------------------------------------------------
(* splitAltHost                                                            *)

\* Mutant of Bare: brackets around a host without a port are kept.
BareVerbatim(s) == s

\* A bracketed host without a port sheds its brackets.
Bare(s) == IF Len(s) > 1 /\ s[1] = "[" /\ Last(s) = "]" THEN SubSeq(s, 2, Len(s) - 1) ELSE s

Refused == [ok |-> FALSE, host |-> <<>>, port |-> 0]
Target(host, port) == [ok |-> TRUE, host |-> host, port |-> port]

SplitAltHost(s) ==
  LET r == SplitHostPort(s)
      n == Atoi(r.port)
  IN CASE r.how = "invalid" -> Refused
       [] r.how = "missing port" ->
            IF Bare(s) = <<>> \/ Has(Bare(s), "[") \/ Has(Bare(s), "]") THEN Refused
            ELSE Target(Bare(s), DefaultPort)
       [] r.how = "ok" ->
            IF r.host = <<>> \/ n \notin 1 .. MaxPort THEN Refused ELSE Target(r.host, n)

-----------------------------------------------------------------------------
(* ParseDSN and Connect                                                    *)

\* Every entry up to MaxLen characters on its own, and some entries and numbers
\* together, good and bad, once and twice.
Strings == UNION {[1 .. n -> Chars] : n \in 0 .. MaxLen}
SomeEntries == {<<"h">>, <<"h", ":", "1">>, <<"[", ":", "]">>, <<"h", ":">>}
Values(k) == IF k = "fetch_size" THEN {<<5>>, <<0>>, <<0, 5>>} ELSE {<<1>>, <<NaN>>, <<0, 1>>}
Queries ==
  [num : {<<>>}, alt : {<<s>> : s \in Strings}]
  \cup [num : UNION {{f \in [K -> UNION {Values(k) : k \in K}] : \A k \in K : f[k] \in Values(k)} :
                       K \in SUBSET Numbers},
        alt : UNION {[1 .. n -> SomeEntries] : n \in 0 .. 2}]

Init ==
  /\ query \in Queries
  /\ todo = DOMAIN query.num \cup (IF query.alt = <<>> THEN {} ELSE {"altHosts"})
  /\ cfg = [num |-> [k \in Numbers |-> Default(k)], alt |-> <<>>]
  /\ targets = <<>> /\ phase = "parsing"

LastValue(vs) == Last(vs)

ParseNumber(k) ==
  /\ phase = "parsing" /\ k \in todo \ {"altHosts"}
  /\ LET v == LastValue(query.num[k]) IN
       IF Valid(k, v)
       THEN cfg' = [cfg EXCEPT !.num[k] = v] /\ todo' = todo \ {k} /\ phase' = phase
       ELSE phase' = "refused" /\ UNCHANGED <<cfg, todo>>
  /\ UNCHANGED <<query, targets>>

AllSplit(entries) == \A i \in DOMAIN entries : SplitAltHost(entries[i]).ok

ParseAltHosts ==
  /\ phase = "parsing" /\ "altHosts" \in todo
  /\ IF AllSplit(query.alt)
     THEN /\ cfg' = [cfg EXCEPT !.alt = [i \in DOMAIN query.alt |->
                LET t == SplitAltHost(query.alt[i]) IN JoinHostPort(t.host, t.port)]]
          /\ todo' = todo \ {"altHosts"} /\ phase' = phase
     ELSE phase' = "refused" /\ UNCHANGED <<cfg, todo>>
  /\ UNCHANGED <<query, targets>>

Parsed ==
  /\ phase = "parsing" /\ todo = {}
  /\ phase' = "parsed"
  /\ UNCHANGED <<query, todo, cfg, targets>>

\* Connect parses the entries again.
Resolve ==
  /\ phase = "parsed"
  /\ IF AllSplit(cfg.alt)
     THEN /\ targets' = [i \in DOMAIN cfg.alt |-> SplitAltHost(cfg.alt[i])]
          /\ phase' = "resolved"
     ELSE phase' = "refused" /\ targets' = targets
  /\ UNCHANGED <<query, todo, cfg>>

Next == (\E k \in Numbers : ParseNumber(k)) \/ ParseAltHosts \/ Parsed \/ Resolve
Spec == Init /\ [][Next]_vars

-----------------------------------------------------------------------------
(* Properties                                                              *)

\* Meant: the reading of an entry, at most one: a host without brackets in it and
\* a port or none, the host in brackets if it has a colon.
Meant(s) ==
  LET hosts == {h \in {SubSeq(s, a, b) : a \in 1 .. 2, b \in 1 .. Len(s)} :
                  h # <<>> /\ ~Has(h, "[") /\ ~Has(h, "]")}
      written(h) == {<<"[">> \o h \o <<"]">>} \cup (IF Has(h, ":") THEN {} ELSE {h})
      ports == {p \in {SubSeq(s, c, Len(s)) : c \in 1 .. Len(s)} : Atoi(p) \in 1 .. MaxPort}
  IN {Target(h, DefaultPort) : h \in {h \in hosts : s \in written(h)}}
     \cup {Target(hp[1], Atoi(hp[2])) : hp \in
             {hp \in hosts \X ports : \E w \in written(hp[1]) : s = w \o <<":">> \o hp[2]}}

EntriesValid == \A i \in DOMAIN query.alt : Meant(query.alt[i]) # {}
NumbersValid == \A k \in DOMAIN query.num : Valid(k, Last(query.num[k]))

\* AltHostsFixed: an alternative host in one of the four forms is accepted by
\* ParseDSN, by Connect again in the form ParseDSN stored, and is dialed as it was
\* meant, in the order given: parse, net.JoinHostPort, parse is a fixed point
\* (splitAltHost).
AltHostsFixed ==
  /\ phase = "refused" /\ query.num = <<>> => ~EntriesValid
  /\ phase = "resolved" =>
       /\ DOMAIN targets = DOMAIN query.alt
       /\ \A i \in DOMAIN targets : Meant(query.alt[i]) = {targets[i]}

\* DsnAsGiven: in whatever order the map gives the parameters, a DSN with a bad or
\* unknown one is refused and no other is, and the Config has for each parameter
\* the last value given for it, or its default (ParseDSN).
DsnAsGiven ==
  /\ phase = "refused" /\ query.alt = <<>> => ~NumbersValid
  /\ phase \in {"parsed", "resolved"} =>
       /\ NumbersValid
       /\ \A k \in Numbers :
            cfg.num[k] = IF k \in DOMAIN query.num THEN Last(query.num[k]) ELSE Default(k)
=============================================================================
