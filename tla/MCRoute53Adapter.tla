-------------------------- MODULE MCRoute53Adapter --------------------------
(***************************************************************************)
(* An instance of Route53Adapter for TLC: the zone "example." with an MX   *)
(* record set and an SOA at its apex, and an A and a TXT record set at     *)
(* "www", listed two at a time, so that the border of the pages falls      *)
(* between two names or between two types of one name.                     *)
(***************************************************************************)
EXTENDS Route53Adapter

CONSTANTS lister, writer

MCTokens == {"", "@", "'", "example", "www", "WWW", "mail", "MAIL", "a1", "a2"}
MCLower == [t \in MCTokens |->
               CASE t = "WWW" -> "www" [] t = "MAIL" -> "mail" [] OTHER -> t]

MCZoneName == <<"example", "">>
Apex == <<"example", "">>
Www == <<"www", "example", "">>
MCKeyName == <<Apex, Apex, Www, Www>>
MCKeyType == <<"MX", "SOA", "A", "TXT">>

Plain(text) == [prio |-> NoNumber, text |-> text]
Mx(prio, text) == [prio |-> prio, text |-> text]
Rec(name, type, values) == [name |-> name, type |-> type, ttl |-> 1, values |-> values]
Set(values) == [ttl |-> 1, values |-> values]

\* What the program writes: an MX record at the apex, addresses in capitals
\* and in two orders, a TXT value, and one with quotes of its own.
MxRecord  == Rec(<<"@">>, "MX", <<Mx(10, <<"MAIL", "">>)>>)
ARecord   == Rec(<<"www">>, "A", <<Plain(<<"a1">>), Plain(<<"a2">>)>>)
ACapitals == Rec(<<"WWW">>, "A", <<Plain(<<"a1">>)>>)
TxtRecord == Rec(<<"www">>, "TXT", <<Plain(<<"MAIL">>)>>)
TxtQuoted == Rec(<<"www">>, "TXT", <<Plain(<<"'", "mail", "'">>)>>)

\* What others put there.
MCOthersPut ==
    <<{Set(<<Mx(70000, <<"MAIL">>)>>)},
      {Set(<<Plain(<<"mail">>)>>)},
      {Set(<<Plain(<<"a1">>)>>), Alias},
      {Set(<<Plain(<<"'", "mail", "'">>)>>)}>>

MCRequests == [p \in Callers |->
    IF p = lister THEN {[op |-> "list"]}
    ELSE {[op |-> "upsert", record |-> r] :
             r \in {MxRecord, ARecord, TxtRecord, TxtQuoted}}
         \union {[op |-> "delete", record |-> r] : r \in {ACapitals}}]

MCInitialZones ==
    LET full == [k \in Keys |-> CHOOSE c \in MCOthersPut[k] : c # Alias] IN
    {full, [full EXCEPT ![1] = Absent, ![3] = Alias]}

\* One listing, and two writes one after the other.
MCMaxCalls == [p \in Callers |-> IF p = lister THEN 1 ELSE 2]
=============================================================================
