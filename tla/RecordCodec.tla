---------------------------- MODULE RecordCodec ----------------------------
(***************************************************************************)
(* The conversions between the records of the program and those of         *)
(* Route53, crates/adapters/route53/src/convert.rs, and the comparison of  *)
(* desired and actual records, crates/core/src/record.rs.                  *)
(*                                                                         *)
(* A text is a sequence of tokens.  A name or a host name is its text      *)
(* split at the dots, so that a trailing dot is a trailing Empty; a TXT    *)
(* string is its text split into quotes and runs of other characters.  A   *)
(* value is a text with the number and the blank it may start with:        *)
(* [prio, text], prio = NoNumber when it does not.                         *)
(***************************************************************************)
EXTENDS Naturals, Sequences, FiniteSets

CONSTANTS
    Tokens,   \* what texts are made of
    Lower,    \* to_lowercase of a token
    Empty,    \* the empty token
    At,       \* the token "@"
    Quote,    \* the token of one double quote
    NoNumber  \* the prio of a value that starts with no number and blank

ASSUME TokensAssumption ==
    /\ {Empty, At, Quote} \subseteq Tokens
    /\ Lower \in [Tokens -> Tokens]
    /\ \A t \in Tokens : Lower[Lower[t]] = Lower[t]
    /\ \A t \in {Empty, At, Quote} : Lower[t] = t
    /\ \A t \in Tokens : Lower[t] = Empty => t = Empty

Texts == Seq(Tokens)
Values == [prio : Nat \union {NoNumber}, text : Texts]

Lowercase(text) == [i \in DOMAIN text |-> Lower[text[i]]]

\* strip_suffix('.')
StripDot(text) ==
    IF Len(text) > 1 /\ text[Len(text)] = Empty
    THEN SubSeq(text, 1, Len(text) - 1) ELSE text

-----------------------------------------------------------------------------
(* convert.rs *)

SupportedTypes == {"A", "AAAA", "CNAME", "MX", "TXT", "NS", "SRV", "CAA"}

\* name ends with "." and zone.
Below(name, suffix) ==
    /\ Len(name) > Len(suffix)
    /\ SubSeq(name, Len(name) - Len(suffix) + 1, Len(name)) = suffix

Relative(name, suffix) ==
    IF name = suffix THEN <<At>> ELSE SubSeq(name, 1, Len(name) - Len(suffix))

ToRelativeName(fqdn, zoneFqdn) ==
    IF \/ Lowercase(StripDot(fqdn)) = Lowercase(StripDot(zoneFqdn))
       \/ Below(Lowercase(StripDot(fqdn)), Lowercase(StripDot(zoneFqdn)))
    THEN Relative(Lowercase(StripDot(fqdn)), Lowercase(StripDot(zoneFqdn)))
    ELSE StripDot(fqdn)

ToFqdn(relative, zoneFqdn) ==
    IF relative = <<At>> THEN StripDot(zoneFqdn) \o <<Empty>>
    ELSE relative \o StripDot(zoneFqdn) \o <<Empty>>

FqdnsEqual(a, b) == Lowercase(StripDot(a)) = Lowercase(StripDot(b))

Quoted(text) == Len(text) >= 2 /\ text[1] = Quote /\ text[Len(text)] = Quote

StripTxtQuotes(text) == IF Quoted(text) THEN SubSeq(text, 2, Len(text) - 1) ELSE text

AddTxtQuotes(text) == IF Quoted(text) THEN text ELSE <<Quote>> \o text \o <<Quote>>

\* A value on its way to Route53, and on its way back.
WireValue(type, v) ==
    IF type = "TXT" THEN [v EXCEPT !.text = AddTxtQuotes(@)] ELSE v
ListedValue(type, v) ==
    IF type = "TXT" THEN [v EXCEPT !.text = StripTxtQuotes(@)] ELSE v

-----------------------------------------------------------------------------
(* record.rs *)

RecordKey(r) == [name |-> r.name, type |-> r.type]

NormalizeRdata(text) == StripDot(Lowercase(text))

\* The priority of an MX value is a u16.
ParsesAsMx(v) == v.prio # NoNumber /\ v.prio < 65536

\* Mutant: all types alike.
NormalizeAlike(type, v) == [v EXCEPT !.text = NormalizeRdata(@)]

\* One value in normalize_for_comparison; what does not parse is kept as it is.
Normalize(type, v) ==
    IF type = "TXT" \/ (type = "MX" /\ ~ ParsesAsMx(v)) THEN v
    ELSE [v EXCEPT !.text = NormalizeRdata(@)]

\* normalize_for_comparison sorts: two vectors are equal when each value
\* occurs in both as often.
Occurrences(type, values, v) ==
    Cardinality({i \in DOMAIN values : Normalize(type, values[i]) = v})

\* Mutant: nothing is sorted.
SameSequence(type, s, t) ==
    [i \in DOMAIN s |-> Normalize(type, s[i])] = [i \in DOMAIN t |-> Normalize(type, t[i])]

SameValues(type, s, t) ==
    \A v \in {Normalize(type, s[i]) : i \in DOMAIN s}
             \union {Normalize(type, t[i]) : i \in DOMAIN t} :
        Occurrences(type, s, v) = Occurrences(type, t, v)

Diff(actual, desired) ==
    \/ RecordKey(actual) # RecordKey(desired)
    \/ actual.ttl # desired.ttl
    \/ ~ SameValues(actual.type, actual.values, desired.values)

=============================================================================
