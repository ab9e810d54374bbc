------------------------- MODULE RecordCodecProofs -------------------------
(***************************************************************************)
(* The conversions of RecordCodec give back what they were given, for      *)
(* every name and every value, with the exceptions the theorems name.      *)
(***************************************************************************)
EXTENDS RecordCodec, SequenceTheorems, FiniteSetTheorems, FunctionTheorems, TLAPS

-----------------------------------------------------------------------------
(* Names.                                                                  *)

LEMMA LowercaseType ==
    ASSUME NEW text \in Texts
    PROVE  /\ Lowercase(text) \in Texts
           /\ Len(Lowercase(text)) = Len(text)
           /\ \A i \in 1 .. Len(text) : Lowercase(text)[i] = Lower[text[i]]
<1>1. DOMAIN text = 1 .. Len(text) /\ Len(text) \in Nat
  BY DEF Texts
<1>2. Lowercase(text) \in [1 .. Len(text) -> Tokens]
  BY <1>1, TokensAssumption DEF Lowercase, Texts
<1>3. QED
  BY <1>1, <1>2 DEF Lowercase, Texts

LEMMA StripDotType ==
    ASSUME NEW text \in Texts
    PROVE  StripDot(text) \in Texts
BY DEF StripDot, Texts

\* A name is more than its trailing dot.
LEMMA StripDotNonEmpty ==
    ASSUME NEW text \in Texts, text # << >>
    PROVE  StripDot(text) \in Texts /\ StripDot(text) # << >>
<1>1. Len(text) \in Nat /\ text \in Seq(Tokens)
  BY DEF Texts
<1>2. CASE Len(text) > 1 /\ text[Len(text)] = Empty
  <2>1. StripDot(text) = SubSeq(text, 1, Len(text) - 1)
    BY <1>2 DEF StripDot
  <2>2. Len(SubSeq(text, 1, Len(text) - 1)) = Len(text) - 1
    BY <1>1, <1>2
  <2>3. Len(StripDot(text)) # 0
    BY <1>1, <1>2, <2>1, <2>2
  <2> QED
    BY <2>3, StripDotType
<1> QED
  BY <1>2, StripDotType DEF StripDot

\* Stripping the dot and lowering the case commute.
LEMMA StripLowercase ==
    ASSUME NEW text \in Texts
    PROVE  StripDot(Lowercase(text)) = Lowercase(StripDot(text))
<1> DEFINE low == Lowercase(text)
           n   == Len(text)
<1>1. /\ n \in Nat /\ low \in Seq(Tokens) /\ text \in Seq(Tokens) /\ Len(low) = n
      /\ \A i \in 1 .. n : low[i] = Lower[text[i]]
  BY LowercaseType DEF Texts
<1> HIDE DEF low, n
<1>2. n > 1 => (low[n] = Empty <=> text[n] = Empty)
  <2>1. n > 1 => n \in 1 .. n /\ text[n] \in Tokens
    BY <1>1 DEF n
  <2> QED
    BY <1>1, <2>1, TokensAssumption
<1>3. CASE n > 1 /\ text[n] = Empty
  <2> DEFINE short == SubSeq(text, 1, n - 1)
             lowShort == SubSeq(low, 1, n - 1)
  <2>1. /\ short \in Texts /\ Len(short) = n - 1
        /\ \A i \in 1 .. n - 1 : short[i] = text[i]
    BY <1>1, <1>3 DEF Texts, n
  <2>2. /\ lowShort \in Seq(Tokens) /\ Len(lowShort) = n - 1
        /\ \A i \in 1 .. n - 1 : lowShort[i] = low[i]
    BY <1>1, <1>3
  <2> HIDE DEF short, lowShort
  <2>3. /\ Lowercase(short) \in Seq(Tokens) /\ Len(Lowercase(short)) = n - 1
        /\ \A i \in 1 .. n - 1 : Lowercase(short)[i] = Lower[short[i]]
    BY <2>1, LowercaseType DEF Texts
  <2>4. \A i \in 1 .. n - 1 : i \in 1 .. n
    BY <1>1
  <2>5. \A i \in 1 .. n - 1 : lowShort[i] = Lowercase(short)[i]
    <3> TAKE i \in 1 .. n - 1
    <3>1. lowShort[i] = Lower[text[i]]
      BY <1>1, <2>2, <2>4
    <3>2. Lowercase(short)[i] = Lower[text[i]]
      BY <2>1, <2>3
    <3> QED
      BY <3>1, <3>2
  <2>6. lowShort = Lowercase(short)
    <3> DEFINE l == Lowercase(short)
    <3>1. l \in Seq(Tokens) /\ Len(l) = Len(lowShort)
      BY <2>2, <2>3
    <3>2. \A i \in 1 .. Len(lowShort) : lowShort[i] = l[i]
      BY <2>2, <2>5
    <3> HIDE DEF l
    <3>3. lowShort = l
      BY <2>2, <3>1, <3>2, SeqEqual
    <3> QED
      BY <3>3 DEF l
  <2>7. StripDot(low) = lowShort /\ StripDot(text) = short
    BY <1>1, <1>2, <1>3 DEF StripDot, short, lowShort, n
  <2> QED
    BY <2>6, <2>7 DEF low
<1>4. CASE ~ (n > 1 /\ text[n] = Empty)
  <2>1. StripDot(low) = low /\ StripDot(text) = text
    BY <1>1, <1>2, <1>4 DEF StripDot, n
  <2> QED
    BY <2>1 DEF low
<1> QED
  BY <1>3, <1>4

\* A dot that was added is stripped.
LEMMA StripDotAdded ==
    ASSUME NEW text \in Texts, text # << >>
    PROVE  StripDot(text \o <<Empty>>) = text
<1> DEFINE dotted == text \o <<Empty>>
<1>1. /\ dotted \in Texts /\ Len(dotted) = Len(text) + 1
      /\ dotted[Len(dotted)] = Empty
      /\ \A i \in 1 .. Len(text) : dotted[i] = text[i]
  BY TokensAssumption DEF Texts
<1>2. Len(text) \in Nat \ {0}
  BY DEF Texts
<1>3. StripDot(dotted) = SubSeq(dotted, 1, Len(text))
  BY <1>1, <1>2 DEF StripDot
<1>4. SubSeq(dotted, 1, Len(text)) = text
  BY <1>1, <1>2 DEF Texts
<1>5. QED
  BY <1>3, <1>4

\* Both halves of a concatenation can be cut out again.
LEMMA Halves ==
    ASSUME NEW S, NEW s \in Seq(S), NEW t \in Seq(S), s # << >>, t # << >>
    PROVE  /\ Len(s \o t) = Len(s) + Len(t)
           /\ SubSeq(s \o t, 1, Len(s)) = s
           /\ SubSeq(s \o t, Len(s) + 1, Len(s) + Len(t)) = t
<1>1. Len(s) \in Nat \ {0} /\ Len(t) \in Nat \ {0} /\ Len(s \o t) = Len(s) + Len(t)
  OBVIOUS
<1>2. SubSeq(s \o t, 1, Len(s)) = SubSeq(s, 1, Len(s))
  <2>1. 1 \in 1 .. Len(s) /\ Len(s) \in 1 .. Len(s)
    BY <1>1
  <2>2. QED
    BY <2>1, SubSeqOfConcat1, Zenon
<1>3. SubSeq(s \o t, Len(s) + 1, Len(s) + Len(t)) = SubSeq(t, 1, Len(t))
  <2>1. /\ Len(s) + 1 \in Len(s) + 1 .. Len(s) + Len(t)
        /\ Len(s) + Len(t) \in Len(s) + 1 .. Len(s) + Len(t)
        /\ Len(s) + 1 - Len(s) = 1 /\ Len(s) + Len(t) - Len(s) = Len(t)
    BY <1>1
  <2>2. SubSeq(s \o t, Len(s) + 1, Len(s) + Len(t))
           = SubSeq(t, Len(s) + 1 - Len(s), Len(s) + Len(t) - Len(s))
    BY <2>1, SubSeqOfConcat2
  <2>3. QED
    BY <2>1, <2>2
<1>4. QED
  BY <1>1, <1>2, <1>3, SubSeqFull

LEMMA LowercaseConcat ==
    ASSUME NEW s \in Texts, NEW t \in Texts
    PROVE  Lowercase(s \o t) = Lowercase(s) \o Lowercase(t)
<1> DEFINE l == Lowercase(s \o t)
           r == Lowercase(s) \o Lowercase(t)
<1>1. /\ Len(s) \in Nat /\ Len(t) \in Nat
      /\ s \o t \in Texts /\ Len(s \o t) = Len(s) + Len(t)
      /\ \A i \in 1 .. Len(s) + Len(t) :
            (s \o t)[i] = IF i <= Len(s) THEN s[i] ELSE t[i - Len(s)]
  BY ConcatProperties DEF Texts
<1>2. /\ l \in Texts /\ Len(l) = Len(s) + Len(t)
      /\ \A i \in 1 .. Len(s) + Len(t) : l[i] = Lower[(s \o t)[i]]
  BY <1>1, LowercaseType
<1>3. /\ Lowercase(s) \in Seq(Tokens) /\ Lowercase(t) \in Seq(Tokens)
      /\ Len(Lowercase(s)) = Len(s) /\ Len(Lowercase(t)) = Len(t)
      /\ \A i \in 1 .. Len(s) : Lowercase(s)[i] = Lower[s[i]]
      /\ \A i \in 1 .. Len(t) : Lowercase(t)[i] = Lower[t[i]]
  BY LowercaseType DEF Texts
<1>4. /\ r \in Texts /\ Len(r) = Len(s) + Len(t)
      /\ \A i \in 1 .. Len(s) + Len(t) :
            r[i] = IF i <= Len(s) THEN Lowercase(s)[i] ELSE Lowercase(t)[i - Len(s)]
  <2>1. /\ r \in Seq(Tokens) /\ Len(r) = Len(Lowercase(s)) + Len(Lowercase(t))
        /\ \A i \in 1 .. Len(Lowercase(s)) + Len(Lowercase(t)) :
              r[i] = IF i <= Len(Lowercase(s)) THEN Lowercase(s)[i]
                     ELSE Lowercase(t)[i - Len(Lowercase(s))]
    <3> DEFINE a == Lowercase(s)
               b == Lowercase(t)
    <3>1. a \in Seq(Tokens) /\ b \in Seq(Tokens)
      BY <1>3
    <3> HIDE DEF a, b
    <3>2. /\ a \o b \in Seq(Tokens) /\ Len(a \o b) = Len(a) + Len(b)
          /\ \A i \in 1 .. Len(a) + Len(b) :
                (a \o b)[i] = IF i <= Len(a) THEN a[i] ELSE b[i - Len(a)]
      BY <3>1, ConcatProperties
    <3> QED
      BY <3>2 DEF a, b
  <2>2. QED
    BY <1>3, <2>1 DEF Texts
<1>5. ASSUME NEW i \in 1 .. Len(l) PROVE l[i] = r[i]
  <2> HIDE DEF l, r
  <2>1. CASE i <= Len(s)
    <3>1. i \in 1 .. Len(s) /\ i \in 1 .. Len(s) + Len(t)
      BY <1>1, <1>2, <1>5, <2>1
    <3>2. l[i] = Lower[s[i]]
      BY <1>1, <1>2, <2>1, <3>1
    <3>3. r[i] = Lower[s[i]]
      BY <1>3, <1>4, <2>1, <3>1
    <3> QED
      BY <3>2, <3>3
  <2>2. CASE ~ i <= Len(s)
    <3>1. i - Len(s) \in 1 .. Len(t)
      BY <1>1, <1>2, <1>5, <2>2
    <3>2. i \in 1 .. Len(s) + Len(t)
      BY <1>2, <1>5
    <3>3. l[i] = Lower[t[i - Len(s)]]
      BY <1>1, <1>2, <2>2, <3>2
    <3>4. r[i] = Lower[t[i - Len(s)]]
      BY <1>3, <1>4, <2>2, <3>1, <3>2
    <3> QED
      BY <3>3, <3>4
  <2>3. QED
    BY <2>1, <2>2
<1>6. QED
  <2> HIDE DEF l, r
  <2>1. l = r
    BY <1>2, <1>4, <1>5, SeqEqual DEF Texts
  <2>2. QED
    BY <2>1 DEF l, r

\* A name below the apex, as Route53 has it.
LEMMA FqdnParts ==
    ASSUME NEW name \in Texts, name # << >>, name # <<At>>,
           NEW zone \in Texts, zone # << >>
    PROVE  LET low == Lowercase(StripDot(ToFqdn(name, zone)))
               apex == Lowercase(StripDot(zone))
           IN  low = Lowercase(name) \o apex /\ Below(low, apex)
<1> DEFINE z == StripDot(zone)
           l == Lowercase(name)
           apex == Lowercase(z)
<1>1. z \in Texts /\ z # << >> /\ name \o z \in Texts /\ name \o z # << >>
  <2>1. z \in Texts /\ z # << >>
    BY StripDotNonEmpty
  <2> QED
    BY <2>1 DEF Texts
<1>2. StripDot(ToFqdn(name, zone)) = name \o z
  BY <1>1, StripDotAdded DEF ToFqdn
<1>3. Lowercase(name \o z) = l \o apex
  BY <1>1, LowercaseConcat
<1>4. /\ l \in Texts /\ apex \in Texts /\ Len(l) \in Nat \ {0} /\ Len(apex) \in Nat
      /\ l # << >> /\ apex # << >>
  BY <1>1, LowercaseType DEF Texts
<1>5. /\ Len(l \o apex) = Len(l) + Len(apex)
      /\ SubSeq(l \o apex, Len(l) + 1, Len(l) + Len(apex)) = apex
  BY <1>4, Halves DEF Texts
<1>6. Below(l \o apex, apex)
  BY <1>4, <1>5 DEF Below
<1> QED
  BY <1>2, <1>3, <1>6

\* A name other than the apex comes back from Route53 in lower case.
THEOREM NameReadsBack ==
    ASSUME NEW name \in Texts, name # << >>, name # <<At>>,
           NEW zone \in Texts, zone # << >>
    PROVE  ToRelativeName(ToFqdn(name, zone), zone) = Lowercase(name)
<1> DEFINE l    == Lowercase(name)
           apex == Lowercase(StripDot(zone))
<1>1. Lowercase(StripDot(ToFqdn(name, zone))) = l \o apex /\ Below(l \o apex, apex)
  BY FqdnParts, Zenon
<1>2. /\ l \in Seq(Tokens) /\ apex \in Seq(Tokens) /\ l # << >> /\ apex # << >>
      /\ Len(l) \in Nat \ {0} /\ Len(apex) \in Nat
  <2>1. StripDot(zone) \in Texts /\ StripDot(zone) # << >>
    BY StripDotNonEmpty
  <2>2. \A text \in Texts : text # << >> =>
           Lowercase(text) \in Seq(Tokens) /\ Lowercase(text) # << >>
    BY LowercaseType DEF Texts
  <2> QED
    BY <2>1, <2>2
<1> HIDE DEF l, apex
<1>3. Len(l \o apex) = Len(l) + Len(apex) /\ SubSeq(l \o apex, 1, Len(l)) = l
  BY <1>2, Halves
<1>4. l \o apex # apex /\ Relative(l \o apex, apex) = l
  BY <1>2, <1>3 DEF Relative
<1> QED
  BY <1>1, <1>4 DEF ToRelativeName, l, apex

\* The apex comes back as "@".
THEOREM ApexReadsBack ==
    ASSUME NEW zone \in Texts, zone # << >>
    PROVE  ToRelativeName(ToFqdn(<<At>>, zone), zone) = <<At>>
<1>1. StripDot(zone) \in Texts /\ StripDot(zone) # << >>
  BY StripDotNonEmpty
<1>2. StripDot(ToFqdn(<<At>>, zone)) = StripDot(zone)
  BY <1>1, StripDotAdded DEF ToFqdn
<1>3. QED
  BY <1>2 DEF ToRelativeName, Relative

\* Whatever the capitals of the listed name, what is listed of a written name
\* is that name in lower case.
LEMMA WrittenNameIsListed ==
    ASSUME NEW name \in Texts, name # << >>, NEW zone \in Texts, zone # << >>,
           NEW fqdn, FqdnsEqual(fqdn, ToFqdn(name, zone))
    PROVE  ToRelativeName(fqdn, zone) = Lowercase(name)
<1> DEFINE apex == Lowercase(StripDot(zone))
           low  == Lowercase(StripDot(ToFqdn(name, zone)))
<1>1. StripDot(zone) # << >> /\ StripDot(zone) \in Texts
  BY StripDotNonEmpty
<1>2. Lowercase(StripDot(fqdn)) = low
  BY DEF FqdnsEqual
<1>3. low = apex \/ Below(low, apex)
  <2>1. CASE name = <<At>>
    <3>1. StripDot(ToFqdn(<<At>>, zone)) = StripDot(zone)
      BY <1>1, StripDotAdded DEF ToFqdn
    <3> QED
      BY <2>1, <3>1
  <2>2. CASE name # <<At>>
    BY <2>2, FqdnParts
  <2> QED
    BY <2>1, <2>2
<1>4. ToRelativeName(fqdn, zone) = ToRelativeName(ToFqdn(name, zone), zone)
  BY <1>2, <1>3 DEF ToRelativeName
<1>5. CASE name = <<At>>
  <2>1. Lowercase(name) = name
    <3>1. name \in Texts /\ Len(name) = 1 /\ name[1] = At
      BY <1>5
    <3>2. /\ Lowercase(name) \in Seq(Tokens) /\ Len(Lowercase(name)) = Len(name)
          /\ \A i \in 1 .. Len(name) : Lowercase(name)[i] = Lower[name[i]]
      BY LowercaseType DEF Texts
    <3>3. \A i \in 1 .. Len(name) : Lowercase(name)[i] = name[i]
      BY <3>1, <3>2, TokensAssumption
    <3> QED
      BY <3>2, <3>3, SeqEqual DEF Texts
  <2> QED
    BY <1>1, <1>4, <1>5, <2>1, ApexReadsBack
<1>6. CASE name # <<At>>
  BY <1>1, <1>4, <1>6, NameReadsBack
<1> QED
  BY <1>5, <1>6

\* What ends with a suffix is the rest and the suffix.
LEMMA BelowParts ==
    ASSUME NEW name \in Texts, NEW suffix \in Texts, Below(name, suffix)
    PROVE  LET rest == SubSeq(name, 1, Len(name) - Len(suffix))
           IN  rest \in Texts /\ rest # << >> /\ name = rest \o suffix
<1> DEFINE m == Len(name)
           k == Len(suffix)
           rest == SubSeq(name, 1, m - k)
<1>1. m \in Nat /\ k \in Nat /\ m > k /\ SubSeq(name, m - k + 1, m) = suffix
  BY DEF Below, Texts
<1>2. rest \in Texts /\ Len(rest) = m - k /\ \A i \in 1 .. m - k : rest[i] = name[i]
  BY <1>1 DEF Texts
<1>3. rest # << >>
  <2>1. Len(rest) # 0
    BY <1>1, <1>2
  <2> HIDE DEF rest
  <2> QED
    BY <2>1
<1>4. \A i \in 1 .. k : suffix[i] = name[m - k + i]
  BY <1>1 DEF Texts
<1> HIDE DEF rest
<1>5. /\ rest \o suffix \in Seq(Tokens) /\ Len(rest \o suffix) = m
      /\ \A i \in 1 .. m : (rest \o suffix)[i] = IF i <= m - k THEN rest[i]
                                                ELSE suffix[i - (m - k)]
  BY <1>1, <1>2 DEF Texts
<1>6. \A i \in 1 .. m : (rest \o suffix)[i] = name[i]
  <2> SUFFICES ASSUME NEW i \in 1 .. m PROVE (rest \o suffix)[i] = name[i]
    OBVIOUS
  <2>1. CASE i <= m - k
    BY <1>1, <1>2, <1>5, <2>1
  <2>2. CASE ~ (i <= m - k)
    <3>1. i - (m - k) \in 1 .. k /\ m - k + (i - (m - k)) = i
      BY <1>1, <2>2
    <3> QED
      BY <1>4, <1>5, <2>2, <3>1
  <2> QED
    BY <2>1, <2>2
<1>7. name = rest \o suffix
  BY <1>5, <1>6, SeqEqual DEF Texts
<1> QED
  BY <1>2, <1>3, <1>7 DEF rest

\* What is already in lower case stays as it is.
LEMMA LowercaseTwice ==
    ASSUME NEW text \in Texts, NEW rest \in Texts, NEW suffix \in Texts,
           Lowercase(text) = rest \o suffix
    PROVE  Lowercase(rest) = rest
<1>1. /\ Lowercase(text) \in Seq(Tokens) /\ Len(Lowercase(text)) = Len(text)
      /\ Len(text) \in Nat /\ text \in Seq(Tokens)
      /\ \A i \in 1 .. Len(text) : Lowercase(text)[i] = Lower[text[i]]
  BY LowercaseType DEF Texts
<1>2. /\ Len(rest) \in Nat /\ Len(suffix) \in Nat
      /\ Len(rest \o suffix) = Len(rest) + Len(suffix)
      /\ \A i \in 1 .. Len(rest) : (rest \o suffix)[i] = rest[i]
  BY DEF Texts
<1>3. \A i \in 1 .. Len(rest) : i \in 1 .. Len(text) /\ text[i] \in Tokens
  <2>1. \A i \in 1 .. Len(rest) : i \in 1 .. Len(text)
    BY <1>1, <1>2
  <2>2. \A i \in 1 .. Len(text) : text[i] \in Tokens
    BY <1>1
  <2> QED
    BY <2>1, <2>2
<1>4. \A i \in 1 .. Len(rest) : Lower[rest[i]] = rest[i]
  BY <1>1, <1>2, <1>3, TokensAssumption
<1>5. /\ Lowercase(rest) \in Seq(Tokens) /\ Len(Lowercase(rest)) = Len(rest)
      /\ \A i \in 1 .. Len(rest) : Lowercase(rest)[i] = Lower[rest[i]]
  BY LowercaseType DEF Texts
<1>6. \A i \in 1 .. Len(rest) : Lowercase(rest)[i] = rest[i]
  BY <1>4, <1>5
<1> QED
  BY <1>5, <1>6, SeqEqual DEF Texts

\* The name that is listed, sent again, means the record set it was listed
\* from: no two names of a zone are listed alike.
THEOREM ListedNameIsSent ==
    ASSUME NEW fqdn \in Texts, NEW zone \in Texts, zone # << >>,
           Lowercase(StripDot(fqdn)) # Lowercase(StripDot(zone)) =>
              /\ Below(Lowercase(StripDot(fqdn)), Lowercase(StripDot(zone)))
              /\ Lowercase(StripDot(fqdn)) # <<At>> \o Lowercase(StripDot(zone))
    PROVE  FqdnsEqual(fqdn, ToFqdn(ToRelativeName(fqdn, zone), zone))
<1> DEFINE name == Lowercase(StripDot(fqdn))
           z    == StripDot(zone)
           apex == Lowercase(z)
           rest == SubSeq(name, 1, Len(name) - Len(apex))
<1>1. z \in Texts /\ z # << >> /\ StripDot(fqdn) \in Texts
  BY StripDotType, StripDotNonEmpty
<1>2. name \in Texts /\ apex \in Texts
  BY <1>1, LowercaseType
<1>3. CASE name = apex
  <2>1. ToRelativeName(fqdn, zone) = <<At>>
    BY <1>3 DEF ToRelativeName, Relative
  <2>2. StripDot(ToFqdn(<<At>>, zone)) = z
    BY <1>1, StripDotAdded DEF ToFqdn
  <2> QED
    BY <1>3, <2>1, <2>2 DEF FqdnsEqual
<1>4. CASE name # apex
  <2>1. Below(name, apex) /\ name # <<At>> \o apex
    BY <1>4
  <2>2. ToRelativeName(fqdn, zone) = rest
    BY <1>4, <2>1 DEF ToRelativeName, Relative
  <2> HIDE DEF name, apex
  <2>3. rest \in Texts /\ rest # << >> /\ name = rest \o apex
    BY <1>2, <2>1, BelowParts
  <2> HIDE DEF rest
  <2>4. rest # <<At>>
    BY <2>1, <2>3
  <2>5. Lowercase(StripDot(ToFqdn(rest, zone))) = Lowercase(rest) \o apex
    BY <2>3, <2>4, FqdnParts DEF apex
  <2>6. Lowercase(rest) = rest
    BY <1>1, <1>2, <2>3, LowercaseTwice DEF name
  <2> QED
    BY <2>2, <2>3, <2>5, <2>6 DEF FqdnsEqual, name
<1> QED
  BY <1>3, <1>4

-----------------------------------------------------------------------------
(* Values.                                                                 *)

LEMMA QuotesStripped ==
    ASSUME NEW text \in Texts
    PROVE  StripTxtQuotes(<<Quote>> \o text \o <<Quote>>) = text
<1> DEFINE quoted == <<Quote>> \o text \o <<Quote>>
<1>1. /\ Len(text) \in Nat /\ quoted \in Texts /\ Len(quoted) = Len(text) + 2
      /\ quoted[1] = Quote /\ quoted[Len(text) + 2] = Quote
      /\ \A i \in 1 .. Len(text) : quoted[i + 1] = text[i]
  BY TokensAssumption DEF Texts
<1>2. StripTxtQuotes(quoted) = SubSeq(quoted, 2, Len(text) + 1)
  BY <1>1 DEF StripTxtQuotes, Quoted
<1>3. /\ SubSeq(quoted, 2, Len(text) + 1) \in Seq(Tokens)
      /\ Len(SubSeq(quoted, 2, Len(text) + 1)) = Len(text)
      /\ \A i \in 1 .. Len(text) : SubSeq(quoted, 2, Len(text) + 1)[i] = text[i]
  <2>1. \A i \in 2 .. Len(text) + 1 : quoted[i] \in Tokens
    <3> SUFFICES ASSUME NEW i \in 2 .. Len(text) + 1 PROVE quoted[i] \in Tokens
      OBVIOUS
    <3>1. i \in 1 .. Len(quoted)
      BY <1>1
    <3>2. QED
      BY <1>1, <3>1 DEF Texts
  <2>2. /\ 2 \in Int /\ Len(text) + 1 \in Int
        /\ (IF 2 <= Len(text) + 1 THEN Len(text) + 1 - 2 + 1 ELSE 0) = Len(text)
        /\ Len(text) + 1 - 2 + 1 = Len(text)
    BY <1>1
  <2>3. /\ SubSeq(quoted, 2, Len(text) + 1) \in Seq(Tokens)
        /\ Len(SubSeq(quoted, 2, Len(text) + 1)) =
              (IF 2 <= Len(text) + 1 THEN Len(text) + 1 - 2 + 1 ELSE 0)
        /\ \A i \in 1 .. Len(text) + 1 - 2 + 1 :
              SubSeq(quoted, 2, Len(text) + 1)[i] = quoted[2 + i - 1]
    <3> HIDE DEF quoted
    <3>1. QED
      BY <2>1, <2>2, SubSeqProperties
  <2>4. \A i \in 1 .. Len(text) : quoted[2 + i - 1] = text[i]
    BY <1>1
  <2>5. QED
    BY <2>2, <2>3, <2>4
<1>4. SubSeq(quoted, 2, Len(text) + 1) = text
  <2> HIDE DEF quoted
  <2>1. QED
    BY <1>3, SeqEqual DEF Texts
<1>5. QED
  BY <1>2, <1>4

\* Route53's quotes are the ones that are added.
LEMMA QuotesAdded ==
    ASSUME NEW text \in Texts, Quoted(text), ~ Quoted(StripTxtQuotes(text))
    PROVE  AddTxtQuotes(StripTxtQuotes(text)) = text
<1> DEFINE n == Len(text)
           inner == SubSeq(text, 2, n - 1)
           back == <<Quote>> \o inner \o <<Quote>>
<1>1. n \in Nat /\ n >= 2 /\ text[1] = Quote /\ text[n] = Quote /\ text \in Seq(Tokens)
  BY DEF Quoted, Texts
<1>2. StripTxtQuotes(text) = inner
  BY DEF StripTxtQuotes
<1>3. /\ inner \in Seq(Tokens) /\ Len(inner) = n - 2
      /\ \A i \in 1 .. n - 2 : inner[i] = text[i + 1]
  <2>1. \A i \in 2 .. n - 1 : text[i] \in Tokens
    <3>1. \A i \in 2 .. n - 1 : i \in 1 .. n
      BY <1>1
    <3>2. \A i \in 1 .. n : text[i] \in Tokens
      BY <1>1
    <3> QED
      BY <3>1, <3>2
  <2>2. /\ 2 \in Int /\ n - 1 \in Int
        /\ (IF 2 <= n - 1 THEN n - 1 - 2 + 1 ELSE 0) = n - 2
        /\ n - 1 - 2 + 1 = n - 2
    <3> HIDE DEF n
    <3> QED
      BY <1>1
  <2>3. /\ inner \in Seq(Tokens)
        /\ Len(inner) = (IF 2 <= n - 1 THEN n - 1 - 2 + 1 ELSE 0)
        /\ \A i \in 1 .. n - 1 - 2 + 1 : inner[i] = text[2 + i - 1]
    <3> HIDE DEF n
    <3> QED
      BY <1>1, <2>1, <2>2, SubSeqProperties
  <2>4. \A i \in 1 .. n - 2 : 2 + i - 1 = i + 1
    BY <1>1
  <2> QED
    BY <2>2, <2>3, <2>4
<1> HIDE DEF inner, n
<1>4. /\ back \in Seq(Tokens) /\ Len(back) = n /\ back[1] = Quote /\ back[n] = Quote
      /\ \A i \in 1 .. n - 2 : back[i + 1] = inner[i]
  <2>1. /\ Len(inner) \in Nat /\ back \in Texts /\ Len(back) = Len(inner) + 2
        /\ back[1] = Quote /\ back[Len(inner) + 2] = Quote
        /\ \A i \in 1 .. Len(inner) : back[i + 1] = inner[i]
    BY <1>3, TokensAssumption DEF Texts
  <2>2. Len(inner) + 2 = n
    BY <1>1, <1>3
  <2> QED
    BY <1>3, <2>1, <2>2 DEF Texts
<1> HIDE DEF back
<1>5. \A i \in 1 .. n : back[i] = text[i]
  <2> SUFFICES ASSUME NEW i \in 1 .. n, i # 1, i # n PROVE back[i] = text[i]
    BY <1>1, <1>4
  <2>1. i - 1 \in 1 .. n - 2 /\ i - 1 + 1 = i
    BY <1>1
  <2> QED
    BY <1>3, <1>4, <2>1
<1>6. back = text
  BY <1>1, <1>4, <1>5, SeqEqual DEF n
<1> QED
  BY <1>2, <1>6 DEF AddTxtQuotes, back

\* Whatever is sent is in quotes.
LEMMA AddedQuotes ==
    ASSUME NEW text \in Texts
    PROVE  Quoted(AddTxtQuotes(text))
<1>1. CASE Quoted(text)
  BY <1>1 DEF AddTxtQuotes
<1>2. CASE ~ Quoted(text)
  <2> DEFINE quoted == <<Quote>> \o text \o <<Quote>>
  <2>1. /\ Len(text) \in Nat /\ quoted \in Texts /\ Len(quoted) = Len(text) + 2
        /\ quoted[1] = Quote /\ quoted[Len(text) + 2] = Quote
    BY TokensAssumption DEF Texts
  <2> QED
    BY <1>2, <2>1 DEF AddTxtQuotes, Quoted
<1> QED
  BY <1>1, <1>2

\* Values stay values on their way.
LEMMA ValueTypes ==
    ASSUME NEW type, NEW v \in Values
    PROVE  WireValue(type, v) \in Values /\ ListedValue(type, v) \in Values
<1>1. v.text \in Seq(Tokens)
  BY DEF Values, Texts
<1>2. AddTxtQuotes(v.text) \in Seq(Tokens)
  BY <1>1, TokensAssumption DEF AddTxtQuotes
<1>3. StripTxtQuotes(v.text) \in Seq(Tokens)
  <2>1. CASE Quoted(v.text)
    <3> DEFINE n == Len(v.text)
    <3>1. n \in Nat /\ n >= 2
      BY <1>1, <2>1 DEF Quoted
    <3>2. SubSeq(v.text, 2, n - 1) \in Seq(Tokens)
      <4>1. \A i \in 2 .. n - 1 : i \in 1 .. n
        BY <3>1
      <4>2. \A i \in 2 .. n - 1 : v.text[i] \in Tokens
        BY <1>1, <4>1
      <4>3. 2 \in Int /\ n - 1 \in Int
        BY <3>1
      <4> HIDE DEF n
      <4> QED
        BY <4>2, <4>3, SubSeqProperties
    <3> QED
      BY <2>1, <3>2 DEF StripTxtQuotes
  <2> QED
    BY <1>1, <2>1 DEF StripTxtQuotes
<1> QED
  BY <1>2, <1>3 DEF WireValue, ListedValue, Values, Texts

\* A value comes back from Route53 as it was sent, unless it is a TXT value
\* with quotes of its own.
THEOREM ValueReadsBack ==
    ASSUME NEW type, NEW v \in Values, type = "TXT" => ~ Quoted(v.text)
    PROVE  ListedValue(type, WireValue(type, v)) = v
<1>1. CASE type # "TXT"
  BY <1>1 DEF ListedValue, WireValue
<1>2. CASE type = "TXT"
  <2>1. WireValue(type, v) = [v EXCEPT !.text = <<Quote>> \o v.text \o <<Quote>>]
    BY <1>2 DEF WireValue, AddTxtQuotes
  <2>2. ListedValue(type, WireValue(type, v)) = [v EXCEPT !.text = v.text]
    BY <1>2, <2>1, QuotesStripped DEF ListedValue, Values
  <2>3. QED
    BY <2>2 DEF Values
<1>3. QED
  BY <1>1, <1>2

\* A TXT value with quotes of its own comes back without them.
THEOREM QuotedIsStripped ==
    ASSUME NEW v \in Values, Quoted(v.text)
    PROVE  ListedValue("TXT", WireValue("TXT", v)) # v
<1>1. WireValue("TXT", v) = v
  BY DEF WireValue, AddTxtQuotes, Values
<1>2. ListedValue("TXT", v).text = SubSeq(v.text, 2, Len(v.text) - 1)
  BY DEF ListedValue, StripTxtQuotes, Values
<1>3. v.text \in Seq(Tokens) /\ Len(v.text) \in Nat /\ Len(v.text) >= 2
  BY DEF Values, Texts, Quoted
<1>4. Len(SubSeq(v.text, 2, Len(v.text) - 1)) = Len(v.text) - 2
  BY <1>3
<1>5. QED
  BY <1>1, <1>2, <1>3, <1>4

-----------------------------------------------------------------------------
(* Comparison.                                                             *)

LEMMA SameEverywhere ==
    ASSUME NEW type, NEW s, NEW t, SameValues(type, s, t), NEW v
    PROVE  Occurrences(type, s, v) = Occurrences(type, t, v)
<1>1. CASE v \in {Normalize(type, s[i]) : i \in DOMAIN s}
                 \union {Normalize(type, t[i]) : i \in DOMAIN t}
  BY <1>1 DEF SameValues
<1>2. CASE v \notin {Normalize(type, s[i]) : i \in DOMAIN s}
                    \union {Normalize(type, t[i]) : i \in DOMAIN t}
  <2>1. /\ {i \in DOMAIN s : Normalize(type, s[i]) = v} = {}
        /\ {i \in DOMAIN t : Normalize(type, t[i]) = v} = {}
    BY <1>2
  <2>2. QED
    BY <2>1 DEF Occurrences
<1>3. QED
  BY <1>1, <1>2

\* Where a value occurs.
Places(type, values, v) == {i \in DOMAIN values : Normalize(type, values[i]) = v}

\* The order of the values makes no difference.
THEOREM PermutedSame ==
    ASSUME NEW type, NEW s, NEW t, DOMAIN s = DOMAIN t, IsFiniteSet(DOMAIN t),
           NEW order \in Bijection(DOMAIN t, DOMAIN t),
           \A i \in DOMAIN t : Normalize(type, s[i]) = Normalize(type, t[order[i]])
    PROVE  SameValues(type, s, t)
<1> SUFFICES ASSUME NEW v PROVE Occurrences(type, s, v) = Occurrences(type, t, v)
  BY Zenon DEF SameValues
<1> DEFINE S == Places(type, s, v)
           T == Places(type, t, v)
           F == [i \in S |-> order[i]]
<1>1. /\ order \in [DOMAIN t -> DOMAIN t]
      /\ \A i, j \in DOMAIN t : order[i] = order[j] => i = j
      /\ \A j \in DOMAIN t : \E i \in DOMAIN t : order[i] = j
  BY Fun_BijectionProperties
<1>2. \A i \in DOMAIN t : i \in S <=> order[i] \in T
  BY <1>1 DEF Places
<1>3. S \subseteq DOMAIN t /\ T \subseteq DOMAIN t
  BY DEF Places
<1> HIDE DEF S, T
<1>4. F \in [S -> T] /\ \A i, j \in S : F[i] = F[j] => i = j
  BY <1>1, <1>2, <1>3
<1>5. \A j \in T : \E i \in S : F[i] = j
  BY <1>1, <1>2, <1>3
<1> HIDE DEF F
<1>6. F \in Bijection(S, T)
  BY <1>4, <1>5, Fun_IsBij
<1>7. ExistsBijection(S, T)
  BY <1>6, Fun_ExistsBij
<1>8. IsFiniteSet(S)
  BY <1>3, FS_Subset
<1>9. Cardinality(S) = Cardinality(T)
  BY <1>7, <1>8, FS_Bijection
<1> QED
  BY <1>9 DEF Occurrences, S, T, Places

\* Values that compare as the same are the same in some order.
THEOREM SameOrder ==
    ASSUME NEW type, NEW V, NEW s \in Seq(V), NEW t \in Seq(V), SameValues(type, s, t)
    PROVE  /\ DOMAIN s = DOMAIN t
           /\ \E order \in Bijection(DOMAIN t, DOMAIN t) : \A i \in DOMAIN t :
                 Normalize(type, s[i]) = Normalize(type, t[order[i]])
<1> DEFINE value(i) == Normalize(type, s[i])
           S(v) == Places(type, s, v)
           T(v) == Places(type, t, v)
           G(v) == CHOOSE g : g \in Bijection(S(v), T(v))
           order == [i \in DOMAIN s |-> G(value(i))[i]]
<1>1. /\ DOMAIN s = 1 .. Len(s) /\ Len(s) \in Nat /\ IsFiniteSet(DOMAIN s)
      /\ DOMAIN t = 1 .. Len(t) /\ Len(t) \in Nat /\ IsFiniteSet(DOMAIN t)
      /\ Cardinality(DOMAIN s) = Len(s) /\ Cardinality(DOMAIN t) = Len(t)
  <2>1. /\ DOMAIN s = 1 .. Len(s) /\ Len(s) \in Nat
        /\ DOMAIN t = 1 .. Len(t) /\ Len(t) \in Nat
    OBVIOUS
  <2>2. ASSUME NEW n \in Nat PROVE IsFiniteSet(1 .. n) /\ Cardinality(1 .. n) = n
    <3>1. /\ IsFiniteSet(1 .. n)
          /\ Cardinality(1 .. n) = IF 1 > n THEN 0 ELSE n - 1 + 1
      BY FS_Interval
    <3> QED
      BY <3>1
  <2> QED
    BY <2>1, <2>2
<1>2. \A v : S(v) \subseteq DOMAIN s /\ T(v) \subseteq DOMAIN t
  BY DEF Places
<1>3. \A v : IsFiniteSet(S(v)) /\ IsFiniteSet(T(v))
  BY <1>1, <1>2, FS_Subset
<1>4. \A v : Cardinality(S(v)) = Cardinality(T(v))
  <2>1. \A v : Occurrences(type, s, v) = Occurrences(type, t, v)
    BY SameEverywhere
  <2> QED
    BY <2>1 DEF Occurrences, Places
<1>5. ASSUME NEW v
      PROVE  /\ G(v) \in [S(v) -> T(v)]
             /\ \A i, j \in S(v) : G(v)[i] = G(v)[j] => i = j
             /\ \A j \in T(v) : \E i \in S(v) : G(v)[i] = j
  <2> HIDE DEF S, T
  <2>1. ExistsBijection(S(v), T(v))
    BY <1>3, <1>4, FS_SameCardinalityBij
  <2>2. G(v) \in Bijection(S(v), T(v))
    BY <2>1, Fun_ExistsBij
  <2> HIDE DEF G
  <2> QED
    BY <2>2, Fun_BijectionProperties
<1>6. /\ \A i \in DOMAIN s : i \in S(value(i))
      /\ \A v, i : i \in S(v) => i \in DOMAIN s /\ value(i) = v
      /\ \A v, j : j \in T(v) => j \in DOMAIN t /\ Normalize(type, t[j]) = v
      /\ \A j \in DOMAIN t : j \in T(Normalize(type, t[j]))
  BY DEF Places
<1> HIDE DEF S, T, G, value
<1>7. \A i \in DOMAIN s : order[i] \in T(value(i)) /\ order[i] = G(value(i))[i]
  BY <1>5, <1>6
<1>8. order \in [DOMAIN s -> DOMAIN t]
  BY <1>2, <1>7
<1> HIDE DEF order
<1>9. \A i \in DOMAIN s : Normalize(type, t[order[i]]) = value(i)
  BY <1>6, <1>7
<1>10. ASSUME NEW i \in DOMAIN s, NEW j \in DOMAIN s, order[i] = order[j] PROVE i = j
  <2>1. value(i) = value(j)
    BY <1>9, <1>10
  <2>2. i \in S(value(i)) /\ j \in S(value(i)) /\ G(value(i))[i] = G(value(i))[j]
    BY <1>6, <1>7, <1>10, <2>1
  <2> QED
    BY <1>5, <2>2
<1>11. ASSUME NEW j \in DOMAIN t PROVE \E i \in DOMAIN s : order[i] = j
  <2> DEFINE v == Normalize(type, t[j])
  <2> HIDE DEF v
  <2>1. j \in T(v)
    BY <1>6 DEF v
  <2>2. PICK i \in S(v) : G(v)[i] = j
    BY <1>5, <2>1
  <2>3. i \in DOMAIN s /\ value(i) = v
    BY <1>6
  <2> QED
    BY <1>7, <2>2, <2>3
<1>12. order \in Bijection(DOMAIN s, DOMAIN t)
  BY <1>8, <1>10, <1>11, Fun_IsBij
<1>13. Len(s) = Len(t)
  <2>1. ExistsBijection(DOMAIN s, DOMAIN t)
    BY <1>12, Fun_ExistsBij
  <2> QED
    BY <1>1, <2>1, FS_Bijection
<1>14. DOMAIN s = DOMAIN t
  BY <1>1, <1>13
<1> QED
  BY <1>9, <1>12, <1>14 DEF value

\* Values of one type that compare as the same differ at most in the capitals
\* and the last dot of a host name.
LEMMA SameNormalized ==
    ASSUME NEW type, NEW v \in Values, NEW w \in Values,
           Normalize(type, v) = Normalize(type, w)
    PROVE  IF type = "TXT" THEN v = w
           ELSE v.prio = w.prio /\ FqdnsEqual(v.text, w.text)
<1>1. v.prio = w.prio
  <2>1. \A u \in Values : Normalize(type, u).prio = u.prio
    BY DEF Normalize, Values
  <2> QED
    BY <2>1
<1>2. ParsesAsMx(v) <=> ParsesAsMx(w)
  BY <1>1 DEF ParsesAsMx
<1>3. CASE type = "TXT" \/ (type = "MX" /\ ~ ParsesAsMx(v))
  BY <1>2, <1>3 DEF Normalize, FqdnsEqual
<1>4. CASE ~ (type = "TXT" \/ (type = "MX" /\ ~ ParsesAsMx(v)))
  <2>1. /\ Normalize(type, v) = [v EXCEPT !.text = NormalizeRdata(v.text)]
        /\ Normalize(type, w) = [w EXCEPT !.text = NormalizeRdata(w.text)]
    BY <1>2, <1>4 DEF Normalize
  <2>2. NormalizeRdata(v.text) = NormalizeRdata(w.text)
    BY <2>1 DEF Values
  <2>3. v.text \in Texts /\ w.text \in Texts
    BY DEF Values
  <2>4. FqdnsEqual(v.text, w.text)
    BY <2>2, <2>3, StripLowercase DEF NormalizeRdata, FqdnsEqual
  <2> QED
    BY <1>1, <1>4, <2>4
<1> QED
  BY <1>3, <1>4

\* "No difference" is an equivalence: it does not matter which of two records
\* is called desired, and records without a difference to a third one have
\* none between them.
THEOREM DiffIsEquivalence ==
    /\ \A a : ~ Diff(a, a)
    /\ \A a, b : ~ Diff(a, b) => ~ Diff(b, a)
    /\ \A a, b, c : ~ Diff(a, b) /\ ~ Diff(b, c) => ~ Diff(a, c)
<1>1. ASSUME NEW a PROVE ~ Diff(a, a)
  BY DEF Diff, SameValues
<1>2. ASSUME NEW a, NEW b, ~ Diff(a, b) PROVE ~ Diff(b, a)
  <2>1. a.type = b.type
    BY <1>2 DEF Diff, RecordKey
  <2>2. SameValues(a.type, b.values, a.values)
    BY <1>2, SameEverywhere DEF Diff, SameValues
  <2>3. QED
    BY <1>2, <2>1, <2>2 DEF Diff
<1>3. ASSUME NEW a, NEW b, NEW c, ~ Diff(a, b), ~ Diff(b, c) PROVE ~ Diff(a, c)
  <2>1. a.type = b.type
    BY <1>3 DEF Diff, RecordKey
  <2>2. SameValues(a.type, a.values, b.values) /\ SameValues(a.type, b.values, c.values)
    BY <1>3, <2>1 DEF Diff
  <2>3. SameValues(a.type, a.values, c.values)
    BY <2>2, SameEverywhere DEF SameValues
  <2>4. QED
    BY <1>3, <2>3 DEF Diff
<1>4. QED
  BY <1>1, <1>2, <1>3

\* The record of the program that a listing makes of r once r is written.
ReadBack(r, zone) ==
    [name |-> ToRelativeName(ToFqdn(r.name, zone), zone), type |-> r.type,
     ttl |-> r.ttl,
     values |-> [i \in DOMAIN r.values |->
                    ListedValue(r.type, WireValue(r.type, r.values[i]))]]

\* A record that has been written is found under its key and shows no
\* difference, unless its name has capitals or it is a TXT record with quotes
\* of its own.
THEOREM WrittenIsInSync ==
    ASSUME NEW r \in [name : Texts, type : SupportedTypes, ttl : Nat, values : Seq(Values)],
           r.name # << >>, Lowercase(r.name) = r.name,
           r.type = "TXT" => \A i \in DOMAIN r.values : ~ Quoted(r.values[i].text),
           NEW zone \in Texts, zone # << >>
    PROVE  ~ Diff(ReadBack(r, zone), r)
<1>1. ToRelativeName(ToFqdn(r.name, zone), zone) = r.name
  BY NameReadsBack, ApexReadsBack
<1>2. \A i \in DOMAIN r.values :
         ListedValue(r.type, WireValue(r.type, r.values[i])) = r.values[i]
  <2>1. \A i \in DOMAIN r.values : r.values[i] \in Values
    OBVIOUS
  <2>2. QED
    BY <2>1, ValueReadsBack
<1>3. ReadBack(r, zone).values = r.values
  BY <1>2 DEF ReadBack
<1>4. QED
  BY <1>1, <1>3 DEF ReadBack, Diff, RecordKey, SameValues

=============================================================================
