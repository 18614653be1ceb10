-------------------------- MODULE TenancyConfigProofs --------------------------
(***************************************************************************)
(* What the builders accept and what becomes of it, for names of any        *)
(* length, any NameLimit and any number of calls.                           *)
(***************************************************************************)
EXTENDS TenancyConfig, SequenceTheorems, TLAPS

-----------------------------------------------------------------------------
(* Names.                                                                   *)

(* The five classes of characters are told apart.                           *)
LEMMA CharacterFacts ==
    /\ Letter # Dot /\ Upper # Dot /\ Digit # Dot
    /\ Letter # Other /\ Upper # Other /\ Digit # Other
    /\ {Letter, Upper, Digit} \subseteq Characters /\ Dot \in Characters
BY DEF Letter, Upper, Digit, Dot, Other, Characters

(* In small letters a name is a name of the same length.                    *)
LEMMA FoldFacts ==
    ASSUME NEW s \in Seq(Characters)
    PROVE  /\ Fold(s) \in Seq(Characters) /\ Len(Fold(s)) = Len(s)
           /\ \A i \in 1 .. Len(s) : Fold(s)[i] = IF s[i] = Upper THEN Letter ELSE s[i]
<1>1. Len(s) \in Nat /\ DOMAIN s = 1 .. Len(s) /\ \A i \in 1 .. Len(s) : s[i] \in Characters
  OBVIOUS
<1> DEFINE f == [i \in 1 .. Len(s) |-> IF s[i] = Upper THEN Letter ELSE s[i]]
<1>2. Fold(s) = f
  BY <1>1 DEF Fold
<1>3. \A i \in 1 .. Len(s) : f[i] \in Characters
  BY <1>1, CharacterFacts
<1>4. f \in Seq(Characters) /\ Len(f) = Len(s)
  BY <1>1, <1>3
<1> QED
  BY <1>2, <1>4

(* An identifier is a word, unless reserved, that the server does not cut.  *)
LEMMA IdentifierFacts ==
    ASSUME NEW n \in Seq(Characters), validate_identifier(n)
    PROVE  /\ Word(n) \/ Fold(n) \in Reserved
           /\ Cut(n) = n /\ Cut(Fold(n)) = Fold(n)
           /\ Dot \notin Range(n) /\ Other \notin Range(n)
<1>1. /\ Len(n) \in Nat /\ Len(n) <= NameLimit /\ n # <<>> /\ n[1] \in {Letter, Upper}
      /\ \A i \in 2 .. Len(n) : n[i] \in {Letter, Upper, Digit}
  BY DEF validate_identifier
<1>2. \A i \in 1 .. Len(n) : n[i] \in {Letter, Upper, Digit}
  <2> SUFFICES ASSUME NEW i \in 1 .. Len(n) PROVE n[i] \in {Letter, Upper, Digit}
    OBVIOUS
  <2>1. i = 1 \/ i \in 2 .. Len(n)
    BY <1>1
  <2> QED
    BY <1>1, <2>1
<1>3. Range(n) \subseteq {Letter, Upper, Digit}
  BY <1>2 DEF Range
<1>4. ASSUME NEW s \in Seq(Characters), Len(s) <= NameLimit PROVE Cut(s) = s
  <2>1. Cut(s) = SubSeq(s, 1, Len(s))
    BY <1>4 DEF Cut
  <2> QED
    BY <2>1
<1>5. Fold(n) \in Seq(Characters) /\ Len(Fold(n)) = Len(n)
  BY FoldFacts
<1> QED
  BY <1>1, <1>3, <1>4, <1>5, CharacterFacts DEF Word

(* In quotes an identifier is itself.                                       *)
LEMMA SameQuoted ==
    ASSUME NEW n \in Identifier
    PROVE  Quoted(n) = n
BY IdentifierFacts DEF Identifier, Quoted

(* Without them it is itself, in small letters, or a reserved word.         *)
LEMMA SameWord ==
    ASSUME NEW n \in Identifier
    PROVE  Unambiguous(n)
<1>1. /\ n \in Seq(Characters)
      /\ Word(n) \/ Fold(n) \in Reserved
      /\ Cut(Fold(n)) = Fold(n) /\ Dot \notin Range(n)
  BY IdentifierFacts DEF Identifier
<1>2. CASE Word(n)
  BY <1>1, <1>2 DEF Bare, Unambiguous
<1>3. CASE ~Word(n)
  <2>1. Dots(n) = {}
    BY <1>1 DEF Dots, Range
  <2>2. Bare(n) = NoName
    BY <1>3, <2>1 DEF Bare
  <2> QED
    BY <1>1, <1>3, <2>2 DEF Unambiguous, Pieces
<1> QED
  BY <1>2, <1>3

(* A name is what is before a dot, the dot and what is after it.            *)
LEMMA Halves ==
    ASSUME NEW s \in Seq(Characters), NEW d \in DOMAIN s, s[d] = Dot
    PROVE  /\ Before(s, d) \in Seq(Characters) /\ After(s, d) \in Seq(Characters)
           /\ Before(s, d) \o <<Dot>> \o After(s, d) = s
<1> DEFINE n == Len(s)
           p == Before(s, d)
           q == After(s, d)
           dot == <<Dot>>
<1>1. n \in Nat /\ d \in 1 .. n /\ DOMAIN s = 1 .. n
  OBVIOUS
<1>2. /\ p \in Seq(Characters) /\ Len(p) = d - 1
      /\ \A i \in 1 .. d - 1 : p[i] = s[i]
  BY <1>1 DEF Before
<1>3. /\ q \in Seq(Characters) /\ Len(q) = n - d
      /\ \A i \in 1 .. n - d : q[i] = s[d + i]
  BY <1>1 DEF After
<1>4. dot \in Seq(Characters) /\ Len(dot) = 1 /\ dot[1] = Dot
  BY CharacterFacts
<1> DEFINE pd == p \o dot
           all == pd \o q
<1> HIDE DEF p, q, dot
<1>5. /\ pd \in Seq(Characters) /\ Len(pd) = d
      /\ \A i \in 1 .. d : pd[i] = s[i]
  <2>1. /\ pd \in Seq(Characters) /\ Len(pd) = Len(p) + Len(dot)
        /\ \A i \in 1 .. Len(p) + Len(dot) :
              pd[i] = IF i <= Len(p) THEN p[i] ELSE dot[i - Len(p)]
    BY <1>2, <1>4, ConcatProperties
  <2>2. Len(p) + Len(dot) = d
    BY <1>1, <1>2, <1>4
  <2> HIDE DEF pd
  <2>3. ASSUME NEW i \in 1 .. d PROVE pd[i] = s[i]
    <3>1. CASE i = d
      <4>1. ~(i <= Len(p)) /\ i - Len(p) = 1
        BY <1>1, <1>2, <3>1
      <4> QED
        BY <1>4, <2>1, <2>2, <3>1, <4>1
    <3>2. CASE i # d
      <4>1. i \in 1 .. d - 1 /\ i <= Len(p)
        BY <1>1, <1>2, <3>2
      <4> QED
        BY <1>2, <2>1, <2>2, <4>1
    <3> QED
      BY <3>1, <3>2
  <2> QED
    BY <2>1, <2>2, <2>3
<1> HIDE DEF pd
<1>6. /\ all \in Seq(Characters) /\ Len(all) = n
      /\ \A i \in 1 .. n : all[i] = s[i]
  <2>1. /\ all \in Seq(Characters) /\ Len(all) = Len(pd) + Len(q)
        /\ \A i \in 1 .. Len(pd) + Len(q) :
              all[i] = IF i <= Len(pd) THEN pd[i] ELSE q[i - Len(pd)]
    BY <1>3, <1>5, ConcatProperties
  <2>2. Len(pd) + Len(q) = n
    BY <1>1, <1>3, <1>5
  <2> HIDE DEF all
  <2>3. ASSUME NEW i \in 1 .. n PROVE all[i] = s[i]
    <3>1. CASE i <= d
      <4>1. i \in 1 .. d /\ i <= Len(pd)
        BY <1>1, <1>5, <3>1
      <4> QED
        BY <1>5, <2>1, <2>2, <4>1
    <3>2. CASE ~(i <= d)
      <4>1. ~(i <= Len(pd)) /\ i - d \in 1 .. n - d /\ d + (i - d) = i
        BY <1>1, <1>5, <3>2
      <4> QED
        BY <1>3, <1>5, <2>1, <2>2, <4>1
    <3> QED
      BY <3>1, <3>2
  <2> QED
    BY <2>1, <2>2, <2>3
<1> HIDE DEF all
<1>7. all = s
  BY <1>1, <1>6
<1> QED
  BY <1>2, <1>3, <1>7 DEF all, pd, dot, p, q

(* Capitals are read as small letters one by one, and no dot is one.        *)
LEMMA FoldJoins ==
    ASSUME NEW p \in Seq(Characters), NEW q \in Seq(Characters)
    PROVE  Fold(p \o <<Dot>> \o q) = Fold(p) \o <<Dot>> \o Fold(q)
<1> DEFINE dot == <<Dot>>
<1>1. dot \in Seq(Characters) /\ Fold(dot) = dot
  <2>1. dot \in Seq(Characters) /\ Len(dot) = 1 /\ dot[1] = Dot
    BY CharacterFacts
  <2> HIDE DEF dot
  <2>2. /\ Fold(dot) \in Seq(Characters) /\ Len(Fold(dot)) = 1 /\ Fold(dot)[1] = Dot
    BY <2>1, FoldFacts, CharacterFacts
  <2> QED
    BY <2>1, <2>2
<1> HIDE DEF dot
<1>2. ASSUME NEW s \in Seq(Characters), NEW t \in Seq(Characters)
      PROVE  s \o t \in Seq(Characters) /\ Fold(s \o t) = Fold(s) \o Fold(t)
  <2> DEFINE st == s \o t
             ff == Fold(s) \o Fold(t)
  <2>1. /\ st \in Seq(Characters) /\ Len(st) = Len(s) + Len(t)
        /\ \A i \in 1 .. Len(s) + Len(t) : st[i] = IF i <= Len(s) THEN s[i] ELSE t[i - Len(s)]
    BY ConcatProperties
  <2>2. /\ Fold(s) \in Seq(Characters) /\ Len(Fold(s)) = Len(s)
        /\ \A i \in 1 .. Len(s) : Fold(s)[i] = IF s[i] = Upper THEN Letter ELSE s[i]
    BY FoldFacts
  <2>3. /\ Fold(t) \in Seq(Characters) /\ Len(Fold(t)) = Len(t)
        /\ \A i \in 1 .. Len(t) : Fold(t)[i] = IF t[i] = Upper THEN Letter ELSE t[i]
    BY FoldFacts
  <2>4. /\ ff \in Seq(Characters) /\ Len(ff) = Len(s) + Len(t)
        /\ \A i \in 1 .. Len(s) + Len(t) :
              ff[i] = IF i <= Len(s) THEN Fold(s)[i] ELSE Fold(t)[i - Len(s)]
    <3> DEFINE fs == Fold(s)
               ft == Fold(t)
    <3>1. fs \in Seq(Characters) /\ Len(fs) = Len(s) /\ ft \in Seq(Characters) /\ Len(ft) = Len(t)
      BY <2>2, <2>3
    <3> HIDE DEF fs, ft
    <3>2. /\ fs \o ft \in Seq(Characters) /\ Len(fs \o ft) = Len(fs) + Len(ft)
          /\ \A i \in 1 .. Len(fs) + Len(ft) :
                (fs \o ft)[i] = IF i <= Len(fs) THEN fs[i] ELSE ft[i - Len(fs)]
      BY <3>1, ConcatProperties
    <3> QED
      BY <3>1, <3>2 DEF fs, ft
  <2> HIDE DEF st, ff
  <2>5. /\ Fold(st) \in Seq(Characters) /\ Len(Fold(st)) = Len(st)
        /\ \A i \in 1 .. Len(st) : Fold(st)[i] = IF st[i] = Upper THEN Letter ELSE st[i]
    BY <2>1, FoldFacts
  <2>6. ASSUME NEW i \in 1 .. Len(s) + Len(t) PROVE Fold(st)[i] = ff[i]
    <3>1. CASE i <= Len(s)
      <4>1. i \in 1 .. Len(s)
        BY <3>1
      <4> QED
        BY <2>1, <2>2, <2>4, <2>5, <3>1, <4>1
    <3>2. CASE ~(i <= Len(s))
      <4>1. i - Len(s) \in 1 .. Len(t)
        BY <3>2
      <4> QED
        BY <2>1, <2>3, <2>4, <2>5, <3>2, <4>1
    <3> QED
      BY <3>1, <3>2
  <2>7. Fold(st) = ff
    BY <2>1, <2>4, <2>5, <2>6
  <2> QED
    BY <2>1, <2>7 DEF st, ff
<1>3. /\ p \o dot \in Seq(Characters)
      /\ Fold(p \o dot) = Fold(p) \o dot
  <2>1. p \o dot \in Seq(Characters) /\ Fold(p \o dot) = Fold(p) \o Fold(dot)
    BY <1>1, <1>2
  <2> QED
    BY <1>1, <2>1
<1>4. Fold((p \o dot) \o q) = Fold(p \o dot) \o Fold(q)
  BY <1>2, <1>3
<1> QED
  BY <1>3, <1>4 DEF dot

(* A GUC name means the same in RESET as it does as a parameter, unless a   *)
(* part of it is a reserved word.                                           *)
LEMMA SameGuc ==
    ASSUME NEW s \in GucName
    PROVE  Unambiguous(s)
<1>1. PICK d \in DOMAIN s :
         /\ Dots(s) = {d}
         /\ validate_identifier(Before(s, d)) /\ validate_identifier(After(s, d))
  BY DEF GucName, validate_guc
<1>2. s \in Seq(Characters) /\ s[d] = Dot
  BY <1>1 DEF GucName, Dots
<1> DEFINE p == Before(s, d)
           q == After(s, d)
<1>3. p \in Seq(Characters) /\ q \in Seq(Characters) /\ p \o <<Dot>> \o q = s
  BY <1>2, Halves
<1>4. /\ Word(p) \/ Fold(p) \in Reserved
      /\ Word(q) \/ Fold(q) \in Reserved
      /\ Cut(Fold(p)) = Fold(p) /\ Cut(Fold(q)) = Fold(q)
  <2> HIDE DEF p, q
  <2> QED
    BY <1>1, <1>3, IdentifierFacts DEF p, q
<1>5. ~Word(s)
  BY <1>2, CharacterFacts DEF Word, Range
<1>6. CASE Word(p) /\ Word(q)
  <2>1. (CHOOSE e \in Dots(s) : Word(Before(s, e)) /\ Word(After(s, e))) = d
    BY <1>1, <1>6
  <2>2. Bare(s) = Fold(p) \o <<Dot>> \o Fold(q)
    BY <1>1, <1>4, <1>5, <1>6, <2>1 DEF Bare
  <2>3. Fold(p) \o <<Dot>> \o Fold(q) = Fold(p \o <<Dot>> \o q)
    <3> HIDE DEF p, q
    <3> QED
      BY <1>3, FoldJoins
  <2> QED
    BY <1>3, <2>2, <2>3 DEF Unambiguous
<1>7. CASE ~(Word(p) /\ Word(q))
  <2>1. Bare(s) = NoName
    BY <1>1, <1>5, <1>7 DEF Bare
  <2>2. p \in Pieces(s) /\ q \in Pieces(s)
    BY <1>1 DEF Pieces
  <2> QED
    BY <1>4, <1>7, <2>1, <2>2 DEF Unambiguous
<1> QED
  BY <1>6, <1>7

(* The names of the default configuration would pass validation.            *)
LEMMA DefaultIsValid ==
    /\ <<Letter>> \in Identifier
    /\ Default.guc \in GucName
    /\ Default \in [guc : GucName, schemas : Seq(Identifier) \ {<<>>},
                    tenant_column : Identifier]
<1>1. <<Letter>> \in Identifier
  <2> DEFINE n == <<Letter>>
  <2>1. n \in Seq(Characters) /\ Len(n) = 1 /\ n[1] = Letter /\ n # <<>>
    BY CharacterFacts
  <2> HIDE DEF n
  <2>2. validate_identifier(n)
    BY <2>1, ConfigAssumption DEF validate_identifier
  <2> QED
    BY <2>1, <2>2 DEF Identifier, n
<1>2. Default.guc \in GucName
  <2> DEFINE s == <<Letter, Dot, Letter>>
  <2>1. /\ s \in Seq(Characters) /\ Len(s) = 3
        /\ s[1] = Letter /\ s[2] = Dot /\ s[3] = Letter
    BY CharacterFacts
  <2> HIDE DEF s
  <2>2. Dots(s) = {2} /\ 2 \in DOMAIN s
    BY <2>1, CharacterFacts DEF Dots
  <2>3. ASSUME NEW p \in Seq(Characters), Len(p) = 1, p[1] = Letter
        PROVE  p = <<Letter>>
    BY <2>3
  <2>4. Before(s, 2) = <<Letter>>
    <3>1. Before(s, 2) \in Seq(Characters) /\ Len(Before(s, 2)) = 1
          /\ Before(s, 2)[1] = Letter
      BY <2>1 DEF Before
    <3> QED
      BY <2>3, <3>1
  <2>6. After(s, 2) = <<Letter>>
    <3>1. After(s, 2) \in Seq(Characters) /\ Len(After(s, 2)) = 1
          /\ After(s, 2)[1] = Letter
      BY <2>1 DEF After
    <3> QED
      BY <2>3, <3>1
  <2>5. validate_guc(s)
    BY <1>1, <2>2, <2>4, <2>6 DEF validate_guc, Identifier
  <2> QED
    BY <2>1, <2>5 DEF GucName, s, Default
<1>3. << <<Letter>> >> \in Seq(Identifier) \ {<<>>}
  <2> DEFINE n == <<Letter>>
  <2> HIDE DEF n
  <2>1. n \in Identifier
    BY <1>1 DEF n
  <2>2. <<n>> \in Seq(Identifier) /\ <<n>> # <<>>
    BY <2>1
  <2> QED
    BY <2>2 DEF n
<1> QED
  BY <1>1, <1>2, <1>3 DEF Default

-----------------------------------------------------------------------------
(* The builders.                                                            *)

Config == [guc : GucName, schemas : Seq(Identifier) \ {<<>>}, tenant_column : Identifier]
Template == [schema : Identifier, table : Identifier, policy_name : Identifier,
             cast : Identifier \cup {NoName}]

(* What is built is valid.                                                  *)
Built ==
    /\ tenancy \in Config
    /\ template # NoTemplate => template \in Template
    /\ outcome \in {"ok", "rejected"} /\ calls \in 0 .. MaxCalls

(* A method that takes the Tenancy: what it rejects changes nothing.        *)
LEMMA ConfigureBuilt ==
    ASSUME Built, NEW ok \in BOOLEAN, NEW t, ok => t \in Config, Configure(ok, t)
    PROVE  Built'
<1>1. tenancy' \in Config /\ template' = NoTemplate
  BY DEF Configure, Built
<1>2. outcome' \in {"ok", "rejected"} /\ calls' \in 0 .. MaxCalls
  BY ConfigAssumption DEF Configure, Call, Built
<1> QED
  BY <1>1, <1>2 DEF Built, NoTemplate, Template, Config

(* The methods of Tenancy.                                                  *)
LEMMA BuilderBuilt ==
    ASSUME Built,
           \/ \E n \in GucNames : guc(n)
           \/ \E n \in Names : schemas(<<n>>) \/ tenant_column(n)
           \/ \E ns \in {<<>>} \cup Names \X Names : schemas(ns)
    PROVE  Built'
<1>1. ASSUME NEW n \in GucNames, guc(n) PROVE Built'
  <2> DEFINE ok == validate_guc(n)
             t == [tenancy EXCEPT !.guc = n]
  <2>1. ok \in BOOLEAN /\ Configure(ok, t)
    BY <1>1 DEF guc, validate_guc
  <2>2. ok => t \in Config
    BY NamesAssumption DEF GucName, Built, Config
  <2> HIDE DEF ok, t
  <2> QED
    BY <2>1, <2>2, ConfigureBuilt
<1>2. ASSUME NEW n \in Names, tenant_column(n) PROVE Built'
  <2> DEFINE ok == validate_identifier(n)
             t == [tenancy EXCEPT !.tenant_column = n]
  <2>1. ok \in BOOLEAN /\ Configure(ok, t)
    BY <1>2 DEF tenant_column, validate_identifier
  <2>2. ok => t \in Config
    BY NamesAssumption DEF Identifier, Built, Config
  <2> HIDE DEF ok, t
  <2> QED
    BY <2>1, <2>2, ConfigureBuilt
<1>3. ASSUME NEW ns \in Seq(Names), schemas(ns) PROVE Built'
  <2> DEFINE ok == ns # <<>> /\ \A i \in DOMAIN ns : validate_identifier(ns[i])
             t == [tenancy EXCEPT !.schemas = ns]
  <2>1. ok \in BOOLEAN /\ Configure(ok, t)
    BY <1>3 DEF schemas
  <2>2. ok => t \in Config
    <3> SUFFICES ASSUME ok PROVE t \in Config
      OBVIOUS
    <3>1. \A i \in 1 .. Len(ns) : ns[i] \in Identifier
      BY NamesAssumption DEF Identifier
    <3>2. ns \in Seq(Identifier) \ {<<>>}
      BY <3>1
    <3> QED
      BY <3>2 DEF Built, Config
  <2> HIDE DEF ok, t
  <2> QED
    BY <2>1, <2>2, ConfigureBuilt
<1>4. \A n \in Names : <<n>> \in Seq(Names)
  OBVIOUS
<1>5. ASSUME NEW ns \in {<<>>} \cup Names \X Names PROVE ns \in Seq(Names)
  <2>1. CASE ns = <<>>
    BY <2>1
  <2>2. CASE ns \in Names \X Names
    <3>1. PICK m \in Names, n \in Names : ns = <<m, n>>
      BY <2>2
    <3>2. <<m, n>> \in Seq(Names)
      OBVIOUS
    <3> QED
      BY <3>1, <3>2
  <2> QED
    BY <2>1, <2>2
<1> QED
  BY <1>1, <1>2, <1>3, <1>4, <1>5

(* The first schema of a configuration.                                     *)
LEMMA FirstSchema ==
    ASSUME NEW t \in Config
    PROVE  t.schemas # <<>> /\ t.schemas[1] \in Identifier
<1> DEFINE q == t.schemas
<1>1. q \in Seq(Identifier) /\ q # <<>>
  BY DEF Config
<1> HIDE DEF q
<1>2. q[1] \in Identifier
  BY <1>1
<1> QED
  BY <1>1, <1>2 DEF q

(* The methods that make a template and change it.                          *)
LEMMA TemplateBuilt ==
    ASSUME Built, NEW n \in Names,
           policy_template(n)
             \/ \E f \in {"schema", "policy_name", "cast"} : Override(f, n)
    PROVE  Built'
<1>0. validate_identifier(n) => n \in Identifier
  BY NamesAssumption DEF Identifier
<1>1. ASSUME policy_template(n) PROVE Built'
  <2>1. calls' \in 0 .. MaxCalls /\ tenancy' = tenancy
    BY <1>1, ConfigAssumption DEF policy_template, Built
  <2>2. tenancy.schemas # <<>> /\ tenancy.schemas[1] \in Identifier
    BY FirstSchema DEF Built
  <2>3. CASE validate_identifier(n)
    <3>1. /\ template' = [schema |-> tenancy.schemas[1], table |-> n,
                          policy_name |-> <<Letter>>, cast |-> NoName]
          /\ outcome' = outcome
      BY <1>1, <2>2, <2>3 DEF policy_template, NoTemplate
    <3>2. template' \in Template
      BY <1>0, <2>2, <2>3, <3>1, DefaultIsValid DEF Template
    <3> QED
      BY <2>1, <3>1, <3>2 DEF Built, Config, Template, NoTemplate
  <2>4. CASE ~validate_identifier(n)
    <3>1. template' = NoTemplate /\ outcome' = "rejected"
      BY <1>1, <2>4 DEF policy_template
    <3> QED
      BY <2>1, <3>1 DEF Built, Config, Template, NoTemplate
  <2> QED
    BY <2>3, <2>4
<1>2. ASSUME NEW f \in {"schema", "policy_name", "cast"}, Override(f, n) PROVE Built'
  <2>1. /\ calls' \in 0 .. MaxCalls /\ tenancy' = tenancy /\ template # NoTemplate
        /\ outcome' \in {"ok", "rejected"}
    <3>1. template # NoTemplate /\ Call(validate_identifier(n)) /\ tenancy' = tenancy
      BY <1>2 DEF Override
    <3> QED
      BY <3>1, ConfigAssumption DEF Call, Built
  <2>2. CASE validate_identifier(n)
    <3>0. template \in Template /\ n \in Identifier
      BY <1>0, <2>1, <2>2 DEF Built
    <3> DEFINE new == [template EXCEPT ![f] = n]
    <3>1. template' = new
      BY <1>2, <2>2 DEF Override
    <3>2. new \in Template
      <4>1. CASE f = "schema"
        BY <3>0, <4>1 DEF Template
      <4>2. CASE f = "policy_name"
        BY <3>0, <4>2 DEF Template
      <4>3. CASE f = "cast"
        BY <3>0, <4>3 DEF Template
      <4> QED
        BY <4>1, <4>2, <4>3
    <3> HIDE DEF new
    <3> QED
      BY <2>1, <3>1, <3>2 DEF Built, Config, Template, NoTemplate
  <2>3. CASE ~validate_identifier(n)
    <3>1. template' = NoTemplate
      BY <1>2, <2>3 DEF Override
    <3> QED
      BY <2>1, <3>1 DEF Built, Config, Template, NoTemplate
  <2> QED
    BY <2>2, <2>3
<1> QED
  BY <1>1, <1>2

-----------------------------------------------------------------------------
(* The settings.                                                            *)

(* The GUC names stay those of the hooks' installation, and both settings   *)
(* exist under either name.                                                 *)
Hooked ==
    /\ hooks \in {NoName, tenancy.guc, Default.guc}
    /\ lease \in Bindings /\ asked \in Bindings
    /\ hooks # NoName => {set, loc} \subseteq [DOMAIN Blank -> Bindings]

(* With one name in use the settings are the scope's and the transaction's. *)
OneGuc ==
    /\ hooks = NoName => lease = NoTenant /\ asked = NoTenant
    /\ hooks # NoName =>
          /\ hooks = tenancy.guc
          /\ set[Setting(tenancy.guc)] = lease /\ loc[Setting(tenancy.guc)] = asked

Builder ==
    \/ \E n \in GucNames : guc(n)
    \/ \E n \in Names : schemas(<<n>>) \/ tenant_column(n) \/ policy_template(n)
    \/ \E ns \in {<<>>} \cup Names \X Names : schemas(ns)
    \/ \E f \in {"schema", "policy_name", "cast"}, n \in Names : Override(f, n)

(* All builders run before a pool is there.                                 *)
LEMMA BuilderFacts ==
    ASSUME Builder
    PROVE  hooks = NoName /\ UNCHANGED used
BY DEF Builder, guc, schemas, tenant_column, policy_template, Override, Configure,
       Call, used

(* All builder methods.                                                     *)
LEMMA BuilderKeeps ==
    ASSUME Built, Builder
    PROVE  Built'
BY BuilderBuilt, TemplateBuilt DEF Builder

(* Nothing is built while a pool is there.                                  *)
LEMMA PoolKeepsBuilt ==
    ASSUME Built, UNCHANGED built
    PROVE  Built'
BY DEF Built, built, Config, Template, NoTemplate

(* A new connection has no value under either name.                         *)
LEMMA BlankFacts ==
    /\ DOMAIN Blank = {Setting(tenancy.guc), Setting(Default.guc)}
    /\ \A n \in DOMAIN Blank : Blank[n] = NoTenant
    /\ NoTenant \in Bindings /\ Tenants \subseteq Bindings
BY DEF Blank, Bindings

(* What RESET leaves where it parses: the hooks' setting, and no other one, *)
(* has lost its value; and the connection that follows where it does not.   *)
LEMMA ClearedFacts ==
    ASSUME Hooked, hooks # NoName
    PROVE  /\ Cleared \in [DOMAIN Blank -> Bindings]
           /\ Setting(hooks) \in DOMAIN Blank
<1>1. set \in [DOMAIN Blank -> Bindings] /\ Setting(hooks) \in DOMAIN Blank
  BY BlankFacts DEF Hooked
<1>2. CASE Bare(hooks) = NoName
  BY <1>1, <1>2, BlankFacts DEF Cleared, Blank
<1>3. CASE Bare(hooks) # NoName
  BY <1>1, <1>3, BlankFacts DEF Cleared
<1> QED
  BY <1>1, <1>2, <1>3

(* RESET takes the value from the very setting that set_config gives one,   *)
(* or its error takes the connection: the hooks leave nobody's binding.     *)
LEMMA HooksCleared ==
    ASSUME Built, Hooked, hooks # NoName
    PROVE  Cleared[Setting(hooks)] = NoTenant
<1>1. set \in [DOMAIN Blank -> Bindings] /\ Setting(hooks) \in DOMAIN Blank
  BY ClearedFacts DEF Hooked
<1>2. hooks \in GucName
  BY DefaultIsValid DEF Built, Config, Hooked
<1>3. CASE Bare(hooks) = NoName
  BY <1>1, <1>3, BlankFacts DEF Cleared
<1>4. CASE Bare(hooks) # NoName
  <2>1. Bare(hooks) = Setting(hooks)
    BY <1>2, <1>4, SameGuc DEF Unambiguous, Setting
  <2> QED
    BY <1>1, <1>4, <2>1 DEF Cleared
<1> QED
  BY <1>3, <1>4

(* What a step does to the pool and its connection.                         *)
LEMMA PoolStep ==
    ASSUME Next, ~Builder
    PROVE  /\ UNCHANGED built
           /\ \/ \E by \in Helpers : with_tenant_hooks(by)
              \/ \E by \in Helpers, b \in Tenants : begin_tenant(by, b)
              \/ \E b \in Bindings : before_acquire(b)
              \/ EndTx
              \/ UNCHANGED used
<1>1. \/ \E by \in Helpers : with_tenant_hooks(by)
      \/ \E by \in Helpers, b \in Tenants : begin_tenant(by, b)
      \/ \E b \in Bindings : before_acquire(b)
      \/ EndTx
      \/ UNCHANGED vars
  BY DEF Next, Builder
<1> QED
  BY <1>1 DEF vars, built, used, with_tenant_hooks, begin_tenant, before_acquire, EndTx

(* The settings keep their names and types.                                 *)
LEMMA HookedLasts ==
    ASSUME Hooked, [Next]_vars
    PROVE  Hooked'
<1>1. CASE Builder
  BY <1>1, BuilderFacts DEF Hooked, used, NoName, Bindings
<1>2. CASE ~Builder
  <2>1. /\ tenancy' = tenancy
        /\ \/ \E by \in Helpers : with_tenant_hooks(by)
           \/ \E by \in Helpers, b \in Tenants : begin_tenant(by, b)
           \/ \E b \in Bindings : before_acquire(b)
           \/ EndTx
           \/ UNCHANGED used
    BY <1>2, PoolStep DEF vars, built, used
  <2>2. DOMAIN Blank' = DOMAIN Blank /\ Blank' = Blank
    BY <2>1 DEF Blank, Default, Setting
  <2> SUFFICES
         /\ hooks' \in {NoName, tenancy.guc, Default.guc}
         /\ lease' \in Bindings /\ asked' \in Bindings
         /\ hooks' # NoName => {set', loc'} \subseteq [DOMAIN Blank -> Bindings]
    BY <2>1, <2>2 DEF Hooked, NoName, Default, Bindings, Blank
  <2>3. ASSUME NEW by \in Helpers, with_tenant_hooks(by)
        PROVE  /\ hooks' \in {tenancy.guc, Default.guc}
               /\ lease' = lease /\ asked' = asked
               /\ {set', loc'} \subseteq [DOMAIN Blank -> Bindings]
    BY <2>3, BlankFacts DEF with_tenant_hooks, GucOf, Blank
  <2>4. ASSUME NEW by \in Helpers, NEW b \in Tenants, begin_tenant(by, b)
        PROVE  /\ hooks' = hooks /\ lease' = lease /\ asked' \in Bindings
               /\ {set', loc'} \subseteq [DOMAIN Blank -> Bindings]
    <3>1. /\ loc' = [loc EXCEPT ![Setting(GucOf(by))] = b] /\ asked' = b
          /\ UNCHANGED <<hooks, lease, set>> /\ hooks # NoName
      BY <2>4 DEF begin_tenant
    <3>2. {set, loc} \subseteq [DOMAIN Blank -> Bindings] /\ b \in Bindings
      BY <3>1, BlankFacts DEF Hooked
    <3> QED
      BY <3>1, <3>2 DEF Hooked
  <2>5. ASSUME NEW b \in Bindings, before_acquire(b)
        PROVE  /\ hooks' = hooks /\ lease' \in Bindings /\ asked' = asked
               /\ {set', loc'} \subseteq [DOMAIN Blank -> Bindings]
    BY <2>5, BlankFacts, ClearedFacts DEF before_acquire, Hooked
  <2>6. CASE EndTx
    <3>1. Blank \in [DOMAIN Blank -> Bindings]
      BY BlankFacts DEF Blank
    <3> QED
      BY <2>6, <3>1, BlankFacts DEF EndTx, Hooked
  <2>7. CASE UNCHANGED used
    BY <2>7 DEF used, Hooked
  <2> QED
    BY <2>1, <2>3, <2>4, <2>5, <2>6, <2>7 DEF Hooked
<1> QED
  BY <1>1, <1>2

(* Where only the Tenancy's helpers are used one setting says it all.       *)
LEMMA OneGucLasts ==
    ASSUME Helpers \subseteq {"Tenancy"}, Built, Hooked, OneGuc, [Next]_vars
    PROVE  OneGuc'
<1>1. CASE Builder
  BY <1>1, BuilderFacts DEF OneGuc, used, NoName
<1>2. CASE ~Builder
  <2>1. /\ tenancy' = tenancy
        /\ \/ \E by \in Helpers : with_tenant_hooks(by)
           \/ \E by \in Helpers, b \in Tenants : begin_tenant(by, b)
           \/ \E b \in Bindings : before_acquire(b)
           \/ EndTx
           \/ UNCHANGED used
    BY <1>2, PoolStep DEF vars, built, used
  <2> DEFINE own == Setting(tenancy.guc)
  <2>2. /\ hooks # NoName => own \in DOMAIN set /\ own \in DOMAIN loc
        /\ own \in DOMAIN Blank /\ own' = own
    BY <2>1, BlankFacts DEF Hooked, Setting, Fold
  <2>3. \A by \in Helpers : GucOf(by) = tenancy.guc
    BY DEF GucOf
  <2> HIDE DEF NoName, own
  <2>0. OneGuc' <=>
          /\ hooks' = NoName => lease' = NoTenant /\ asked' = NoTenant
          /\ hooks' # NoName =>
                hooks' = tenancy.guc /\ set'[own] = lease' /\ loc'[own] = asked'
    BY <2>1, <2>2 DEF OneGuc, own, NoName
  <2>4. ASSUME NEW by \in Helpers, with_tenant_hooks(by) PROVE OneGuc'
    BY <2>0, <2>1, <2>2, <2>3, <2>4, BlankFacts DEF with_tenant_hooks, OneGuc, NoName
  <2>5. ASSUME NEW by \in Helpers, NEW b \in Tenants, begin_tenant(by, b) PROVE OneGuc'
    BY <2>0, <2>1, <2>2, <2>3, <2>5 DEF begin_tenant, OneGuc, NoName, own
  <2>6. ASSUME NEW b \in Bindings, before_acquire(b) PROVE OneGuc'
    <3>1. /\ hooks = tenancy.guc /\ hooks' = hooks /\ lease' = b
          /\ UNCHANGED <<asked, loc>> /\ loc[own] = asked
          /\ set' = IF b = NoTenant THEN Cleared ELSE [Cleared EXCEPT ![own] = b]
      BY <2>6 DEF before_acquire, OneGuc, own
    <3>2. Cleared \in [DOMAIN Blank -> Bindings] /\ Cleared[own] = NoTenant
      BY <2>6, <3>1, ClearedFacts, HooksCleared DEF before_acquire, own
    <3>3. set'[own] = b
      BY <2>2, <3>1, <3>2
    <3> QED
      BY <2>0, <3>1, <3>3, <2>6 DEF before_acquire
  <2>7. CASE EndTx
    BY <2>0, <2>1, <2>2, <2>7, BlankFacts DEF EndTx, OneGuc, NoName, own
  <2>8. CASE UNCHANGED used
    BY <2>0, <2>1, <2>8 DEF used, OneGuc, NoName, own
  <2> QED
    BY <2>1, <2>4, <2>5, <2>6, <2>7, <2>8
<1> QED
  BY <1>1, <1>2

-----------------------------------------------------------------------------
(* What a program builds is valid, however often it is changed, and a       *)
(* template refers to the Tenancy that it was made from.                    *)
THEOREM ConfigInvariance == Spec => [](Built /\ Hooked)
<1>1. Init => Built /\ Hooked
  <2> SUFFICES ASSUME Init PROVE Built /\ Hooked
    OBVIOUS
  <2>1. tenancy \in Config /\ template = NoTemplate /\ outcome = "ok" /\ calls = 0
    BY DefaultIsValid DEF Init, Config
  <2> QED
    BY <2>1, ConfigAssumption DEF Init, Built, Hooked, Bindings
<1>2. Built /\ Hooked /\ [Next]_vars => Built' /\ Hooked'
  BY BuilderKeeps, PoolStep, PoolKeepsBuilt, HookedLasts DEF vars, built
<1> QED
  BY <1>1, <1>2, PTL DEF Spec

(* The types, among which: a name that got past the builders is valid.      *)
THEOREM ConfigTypeOKAlways == Spec => []TypeOK
<1>1. Built /\ Hooked => TypeOK
  BY DEF Built, Hooked, TypeOK, Config, Template
<1> QED
  BY <1>1, ConfigInvariance, PTL

(* config.rs:13-17: what the builders accept is in quotes itself, and in    *)
(* RESET or a cast the setting or type that it is as a parameter, or an     *)
(* error if a part is a reserved word; and no later call finds an empty     *)
(* list.  For names of any length and any set of reserved words.            *)
THEOREM ValidatedOnceAlways == Spec => []ValidatedOnce
<1>1. Built => ValidatedOnce
  <2> SUFFICES ASSUME Built PROVE ValidatedOnce
    OBVIOUS
  <2>1. /\ tenancy.guc \in GucName /\ tenancy.tenant_column \in Identifier
        /\ tenancy.schemas \in Seq(Identifier)
    BY DEF Built, Config
  <2>2. \A n \in Range(tenancy.schemas) : n \in Identifier
    BY <2>1 DEF Range
  <2>3. ASSUME template # NoTemplate
        PROVE  /\ \A f \in {"schema", "table", "policy_name"} : template[f] \in Identifier
               /\ template.cast # NoName => template.cast \in Identifier
    BY <2>3 DEF Built, Template
  <2>4. outcome # "index"
    BY DEF Built
  <2> QED
    BY <2>1, <2>2, <2>3, <2>4, SameQuoted, SameWord, SameGuc DEF ValidatedOnce
<1> QED
  BY <1>1, ConfigInvariance, PTL

(* config.rs:21-23: in a program that hooks its pool and begins its         *)
(* transactions through its Tenancy a query answers as the tenant that its  *)
(* transaction was begun for, and outside of one as that of the scope.      *)
THEOREM AnswersAsAskedAlways ==
    ASSUME Helpers \subseteq {"Tenancy"}
    PROVE  Spec => []AnswersAsAsked
<1>1. Init => OneGuc
  BY DEF Init, OneGuc
<1>2. Built /\ Hooked /\ OneGuc /\ [Next]_vars => OneGuc'
  BY OneGucLasts
<1>3. OneGuc => AnswersAsAsked
  BY DEF OneGuc, AnswersAsAsked
<1> QED
  BY <1>1, <1>2, <1>3, ConfigInvariance, PTL DEF Spec
==============================================================================
