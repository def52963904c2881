---------------------------- MODULE Security_proofs ----------------------------
(***************************************************************************)
(* Proofs about passwords and keys: what the files hold after any sequence *)
(* of commands, and what a login makes of it.                              *)
(***************************************************************************)
EXTENDS Security, FoldLemmas, SequenceTheorems

-----------------------------------------------------------------------------
(***************************************************************************)
(* Configurations whose passwords are among some texts, and the merge of   *)
(* the files: it defines what one of them defines, the last one wins.      *)
(***************************************************************************)
Settings == {"yes", "no", "absent"}

Dicts(texts) == UNION {[defined -> texts] : defined \in SUBSET Aliases}
Configs(texts) == [encrypt : Settings, alias : Dicts(texts)]

LEMMA DictIs ==
  ASSUME NEW texts, NEW f
  PROVE  f \in Dicts(texts) <=>
           /\ DOMAIN f \subseteq Aliases /\ f \in [DOMAIN f -> texts]
<1>1. ASSUME f \in Dicts(texts)
      PROVE  DOMAIN f \subseteq Aliases /\ f \in [DOMAIN f -> texts]
  <2>1. PICK defined \in SUBSET Aliases : f \in [defined -> texts]
    BY <1>1 DEF Dicts
  <2> QED
    BY <2>1
<1>2. ASSUME DOMAIN f \subseteq Aliases, f \in [DOMAIN f -> texts]
      PROVE  f \in Dicts(texts)
  <2>1. DOMAIN f \in SUBSET Aliases
    BY <1>2
  <2> QED
    BY <1>2, <2>1 DEF Dicts
<1> QED
  BY <1>1, <1>2

LEMMA MergeIs ==
  ASSUME NEW texts, NEW source \in Configs(texts), NEW destination \in Configs(texts)
  PROVE  LET c == Merge(source, destination)
         IN /\ c \in Configs(texts)
            /\ DOMAIN c.alias = DOMAIN source.alias \cup DOMAIN destination.alias
            /\ \A a \in DOMAIN c.alias :
                 c.alias[a] = IF a \in DOMAIN source.alias THEN source.alias[a]
                              ELSE destination.alias[a]
            /\ c.encrypt = IF source.encrypt = "absent" THEN destination.encrypt
                           ELSE source.encrypt
<1> DEFINE alias1 == Over(source.alias, destination.alias)
           encrypt1 == IF source.encrypt = "absent" THEN destination.encrypt
                       ELSE source.encrypt
<1>1. /\ source.alias \in Dicts(texts) /\ destination.alias \in Dicts(texts)
      /\ source.encrypt \in Settings /\ destination.encrypt \in Settings
  BY DEF Configs
<1>2. /\ DOMAIN source.alias \subseteq Aliases
      /\ source.alias \in [DOMAIN source.alias -> texts]
      /\ DOMAIN destination.alias \subseteq Aliases
      /\ destination.alias \in [DOMAIN destination.alias -> texts]
  BY <1>1, DictIs
<1>3. /\ DOMAIN alias1 = DOMAIN source.alias \cup DOMAIN destination.alias
      /\ alias1 \in [DOMAIN alias1 -> texts]
      /\ \A a \in DOMAIN alias1 :
           alias1[a] = IF a \in DOMAIN source.alias THEN source.alias[a]
                       ELSE destination.alias[a]
  BY <1>2 DEF Over
<1> HIDE DEF alias1
<1>4. alias1 \in Dicts(texts)
  BY <1>2, <1>3, DictIs
<1>5. encrypt1 \in Settings
  BY <1>1
<1>6. Merge(source, destination) = [encrypt |-> encrypt1, alias |-> alias1]
  BY DEF Merge, alias1
<1> QED
  BY <1>3, <1>4, <1>5, <1>6 DEF Configs

LEMMA NoConfigIs ==
  ASSUME NEW texts
  PROVE  NoConfig \in Configs(texts) /\ DOMAIN NoConfig.alias = {}
<1>1. DOMAIN << >> = {} /\ << >> \in [{} -> texts]
  OBVIOUS
<1>2. << >> \in Dicts(texts)
  BY <1>1, DictIs
<1> QED
  BY <1>1, <1>2 DEF NoConfig, Configs, Settings

\* The aliases that the first k files define.
Named(fs, k) == UNION {DOMAIN fs[i].alias : i \in 1 .. k}

\* The configurations that one file after the other makes.
Stages(G, texts, fs) ==
  /\ G \in [0 .. Len(fs) -> Configs(texts)] /\ G[0] = NoConfig
  /\ \A k \in 1 .. Len(fs) : G[k] = Merge(fs[k], G[k - 1])

LEMMA MergedFiles ==
  ASSUME NEW texts, NEW fs \in Seq(Configs(texts))
  PROVE  \E S : /\ Stages(S, texts, fs)
                /\ FoldLeft(LAMBDA c, file : Merge(file, c), NoConfig, fs) = S[Len(fs)]
<1> DEFINE n == Len(fs)
           A == Configs(texts)
           step == [p \in A \X (1 .. n) |-> Merge(fs[p[2]], p[1])]
           read == FoldLeft(LAMBDA c, file : Merge(file, c), NoConfig, fs)
           Good(F) == F = [s \in SUBSET (1 .. n) |->
                             IF s = {} THEN NoConfig
                             ELSE Merge(fs[Max(s)], F[s \ {Max(s)}])]
           G == CHOOSE F : Good(F)
<1>1. n \in Nat /\ DOMAIN fs = 1 .. n /\ \A i \in 1 .. n : fs[i] \in A
  OBVIOUS
<1>2. read = G[1 .. n]
  BY <1>1 DEF FoldLeft, MapThenFoldSet
<1>3. \A a \in A, i \in 1 .. n : Merge(fs[i], a) \in A
  BY <1>1, MergeIs
<1>4. step \in [A \X (1 .. n) -> A]
  BY <1>3
<1>5. \A a \in A, i \in 1 .. n : step[<<a, i>>] = Merge(fs[i], a)
  OBVIOUS
<1>6. NoConfig \in A
  BY NoConfigIs
<1> HIDE DEF step, A, n, read
<1>7. PICK F \in [SUBSET (1 .. n) -> A] : Folds(F, NoConfig, step, n)
  BY <1>1, <1>4, <1>6, FoldExists
<1>8. Good(F)
  <2>1. ASSUME NEW s \in SUBSET (1 .. n), s # {}
        PROVE  step[<<F[s \ {Max(s)}], Max(s)>>]
                 = Merge(fs[Max(s)], F[s \ {Max(s)}])
    <3>1. Max(s) \in s
      BY <1>1, <2>1, MaxIn
    <3>2. F[s \ {Max(s)}] \in A /\ Max(s) \in 1 .. n
      BY <3>1
    <3> QED
      BY <1>5, <3>2
  <2> QED
    BY <1>7, <2>1 DEF Folds
<1>9. Good(G)
  BY <1>8
<1> HIDE DEF G
<1>10. \A s \in SUBSET (1 .. n) :
         G[s] = IF s = {} THEN NoConfig ELSE Merge(fs[Max(s)], G[s \ {Max(s)}])
  BY <1>9
<1> HIDE DEF Good
<1>11. ASSUME NEW k \in Nat, k + 1 <= n
       PROVE  G[1 .. k + 1] = Merge(fs[k + 1], G[1 .. k]) /\ k + 1 \in 1 .. n
  <2> DEFINE all == 1 .. k + 1
  <2>1. all \in SUBSET (1 .. n) /\ all # {} /\ k + 1 \in 1 .. n
    <3>1. k + 1 \in 1 .. n /\ k + 1 \in 1 .. k + 1
      BY <1>1, <1>11
    <3>2. \A i \in 1 .. k + 1 : i \in 1 .. n
      BY <1>1, <1>11
    <3> QED
      BY <3>1, <3>2
  <2>2. Max(all) = k + 1 /\ all \ {k + 1} = 1 .. k
    BY MaxTo
  <2> HIDE DEF all
  <2>3. G[all] = Merge(fs[Max(all)], G[all \ {Max(all)}])
    BY <1>10, <2>1, Zenon
  <2>4. G[all] = Merge(fs[k + 1], G[1 .. k])
    BY <2>2, <2>3, Zenon
  <2> QED
    BY <2>1, <2>4 DEF all
<1> DEFINE T == {k \in Nat : k <= n => G[1 .. k] \in A}
           S == [k \in 0 .. n |-> G[1 .. k]]
<1>12. G[1 .. 0] = NoConfig
  <2>1. 1 .. 0 = {} /\ {} \in SUBSET (1 .. n)
    OBVIOUS
  <2> QED
    BY <1>10, <2>1
<1>13. ASSUME NEW k \in Nat, k + 1 <= n, G[1 .. k] \in A PROVE G[1 .. k + 1] \in A
  BY <1>3, <1>11, <1>13
<1>14. Nat \subseteq T
  <2>1. 0 \in T
    BY <1>6, <1>12
  <2>2. ASSUME NEW k \in Nat, k \in T PROVE k + 1 \in T
    BY <1>1, <1>13, <2>2
  <2> HIDE DEF T
  <2> QED
    BY <2>1, <2>2, Induction
<1>15. S \in [0 .. n -> A] /\ S[0] = NoConfig
  BY <1>1, <1>12, <1>14
<1>16. ASSUME NEW k \in 1 .. n PROVE S[k] = Merge(fs[k], S[k - 1])
  <2>1. k - 1 \in Nat /\ k - 1 + 1 = k /\ k <= n /\ k - 1 \in 0 .. n /\ k \in 0 .. n
    BY <1>1
  <2>2. G[1 .. k - 1 + 1] = Merge(fs[k - 1 + 1], G[1 .. k - 1])
    BY <1>11, <2>1
  <2> QED
    BY <2>1, <2>2
<1>17. read = S[n]
  BY <1>1, <1>2
<1> QED
  BY <1>15, <1>16, <1>17 DEF Stages, A, n, read

\* A stage defines what the files so far define, with the text of one of them.
LEMMA StageIs ==
  ASSUME NEW texts, NEW fs \in Seq(Configs(texts)), NEW G, Stages(G, texts, fs),
         NEW m \in 0 .. Len(fs)
  PROVE  /\ DOMAIN G[m].alias = Named(fs, m)
         /\ \A a \in DOMAIN G[m].alias :
              \E i \in 1 .. m : a \in DOMAIN fs[i].alias /\ G[m].alias[a] = fs[i].alias[a]
<1> DEFINE n == Len(fs)
           From(k) == \A a \in DOMAIN G[k].alias :
                        \E i \in 1 .. k :
                          a \in DOMAIN fs[i].alias /\ G[k].alias[a] = fs[i].alias[a]
           Fine(k) == DOMAIN G[k].alias = Named(fs, k) /\ From(k)
           T == {k \in Nat : k <= n => Fine(k)}
<1>1. n \in Nat
  OBVIOUS
<1>2. Fine(0)
  <2>1. 1 .. 0 = {} /\ G[0] = NoConfig
    BY DEF Stages
  <2> QED
    BY <2>1, NoConfigIs DEF Named
<1>3. ASSUME NEW k \in Nat, k + 1 <= n, Fine(k) PROVE Fine(k + 1)
  <2> DEFINE c == G[k]
             d == fs[k + 1]
  <2>1. k + 1 \in 1 .. n /\ k + 1 - 1 = k /\ k \in 0 .. n
    BY <1>1, <1>3
  <2>2. G[k + 1] = Merge(d, c) /\ c \in Configs(texts) /\ d \in Configs(texts)
    <3>1. G[k + 1] = Merge(fs[k + 1], G[k + 1 - 1])
      BY <2>1 DEF Stages
    <3> QED
      BY <2>1, <3>1 DEF Stages
  <2> DEFINE e == Merge(d, c)
  <2>3. /\ DOMAIN e.alias = DOMAIN d.alias \cup DOMAIN c.alias
        /\ \A a \in DOMAIN e.alias :
             e.alias[a] = IF a \in DOMAIN d.alias THEN d.alias[a] ELSE c.alias[a]
    BY <2>2, MergeIs
  <2>4. 1 .. k + 1 = (1 .. k) \cup {k + 1}
    OBVIOUS
  <2>5. Named(fs, k + 1) = DOMAIN d.alias \cup Named(fs, k)
    BY <2>4 DEF Named
  <2> HIDE DEF e
  <2>6. G[k + 1] = e
    BY <2>2 DEF e
  <2>7. From(k + 1)
    <3> SUFFICES ASSUME NEW a \in DOMAIN e.alias
                 PROVE  \E i \in 1 .. k + 1 :
                          a \in DOMAIN fs[i].alias /\ e.alias[a] = fs[i].alias[a]
      BY <2>6
    <3>1. CASE a \in DOMAIN d.alias
      BY <2>3, <2>4, <3>1
    <3>2. CASE a \notin DOMAIN d.alias
      <4>1. PICK i \in 1 .. k : a \in DOMAIN fs[i].alias /\ c.alias[a] = fs[i].alias[a]
        BY <1>3, <2>3, <3>2
      <4> QED
        BY <2>3, <2>4, <3>2, <4>1
    <3> QED
      BY <3>1, <3>2
  <2> QED
    BY <1>3, <2>3, <2>5, <2>6, <2>7
<1> HIDE DEF Fine
<1>4. 0 \in T
  BY <1>2
<1>5. ASSUME NEW k \in Nat, k \in T PROVE k + 1 \in T
  BY <1>1, <1>3, <1>5
<1> HIDE DEF T
<1>6. Nat \subseteq T
  BY <1>4, <1>5, Induction
<1>7. Fine(m)
  BY <1>1, <1>6 DEF T
<1> QED
  BY <1>7 DEF Fine

\* A file that none of the later ones overrules: the stages from it on say what
\* it says, when it defines all that is defined.
Says(c, d) ==
  /\ DOMAIN c.alias = DOMAIN d.alias /\ c.encrypt = d.encrypt
  /\ \A a \in DOMAIN d.alias : c.alias[a] = d.alias[a]

LEMMA StagesAgree ==
  ASSUME NEW texts, NEW fs \in Seq(Configs(texts)), NEW G, Stages(G, texts, fs),
         NEW t \in 1 .. Len(fs), fs[t].encrypt # "absent",
         \A i \in 1 .. Len(fs) : DOMAIN fs[i].alias \subseteq DOMAIN fs[t].alias,
         \A i \in t + 1 .. Len(fs) :
           /\ fs[i].encrypt \in {"absent", fs[t].encrypt}
           /\ \A a \in DOMAIN fs[i].alias : fs[i].alias[a] = fs[t].alias[a]
  PROVE  Says(G[Len(fs)], fs[t])
<1> DEFINE n == Len(fs)
           w == fs[t]
           T == {k \in Nat : t + k <= n => Says(G[t + k], w)}
<1>1. n \in Nat /\ t \in Nat /\ t <= n /\ t >= 1
  OBVIOUS
<1>2. ASSUME NEW k \in 1 .. n
      PROVE  /\ G[k] = Merge(fs[k], G[k - 1])
             /\ fs[k] \in Configs(texts) /\ G[k - 1] \in Configs(texts)
  <2>1. k - 1 \in 0 .. n
    BY <1>1
  <2> QED
    BY <2>1 DEF Stages
<1>3. Says(G[t], w)
  <2> DEFINE c == G[t - 1]
             e == Merge(w, c)
  <2>1. G[t] = e /\ w \in Configs(texts) /\ c \in Configs(texts)
    BY <1>2
  <2>2. /\ DOMAIN e.alias = DOMAIN w.alias \cup DOMAIN c.alias
        /\ \A a \in DOMAIN e.alias :
             e.alias[a] = IF a \in DOMAIN w.alias THEN w.alias[a] ELSE c.alias[a]
        /\ e.encrypt = IF w.encrypt = "absent" THEN c.encrypt ELSE w.encrypt
    BY <2>1, MergeIs
  <2>3. DOMAIN c.alias \subseteq DOMAIN w.alias
    <3>1. t - 1 \in 0 .. n /\ \A i \in 1 .. t - 1 : i \in 1 .. n
      BY <1>1
    <3>2. DOMAIN c.alias = Named(fs, t - 1)
      BY <3>1, StageIs
    <3> QED
      BY <3>1, <3>2 DEF Named
  <2> HIDE DEF e
  <2> QED
    BY <2>1, <2>2, <2>3 DEF Says
<1>4. ASSUME NEW k \in Nat, t + k + 1 <= n, Says(G[t + k], w)
      PROVE  Says(G[t + k + 1], w)
  <2> DEFINE l == t + k + 1
             c == G[l - 1]
             d == fs[l]
             e == Merge(d, c)
  <2>1. l \in 1 .. n /\ l \in t + 1 .. n /\ l - 1 = t + k
    BY <1>1, <1>4
  <2>2. Says(c, w)
    BY <1>4, <2>1
  <2> HIDE DEF l
  <2>3. G[l] = e /\ d \in Configs(texts) /\ c \in Configs(texts)
    BY <1>2, <2>1
  <2>4. /\ DOMAIN e.alias = DOMAIN d.alias \cup DOMAIN c.alias
        /\ \A a \in DOMAIN e.alias :
             e.alias[a] = IF a \in DOMAIN d.alias THEN d.alias[a] ELSE c.alias[a]
        /\ e.encrypt = IF d.encrypt = "absent" THEN c.encrypt ELSE d.encrypt
    BY <2>3, MergeIs
  <2>5. /\ DOMAIN d.alias \subseteq DOMAIN w.alias
        /\ d.encrypt \in {"absent", w.encrypt}
        /\ \A a \in DOMAIN d.alias : d.alias[a] = w.alias[a]
    BY <2>1
  <2> HIDE DEF c, d, e, w
  <2>6. Says(e, w)
    BY <2>2, <2>4, <2>5 DEF Says
  <2> QED
    BY <2>3, <2>6 DEF l
<1> HIDE DEF w
<1>5. 0 \in T
  BY <1>1, <1>3
<1>6. ASSUME NEW k \in Nat, k \in T PROVE k + 1 \in T
  <2>1. t + (k + 1) = t + k + 1 /\ (t + k + 1 <= n => t + k <= n)
    BY <1>1
  <2> QED
    BY <1>4, <1>6, <2>1
<1> HIDE DEF T
<1>7. Nat \subseteq T
  BY <1>5, <1>6, Induction
<1>8. n - t \in Nat /\ t + (n - t) = n
  BY <1>1
<1> QED
  BY <1>1, <1>7, <1>8 DEF T, w

\* The files to begin with.
LEMMA FirstConfigs == FirstFiles \subseteq Seq(Configs({Plain}))
BY FilesAssumption DEF Configs, Dicts, Settings, Plain

-----------------------------------------------------------------------------
(***************************************************************************)
(* The shape of the variables, and that no text is encrypted twice.        *)
(***************************************************************************)
Texts == {Plain} \cup {<<k>> : k \in Keys}

LEMMA TextIs ==
  ASSUME NEW text \in Texts
  PROVE  /\ text \in Seq(Keys) /\ Len(text) <= 1
         /\ \A k \in Keys : Decrypted(text, k) \in Texts
         /\ \A k \in Keys : ~TooLong(text) => <<k>> \o text = <<k>> /\ <<k>> \in Texts
<1>1. CASE text = Plain
  <2>1. << >> \in Seq(Keys) /\ Len(<< >>) <= 1
    OBVIOUS
  <2>2. \A k \in Keys : <<k>> \o << >> = <<k>> /\ <<k>> \in Texts
    BY DEF Texts
  <2>3. \A k \in Keys : Decrypted(text, k) = Plain
    BY <1>1 DEF Decrypted, Decrypts
  <2> QED
    BY <1>1, <2>1, <2>2, <2>3 DEF Plain
<1>2. CASE text # Plain
  <2>1. PICK key \in Keys : text = <<key>>
    BY <1>2 DEF Texts
  <2>2. text \in Seq(Keys) /\ Len(text) = 1 /\ Tail(text) = Plain
    BY <2>1 DEF Plain
  <2>3. \A k \in Keys : Decrypted(text, k) \in {text, Plain}
    BY <2>2 DEF Decrypted
  <2>4. Plain \in Texts
    BY DEF Texts
  <2> QED
    BY <1>2, <2>2, <2>3, <2>4 DEF TooLong
<1> QED
  BY <1>1, <1>2

LEMMA PlainConfigs == Configs({Plain}) \subseteq Configs(Texts)
<1>1. {Plain} \subseteq Texts
  BY DEF Texts
<1>2. \A f \in Dicts({Plain}) : f \in Dicts(Texts)
  <2> SUFFICES ASSUME NEW f \in Dicts({Plain}) PROVE f \in Dicts(Texts)
    OBVIOUS
  <2>1. DOMAIN f \subseteq Aliases /\ f \in [DOMAIN f -> {Plain}]
    BY DictIs
  <2>2. f \in [DOMAIN f -> Texts]
    BY <1>1, <2>1
  <2> QED
    BY <2>1, <2>2, DictIs
<1> QED
  BY <1>2 DEF Configs

\* The password of one alias is replaced.
LEMMA TextSet ==
  ASSUME NEW c \in Configs(Texts), NEW a \in DOMAIN c.alias, NEW text \in Texts
  PROVE  LET d == [c EXCEPT !.alias[a] = text]
         IN /\ d \in Configs(Texts) /\ DOMAIN d.alias = DOMAIN c.alias
            /\ d.encrypt = c.encrypt /\ d.alias[a] = text
            /\ \A b \in DOMAIN c.alias \ {a} : d.alias[b] = c.alias[b]
<1> DEFINE alias1 == [c.alias EXCEPT ![a] = text]
           d == [c EXCEPT !.alias[a] = text]
<1>1. c.alias \in Dicts(Texts) /\ c.encrypt \in Settings
      /\ c = [encrypt |-> c.encrypt, alias |-> c.alias]
  BY DEF Configs
<1>2. DOMAIN c.alias \subseteq Aliases /\ c.alias \in [DOMAIN c.alias -> Texts]
  BY <1>1, DictIs
<1>3. /\ DOMAIN alias1 = DOMAIN c.alias /\ alias1 \in [DOMAIN c.alias -> Texts]
      /\ alias1[a] = text
      /\ \A b \in DOMAIN c.alias \ {a} : alias1[b] = c.alias[b]
  BY <1>2
<1>4. d = [encrypt |-> c.encrypt, alias |-> alias1]
  BY <1>1
<1> HIDE DEF alias1, d
<1>5. alias1 \in Dicts(Texts)
  BY <1>2, <1>3, DictIs
<1>6. d \in Configs(Texts) /\ d.alias = alias1 /\ d.encrypt = c.encrypt
  BY <1>1, <1>4, <1>5 DEF Configs
<1> QED
  BY <1>3, <1>6 DEF d

AnyKey == Keys \cup {NoKey}

SecInv ==
  /\ files \in Seq(Configs(Texts)) /\ config \in Configs(Texts)
  /\ todo \subseteq DOMAIN config.alias
  /\ keyring \in AnyKey /\ env \in AnyKey /\ KEY \in AnyKey /\ asked \in AnyKey
  /\ got.key \in AnyKey /\ under \in AnyKey
  /\ keyring # NoKey => Ring
  /\ got.key # NoKey => got.key = KEY
  /\ target \in 0 .. Len(files) /\ runs \in 0 .. MaxRuns
  /\ program # "none" /\ phase # "written" =>
       DOMAIN config.alias = DOMAIN Loaded.alias

LEMMA LoadedIs ==
  ASSUME NEW texts, files \in Seq(Configs(texts))
  PROVE  /\ Loaded \in Configs(texts)
         /\ DOMAIN Loaded.alias = Named(files, Len(files))
         /\ \A a \in DOMAIN Loaded.alias :
              \E i \in DOMAIN files :
                a \in DOMAIN files[i].alias /\ Loaded.alias[a] = files[i].alias[a]
<1>1. PICK G : Stages(G, texts, files) /\ Loaded = G[Len(files)]
  BY MergedFiles DEF Loaded
<1>2. Len(files) \in 0 .. Len(files) /\ DOMAIN files = 1 .. Len(files)
  OBVIOUS
<1> QED
  BY <1>1, <1>2, StageIs DEF Stages

LEMMA SecInit == Init => SecInv
<1> SUFFICES ASSUME Init PROVE SecInv
  OBVIOUS
<1>1. files \in Seq(Configs(Texts))
  <2>1. files \in Seq(Configs({Plain}))
    BY FirstConfigs DEF Init
  <2> DEFINE A == Configs({Plain})
             B == Configs(Texts)
  <2>2. A \subseteq B
    BY PlainConfigs
  <2> HIDE DEF A, B
  <2>3. files \in Seq(A) => files \in Seq(B)
    BY <2>2
  <2> QED
    BY <2>1, <2>3 DEF A, B
<1>2. config \in Configs(Texts) /\ todo \subseteq DOMAIN config.alias
  BY NoConfigIs DEF Init
<1>3. got.key = NoKey
  BY DEF Init, Nothing
<1>4. 0 \in 0 .. MaxRuns
  BY SecurityAssumption
<1> QED
  BY <1>1, <1>2, <1>3, <1>4 DEF Init, SecInv, AnyKey

\* A key that is asked for is the key of the process from then on.
LEMMA GotKey ==
  ASSUME SecInv, NEW k \in Keys, GetKey(k)
  PROVE  /\ keyring' \in AnyKey /\ (keyring' # NoKey => Ring)
         /\ KEY' = k /\ KEY' \in Keys /\ (KEY # NoKey => KEY' = KEY)
<1>1. NoKey \notin Keys /\ k # NoKey
  BY SecurityAssumption
<1>2. KEY # NoKey => k = KEY
  BY DEF GetKey, Typed, KeyAtHand
<1>3. KEY' = k
  BY <1>2 DEF GetKey, InitKey
<1> QED
  BY <1>1, <1>2, <1>3 DEF GetKey, SecInv, AnyKey

LEMMA Unmerged ==
  ASSUME files' = files
  PROVE  Loaded' = Loaded
BY DEF Loaded, FoldLeft, MapThenFoldSet

LEMMA SecStart ==
  ASSUME SecInv, Start
  PROVE  SecInv'
<1>1. Loaded' = Loaded
  BY Unmerged DEF Start
<1>2. config' = Loaded /\ todo' = DOMAIN config'.alias /\ Loaded \in Configs(Texts)
  BY LoadedIs DEF Start, SecInv
<1>3. /\ KEY' = NoKey /\ got'.key = NoKey /\ asked' = NoKey /\ env' \in AnyKey
      /\ UNCHANGED <<files, keyring, under>> /\ target' \in 0 .. Len(files)
  BY DEF Start, Nothing, AnyKey, history
<1>4. runs' \in 0 .. MaxRuns
  BY SecurityAssumption DEF SecInv, Start
<1> QED
  BY <1>1, <1>2, <1>3, <1>4 DEF SecInv, AnyKey

\* A step that changes at most one password, and asks for a key to do so.
LEMMA SecOneAlias ==
  ASSUME SecInv, NEW a \in todo, NEW text \in Texts, NEW k \in Keys, GetKey(k),
         config' = [config EXCEPT !.alias[a] = text], todo' = todo \ {a},
         UNCHANGED <<files, env, program, phase, target, asked, got, under, runs>>
  PROVE  SecInv'
<1>1. config' \in Configs(Texts) /\ DOMAIN config'.alias = DOMAIN config.alias
  BY TextSet DEF SecInv
<1>2. /\ keyring' \in AnyKey /\ (keyring' # NoKey => Ring)
      /\ KEY' \in Keys /\ (KEY # NoKey => KEY' = KEY)
  BY GotKey
<1>3. Loaded' = Loaded
  BY Unmerged
<1> QED
  BY <1>1, <1>2, <1>3 DEF SecInv, AnyKey

LEMMA SecParse ==
  ASSUME SecInv, NEW a, ParseCredentials(a)
  PROVE  SecInv'
<1>1. a \in todo
  BY DEF ParseCredentials
<1>2. CASE Split(a) /\ Encrypted
  <2> DEFINE text(k) == Decrypted(config.alias[a], k)
  <2>1. PICK k \in Keys : GetKey(k) /\ config' = [config EXCEPT !.alias[a] = text(k)]
    BY <1>2 DEF ParseCredentials
  <2>2. config.alias[a] \in Texts
    BY <1>1, DictIs DEF SecInv, Configs
  <2>3. text(k) \in Texts
    BY <2>2, TextIs
  <2> HIDE DEF text
  <2>4. /\ todo' = todo \ {a}
        /\ UNCHANGED <<files, env, program, phase, target, asked, got, under, runs>>
    BY DEF ParseCredentials, history
  <2> QED
    BY <1>1, <2>1, <2>3, <2>4, SecOneAlias
<1>3. CASE ~(Split(a) /\ Encrypted)
  <2>1. /\ UNCHANGED <<keyring, KEY, config>> /\ todo' = todo \ {a}
        /\ UNCHANGED <<files, env, program, phase, target, asked, got, under, runs>>
    BY <1>3 DEF ParseCredentials, history
  <2>2. Loaded' = Loaded
    BY <2>1, Unmerged
  <2> QED
    BY <2>1, <2>2 DEF SecInv
<1> QED
  BY <1>2, <1>3

LEMMA SecEncrypt ==
  ASSUME SecInv, NEW a, EncryptAlias(a)
  PROVE  SecInv'
<1>1. a \in todo
  BY DEF EncryptAlias
<1>2. CASE Split(a)
  <2> DEFINE text(k) == <<k>> \o config.alias[a]
  <2>1. PICK k \in Keys : GetKey(k) /\ config' = [config EXCEPT !.alias[a] = text(k)]
    BY <1>2 DEF EncryptAlias
  <2>2. config.alias[a] \in Texts /\ ~TooLong(config.alias[a])
    BY <1>1, <1>2, DictIs DEF SecInv, Configs, EncryptAlias
  <2>3. text(k) \in Texts
    BY <2>2, TextIs
  <2> HIDE DEF text
  <2>4. /\ todo' = todo \ {a}
        /\ UNCHANGED <<files, env, program, phase, target, asked, got, under, runs>>
    BY DEF EncryptAlias, history
  <2> QED
    BY <1>1, <2>1, <2>3, <2>4, SecOneAlias
<1>3. CASE ~Split(a)
  <2>1. /\ UNCHANGED <<keyring, KEY, config>> /\ todo' = todo \ {a}
        /\ UNCHANGED <<files, env, program, phase, target, asked, got, under, runs>>
    BY <1>3 DEF EncryptAlias, history
  <2>2. Loaded' = Loaded
    BY <2>1, Unmerged
  <2> QED
    BY <2>1, <2>2 DEF SecInv
<1> QED
  BY <1>2, <1>3

\* The setting that set and remove write.
LEMMA SettingSet ==
  ASSUME NEW c \in Configs(Texts), NEW setting \in Settings
  PROVE  LET d == [c EXCEPT !.encrypt = setting]
         IN /\ d \in Configs(Texts) /\ d.alias = c.alias /\ d.encrypt = setting
BY DEF Configs

LEMMA FileWritten ==
  ASSUME SecInv, NEW t, files' = [files EXCEPT ![t] = config]
  PROVE  /\ files' \in Seq(Configs(Texts)) /\ Len(files') = Len(files)
         /\ \A i \in 1 .. Len(files) : i # t => files'[i] = files[i]
         /\ t \in 1 .. Len(files) => files'[t] = config
<1> DEFINE n == Len(files)
<1>1. n \in Nat /\ files \in [1 .. n -> Configs(Texts)] /\ config \in Configs(Texts)
  BY DEF SecInv
<1> HIDE DEF n
<1>2. files' \in [1 .. n -> Configs(Texts)]
  BY <1>1
<1>3. files' \in Seq(Configs(Texts)) /\ Len(files') = n
  BY <1>1, <1>2
<1> QED
  BY <1>1, <1>3 DEF n

LEMMA SecNext == SecInv /\ [Next]_vars => SecInv'
<1> SUFFICES ASSUME SecInv, [Next]_vars PROVE SecInv'
  OBVIOUS
<1>1. CASE Start
  BY <1>1, SecStart
<1>2. CASE Set
  <2>1. /\ asked' \in Keys /\ config' = [config EXCEPT !.encrypt = "yes"]
        /\ todo' = DOMAIN config.alias /\ phase = "parse" /\ program = "set"
        /\ KEY' = IF KEY = NoKey THEN asked' ELSE KEY
        /\ UNCHANGED <<files, keyring, env, program, target, got, under, runs>>
    BY <1>2 DEF Set, Parsed, InitKey, history
  <2>2. config' \in Configs(Texts) /\ config'.alias = config.alias
    BY <2>1, SettingSet DEF SecInv, Settings
  <2>3. Loaded' = Loaded
    BY <2>1, Unmerged
  <2> QED
    BY <2>1, <2>2, <2>3 DEF SecInv, AnyKey
<1>3. CASE RemoveEncryption
  <2>1. /\ config' = [config EXCEPT !.encrypt = "no"] /\ phase = "parse"
        /\ UNCHANGED <<files, keyring, env, program, KEY, todo, target, asked, got,
                       under, runs>>
    BY <1>3 DEF RemoveEncryption, Parsed, history
  <2>2. config' \in Configs(Texts) /\ config'.alias = config.alias
    BY <2>1, SettingSet DEF SecInv, Settings
  <2>3. Loaded' = Loaded
    BY <2>1, Unmerged
  <2> QED
    BY <2>1, <2>2, <2>3 DEF SecInv
<1>11. CASE SetFails \/ \E a \in Aliases : ParseFails(a)
  <2>1. /\ program' = "none"
        /\ UNCHANGED <<files, env, config, todo, target, asked, got, under, runs>>
    BY <1>11 DEF SetFails, ParseFails, Stop, history
  <2>2. /\ keyring' \in AnyKey /\ (keyring' # NoKey => Ring)
        /\ KEY' \in AnyKey /\ (KEY # NoKey => KEY' = KEY)
    <3>1. CASE SetFails
      BY <3>1, SecurityAssumption DEF SetFails, InitKey, SecInv, AnyKey
    <3>2. CASE \E a \in Aliases : ParseFails(a)
      <4>1. PICK k \in Whole : GetKey(k)
        BY <3>2 DEF ParseFails
      <4>2. k \in Keys
        BY SecurityAssumption
      <4> QED
        BY <4>1, <4>2, GotKey DEF AnyKey
    <3> QED
      BY <1>11, <3>1, <3>2
  <2>3. got.key # NoKey => got.key = KEY'
    <3>1. got.key # NoKey => KEY # NoKey /\ got.key = KEY
      BY DEF SecInv
    <3> QED
      BY <2>2, <3>1
  <2> QED
    BY <2>1, <2>2, <2>3 DEF SecInv
<1>4. CASE DeleteKeyring \/ Exit \/ \E a \in Aliases : EncryptFails(a)
  <2>1. /\ program' = "none"
        /\ UNCHANGED <<files, keyring, env, KEY, config, todo, target, asked, got,
                       under, runs>>
    BY <1>4 DEF DeleteKeyring, Exit, EncryptFails, Stop, history
  <2> QED
    BY <2>1 DEF SecInv
<1>5. CASE Test
  <2>1. /\ config' = Loaded /\ todo' = DOMAIN config.alias
        /\ phase = "parse" /\ program = "test"
        /\ UNCHANGED <<files, keyring, env, program, KEY, target, asked, got, under,
                       runs>>
    BY <1>5 DEF Test, Parsed, history
  <2>2. DOMAIN config.alias = DOMAIN Loaded.alias
    BY <2>1 DEF SecInv
  <2>3. Loaded \in Configs(Texts) /\ Loaded' = Loaded
    BY <2>1, LoadedIs, Unmerged DEF SecInv
  <2> QED
    BY <2>1, <2>2, <2>3 DEF SecInv
<1>6. CASE Write
  <2>1. /\ phase' = "written" /\ UNCHANGED <<keyring, env, program, KEY, config, todo,
                                            target, asked, got, runs>>
    BY <1>6 DEF Write
  <2>2. CASE target = 0
    <3>1. UNCHANGED <<files, under>>
      BY <1>6, <2>2 DEF Write, history
    <3> QED
      BY <2>1, <3>1 DEF SecInv
  <2>3. CASE target # 0
    <3>1. /\ files' = [files EXCEPT ![target] = config]
          /\ under' \in {KEY, NoKey}
      BY <1>6, <2>3 DEF Write, SecInv
    <3>2. files' \in Seq(Configs(Texts)) /\ Len(files') = Len(files)
      BY <3>1, FileWritten
    <3> QED
      BY <2>1, <3>1, <3>2 DEF SecInv, AnyKey
  <2> QED
    BY <2>2, <2>3
<1>7. CASE \E a \in Aliases : ParseCredentials(a)
  BY <1>7, SecParse
<1>8. CASE \E a \in Aliases : EncryptAlias(a)
  BY <1>8, SecEncrypt
<1>9. CASE \E a \in Aliases : Login(a)
  <2>1. PICK a \in Aliases : Login(a)
    BY <1>9
  <2>2. /\ phase = "connect" /\ todo' = todo \ {a}
        /\ UNCHANGED <<files, env, program, phase, config, target, asked, under, runs>>
    BY <2>1 DEF Login, history
  <2>3. Loaded' = Loaded
    BY <2>2, Unmerged
  <2>4. /\ keyring' \in AnyKey /\ (keyring' # NoKey => Ring) /\ KEY' \in AnyKey
        /\ got'.key \in AnyKey /\ (got'.key # NoKey => got'.key = KEY')
    <3>1. CASE Encrypted
      <4>1. PICK k \in Keys :
              /\ GetKey(k)
              /\ got' = [left |-> Decrypted(config.alias[a], k), key |-> k]
        BY <2>1, <3>1 DEF Login
      <4>2. got'.key = k
        BY <4>1
      <4> QED
        BY <4>1, <4>2, GotKey DEF AnyKey
    <3>2. CASE ~Encrypted
      <4>1. got'.key = NoKey /\ UNCHANGED <<keyring, KEY>>
        BY <2>1, <3>2 DEF Login
      <4> QED
        BY <4>1 DEF SecInv, AnyKey
    <3> QED
      BY <3>1, <3>2
  <2> QED
    BY <2>2, <2>3, <2>4 DEF SecInv
<1>10. CASE UNCHANGED vars
  <2>1. Loaded' = Loaded
    BY <1>10, Unmerged DEF vars
  <2> QED
    BY <1>10, <2>1 DEF SecInv, vars, history
<1> QED
  BY <1>1, <1>2, <1>3, <1>4, <1>5, <1>6, <1>7, <1>8, <1>9, <1>10, <1>11 DEF Next

\* Every variable keeps its shape, and a process that has asked for a key
\* keeps it.
THEOREM SecurityTypeCorrect == Spec => []TypeOK
<1>1. ASSUME NEW c \in Configs(Texts) PROVE ConfigOK(c)
  <2>1. c.encrypt \in Settings /\ c.alias \in Dicts(Texts)
    BY DEF Configs
  <2>2. DOMAIN c.alias \subseteq Aliases /\ c.alias \in [DOMAIN c.alias -> Texts]
    BY <2>1, DictIs
  <2>3. \A a \in DOMAIN c.alias : c.alias[a] \in Seq(Keys)
    BY <2>2, TextIs
  <2> QED
    BY <2>1, <2>2, <2>3 DEF ConfigOK, Settings
<1>2. SecInv => TypeOK
  <2> SUFFICES ASSUME SecInv PROVE TypeOK
    OBVIOUS
  <2>1. \A f \in DOMAIN files : files[f] \in Configs(Texts)
    BY DEF SecInv
  <2>2. /\ \A f \in DOMAIN files : ConfigOK(files[f])
        /\ ConfigOK(config)
    BY <1>1, <2>1 DEF SecInv
  <2> QED
    BY <2>2 DEF SecInv, TypeOK, AnyKey
<1> QED
  BY <1>2, SecInit, SecNext, PTL DEF Spec

\* Whatever keys are typed, set and removed, and in whatever order: a password
\* in a file is plain text or encrypted once.
THEOREM OneKeyOpens == Spec => []NeverTwiceEncrypted
<1>1. SecInv => NeverTwiceEncrypted
  <2> SUFFICES ASSUME SecInv, NEW f \in DOMAIN files, NEW a \in DOMAIN files[f].alias
               PROVE  Len(files[f].alias[a]) <= 1
    BY DEF NeverTwiceEncrypted
  <2>1. files[f] \in Configs(Texts)
    BY DEF SecInv
  <2>2. files[f].alias[a] \in Texts
    BY <2>1, DictIs DEF Configs
  <2> QED
    BY <2>2, TextIs
<1> QED
  BY <1>1, SecInit, SecNext, PTL DEF Spec

-----------------------------------------------------------------------------
(***************************************************************************)
(* Logins. The last write decides what the files hold together, unless a   *)
(* file overrules it: plain text, or text encrypted with the key of that   *)
(* set. A password with an '@' is never touched.                           *)
(***************************************************************************)
Readable(c, key) ==
  \A a \in DOMAIN c.alias :
    c.alias[a] # Plain => c.alias[a] = <<key>> /\ key \in Keys /\ c.encrypt # "no"

Untouched(c) == \A a \in DOMAIN c.alias \cap Awkward : c.alias[a] = Plain

LoginInv ==
  /\ \A f \in DOMAIN files : Untouched(files[f])
  /\ Untouched(config)
  /\ ~damaged /\ ~overruled => Readable(Loaded, under)
  /\ program # "none" /\ phase = "connect" => config = Loaded
  /\ phase = "encrypt" => KEY \in Keys /\ config.encrypt = "yes"
  /\ program # "none" /\ phase = "encrypt" =>
       \A a \in DOMAIN config.alias \ (todo \cup Awkward) : config.alias[a] = <<KEY>>
  /\ phase = "write" => program = "remove" /\ config.encrypt = "no"
  /\ program # "none" /\ phase # "connect" => got = Nothing
  /\ LoginsKeepWorking

\* A step that leaves the files and what the last write was.
LEMMA StillLoaded ==
  ASSUME UNCHANGED <<files, history>>
  PROVE  Loaded' = Loaded /\ UNCHANGED <<under, damaged, overruled>>
BY Unmerged DEF history

LEMMA UntouchedLoaded ==
  ASSUME SecInv, LoginInv
  PROVE  Untouched(Loaded)
<1> SUFFICES ASSUME NEW a \in DOMAIN Loaded.alias \cap Awkward PROVE Loaded.alias[a] = Plain
  BY DEF Untouched
<1>1. PICK i \in DOMAIN files :
        a \in DOMAIN files[i].alias /\ Loaded.alias[a] = files[i].alias[a]
  BY LoadedIs DEF SecInv
<1> QED
  BY <1>1 DEF LoginInv, Untouched

LEMMA LoginInit == Init => LoginInv
<1> SUFFICES ASSUME Init PROVE LoginInv
  OBVIOUS
<1>1. files \in Seq(Configs({Plain})) /\ Loaded \in Configs({Plain})
  BY FirstConfigs, LoadedIs DEF Init
<1>2. ASSUME NEW c \in Configs({Plain})
      PROVE  \A a \in DOMAIN c.alias : c.alias[a] = Plain
  BY DictIs DEF Configs
<1>3. Readable(Loaded, under)
  BY <1>1, <1>2 DEF Readable
<1>4. \A f \in DOMAIN files : Untouched(files[f])
  <2>1. \A f \in DOMAIN files : files[f] \in Configs({Plain})
    BY <1>1
  <2> QED
    BY <1>2, <2>1 DEF Untouched
<1>5. Untouched(config)
  BY NoConfigIs DEF Init, Untouched
<1>6. program = "none" /\ phase = "parse" /\ got = Nothing
  BY DEF Init
<1> QED
  BY <1>3, <1>4, <1>5, <1>6 DEF LoginInv, LoginsKeepWorking

\* What the files say together after a write that no file overrules.
LEMMA LoadedWritten ==
  ASSUME SecInv, target # 0, DOMAIN config.alias = DOMAIN Loaded.alias,
         config.encrypt # "absent", ~Overruled,
         files' = [files EXCEPT ![target] = config]
  PROVE  Says(Loaded', config)
<1> DEFINE n == Len(files)
           t == target
<1>1. n \in Nat /\ t \in 1 .. n
  BY DEF SecInv
<1>2. /\ files' \in Seq(Configs(Texts)) /\ Len(files') = n
      /\ \A i \in 1 .. n : i # t => files'[i] = files[i]
      /\ files'[t] = config
  BY <1>1, FileWritten
<1>3. PICK G : Stages(G, Texts, files') /\ Loaded' = G[Len(files')]
  <2> DEFINE read == FoldLeft(LAMBDA c, file : Merge(file, c), NoConfig, files')
  <2>1. Loaded' = read
    BY DEF Loaded, FoldLeft, MapThenFoldSet
  <2>2. \E S : Stages(S, Texts, files') /\ read = S[Len(files')]
    BY <1>2, MergedFiles
  <2> HIDE DEF read
  <2> QED
    BY <2>1, <2>2
<1>4. \A i \in 1 .. n : DOMAIN files'[i].alias \subseteq DOMAIN config.alias
  <2>1. DOMAIN config.alias = Named(files, n)
    BY LoadedIs DEF SecInv
  <2> QED
    BY <1>2, <2>1 DEF Named
<1>5. ASSUME NEW i \in t + 1 .. n
      PROVE  /\ files'[i].encrypt \in {"absent", config.encrypt}
             /\ \A a \in DOMAIN files'[i].alias : files'[i].alias[a] = config.alias[a]
  <2>1. i \in 1 .. n /\ i # t
    BY <1>1
  <2> QED
    BY <1>2, <2>1 DEF Overruled
<1> DEFINE fs == files'
<1>6. /\ fs \in Seq(Configs(Texts)) /\ t \in 1 .. Len(fs) /\ fs[t].encrypt # "absent"
      /\ \A i \in 1 .. Len(fs) : DOMAIN fs[i].alias \subseteq DOMAIN fs[t].alias
      /\ \A i \in t + 1 .. Len(fs) :
           /\ fs[i].encrypt \in {"absent", fs[t].encrypt}
           /\ \A a \in DOMAIN fs[i].alias : fs[i].alias[a] = fs[t].alias[a]
      /\ Stages(G, Texts, fs) /\ Loaded' = G[Len(fs)] /\ fs[t] = config
  BY <1>1, <1>2, <1>3, <1>4, <1>5
<1> HIDE DEF fs, t
<1>7. Says(G[Len(fs)], fs[t])
  BY <1>6, StagesAgree
<1> QED
  BY <1>6, <1>7

LEMMA LoginStart ==
  ASSUME SecInv, LoginInv, Start
  PROVE  LoginInv'
<1>1. config' = Loaded /\ UNCHANGED <<files, history>>
  BY DEF Start
<1>2. Loaded' = Loaded /\ UNCHANGED <<under, damaged, overruled>>
  BY <1>1, StillLoaded
<1>3. got' = Nothing /\ phase' \in {"connect", "parse"}
  BY DEF Start
<1>4. Untouched(config')
  BY <1>1, UntouchedLoaded
<1>5. LoginsKeepWorking'
  BY <1>3 DEF LoginsKeepWorking
<1> QED
  BY <1>1, <1>2, <1>3, <1>4, <1>5 DEF LoginInv

\* The loops over the aliases: those with an '@' are left alone.
LEMMA LoginParse ==
  ASSUME SecInv, LoginInv, NEW a, ParseCredentials(a)
  PROVE  LoginInv'
<1>1. /\ a \in todo /\ phase = "parse"
      /\ UNCHANGED <<files, history, program, phase, got>>
      /\ \/ config' = config
         \/ \E k \in Keys : config' = [config EXCEPT !.alias[a] = Decrypted(@, k)]
  BY DEF ParseCredentials
<1>2. Loaded' = Loaded /\ UNCHANGED <<under, damaged, overruled>>
  BY <1>1, StillLoaded
<1>3. config.alias[a] \in Texts /\ a \in DOMAIN config.alias /\ config \in Configs(Texts)
  BY <1>1, DictIs DEF SecInv, Configs
<1>4. Untouched(config')
  <2>1. Untouched(config)
    BY DEF LoginInv
  <2>2. CASE config' # config
    <3> DEFINE text(k) == Decrypted(config.alias[a], k)
    <3>1. PICK k \in Keys : config' = [config EXCEPT !.alias[a] = text(k)]
      BY <1>1, <2>2
    <3>2. text(k) \in Texts /\ (config.alias[a] = Plain => text(k) = Plain)
      BY <1>3, TextIs DEF Decrypted, Decrypts
    <3> HIDE DEF text
    <3>3. /\ DOMAIN config'.alias = DOMAIN config.alias /\ config'.alias[a] = text(k)
          /\ \A d \in DOMAIN config.alias \ {a} : config'.alias[d] = config.alias[d]
      BY <1>3, <3>1, <3>2, TextSet
    <3> QED
      BY <2>1, <3>2, <3>3 DEF Untouched
  <2> QED
    BY <2>1, <2>2
<1>5. LoginsKeepWorking'
  BY <1>1, <1>2 DEF LoginInv, LoginsKeepWorking
<1> QED
  BY <1>1, <1>2, <1>4, <1>5 DEF LoginInv

LEMMA LoginEncrypt ==
  ASSUME SecInv, LoginInv, NEW a, EncryptAlias(a)
  PROVE  LoginInv'
<1>1. /\ a \in todo /\ todo' = todo \ {a} /\ phase = "encrypt" /\ program = "set"
      /\ ~(Split(a) /\ TooLong(config.alias[a]))
      /\ UNCHANGED <<files, history, program, phase, got>>
  BY DEF EncryptAlias
<1>2. Loaded' = Loaded /\ UNCHANGED <<under, damaged, overruled>>
  BY <1>1, StillLoaded
<1>3. config.alias[a] \in Texts /\ a \in DOMAIN config.alias /\ config \in Configs(Texts)
  BY <1>1, DictIs DEF SecInv, Configs
<1>4. KEY \in Keys /\ config.encrypt = "yes"
  BY <1>1 DEF LoginInv
<1>5. /\ KEY' = KEY /\ config'.encrypt = "yes"
      /\ DOMAIN config'.alias = DOMAIN config.alias
      /\ \A b \in DOMAIN config.alias \ {a} : config'.alias[b] = config.alias[b]
      /\ IF Split(a) THEN config'.alias[a] = <<KEY>>
         ELSE config'.alias[a] = config.alias[a]
  <2>1. CASE Split(a)
    <3> DEFINE text(k) == <<k>> \o config.alias[a]
    <3>1. PICK k \in Keys : GetKey(k) /\ config' = [config EXCEPT !.alias[a] = text(k)]
      BY <2>1 DEF EncryptAlias
    <3>2. k = KEY /\ KEY' = KEY
      <4>1. KEY # NoKey
        BY <1>4, SecurityAssumption
      <4> QED
        BY <3>1, <4>1, GotKey
    <3>3. text(k) = <<KEY>> /\ text(k) \in Texts
      BY <1>1, <1>3, <2>1, <3>2, TextIs
    <3> HIDE DEF text
    <3> QED
      BY <1>3, <1>4, <2>1, <3>1, <3>2, <3>3, TextSet
  <2>2. CASE ~Split(a)
    BY <1>4, <2>2 DEF EncryptAlias
  <2> QED
    BY <2>1, <2>2
<1>6. Split(a) <=> a \notin Awkward
  BY DEF Split
<1>7. Untouched(config')
  BY <1>5, <1>6 DEF LoginInv, Untouched
<1>8. ASSUME NEW b \in DOMAIN config'.alias \ (todo' \cup Awkward)
      PROVE  config'.alias[b] = <<KEY'>>
  <2>1. CASE b = a
    BY <1>5, <1>6, <1>8, <2>1
  <2>2. CASE b # a
    <3>1. b \in DOMAIN config.alias \ (todo \cup Awkward)
      BY <1>1, <1>5, <1>8, <2>2
    <3>2. config.alias[b] = <<KEY>>
      BY <1>1, <3>1 DEF LoginInv
    <3> QED
      BY <1>5, <2>2, <3>1, <3>2
  <2> QED
    BY <2>1, <2>2
<1>9. LoginsKeepWorking'
  BY <1>1, <1>2 DEF LoginInv, LoginsKeepWorking
<1> QED
  BY <1>1, <1>2, <1>4, <1>5, <1>7, <1>8, <1>9 DEF LoginInv

LEMMA LoginWrite ==
  ASSUME SecInv, LoginInv, Write
  PROVE  LoginInv'
<1>1. /\ \/ phase = "encrypt" /\ program = "set" /\ todo = {}
         \/ phase = "write" /\ program = "remove"
      /\ phase' = "written" /\ UNCHANGED <<program, KEY, config, todo, target, got>>
  BY DEF Write, LoginInv
<1>2. got = Nothing /\ got' = Nothing
  BY <1>1 DEF LoginInv
<1>3. LoginsKeepWorking'
  BY <1>2 DEF LoginsKeepWorking
<1>4. CASE target = 0
  <2>1. UNCHANGED <<files, history>>
    BY <1>4 DEF Write
  <2>2. Loaded' = Loaded /\ UNCHANGED <<under, damaged, overruled>>
    BY <2>1, StillLoaded
  <2> QED
    BY <1>1, <1>2, <1>3, <2>1, <2>2 DEF LoginInv
<1>5. CASE target # 0
  <2>1. /\ files' = [files EXCEPT ![target] = config]
        /\ under' = IF program = "set" THEN KEY ELSE NoKey
        /\ damaged' = (program = "remove" /\
                         \E a \in DOMAIN config.alias : config.alias[a] # Plain)
        /\ overruled' = Overruled
    BY <1>5 DEF Write
  <2>2. /\ Untouched(config) /\ DOMAIN config.alias = DOMAIN Loaded.alias
        /\ config.encrypt = IF program = "set" THEN "yes" ELSE "no"
    BY <1>1 DEF LoginInv, SecInv
  <2>3. ASSUME ~damaged', ~overruled' PROVE Readable(Loaded', under')
    <3>1. Says(Loaded', config)
      BY <1>5, <2>1, <2>2, <2>3, LoadedWritten
    <3>2. CASE program = "set"
      <4>1. \A a \in DOMAIN config.alias : config.alias[a] \in {Plain, <<KEY>>}
        BY <1>1, <2>2, <3>2 DEF LoginInv, Untouched
      <4>2. KEY \in Keys
        BY <1>1, <3>2 DEF LoginInv
      <4> QED
        BY <2>1, <2>2, <3>1, <3>2, <4>1, <4>2 DEF Readable, Says
    <3>3. CASE program = "remove"
      <4>1. \A a \in DOMAIN config.alias : config.alias[a] = Plain
        BY <2>1, <2>3, <3>3
      <4> QED
        BY <3>1, <4>1 DEF Readable, Says
    <3> QED
      BY <1>1, <3>2, <3>3
  <2>4. \A f \in DOMAIN files' : Untouched(files'[f])
    <3>1. /\ Len(files') = Len(files) /\ files' \in Seq(Configs(Texts))
          /\ files \in Seq(Configs(Texts))
          /\ \A i \in 1 .. Len(files) : i # target => files'[i] = files[i]
          /\ target \in 1 .. Len(files) => files'[target] = config
      BY <2>1, FileWritten DEF SecInv
    <3>2. \A f \in DOMAIN files : Untouched(files[f])
      BY DEF LoginInv
    <3> QED
      BY <2>2, <3>1, <3>2
  <2> QED
    BY <1>1, <1>2, <1>3, <2>2, <2>3, <2>4 DEF LoginInv
<1> QED
  BY <1>4, <1>5

LEMMA LoginLogin ==
  ASSUME SecInv, LoginInv, NEW a, Login(a)
  PROVE  LoginInv'
<1>1. /\ phase = "connect" /\ program # "none" /\ a \in todo
      /\ UNCHANGED <<files, history, program, phase, config>>
  BY DEF Login
<1>2. /\ Loaded' = Loaded /\ config = Loaded
      /\ UNCHANGED <<under, damaged, overruled>>
  BY <1>1, StillLoaded DEF LoginInv
<1> DEFINE text == config.alias[a]
<1>3. text \in Texts /\ a \in DOMAIN config.alias
  BY <1>1, DictIs DEF SecInv, Configs
<1>4. ASSUME ~damaged, ~overruled, text # Plain
      PROVE  text = <<under>> /\ under \in Keys /\ config.encrypt # "no"
  BY <1>2, <1>3, <1>4 DEF LoginInv, Readable
<1> HIDE DEF text
<1>5. ASSUME ~damaged, ~overruled, under = NoKey \/ got'.key \in {under, NoKey}
      PROVE  got'.left = Plain
  <2>1. CASE Encrypted
    <3>1. PICK k \in Keys : got' = [left |-> Decrypted(text, k), key |-> k]
      BY <2>1 DEF Login, text
    <3>2. got'.key = k /\ got'.left = Decrypted(text, k) /\ k # NoKey
      BY <3>1, SecurityAssumption
    <3>3. CASE text = Plain
      BY <3>2, <3>3 DEF Decrypted, Decrypts
    <3>4. CASE text # Plain
      <4>1. text = <<under>> /\ under \in Keys /\ under # NoKey
        BY <1>4, <1>5, <3>4, SecurityAssumption
      <4>2. k = under
        BY <1>5, <3>2, <4>1
      <4>3. Head(text) = k /\ Tail(text) = << >>
        BY <4>1, <4>2
      <4> QED
        BY <3>2, <3>4, <4>3 DEF Decrypted, Decrypts, Plain
    <3> QED
      BY <3>3, <3>4
  <2>2. CASE ~Encrypted
    <3>1. got' = [left |-> text, key |-> NoKey] /\ config.encrypt = "no"
      BY <2>2 DEF Login, Encrypted, text
    <3>2. got'.left = text
      BY <3>1
    <3> QED
      BY <1>4, <1>5, <3>1, <3>2
  <2> QED
    BY <2>1, <2>2
<1>6. LoginsKeepWorking'
  BY <1>2, <1>5 DEF LoginsKeepWorking
<1> QED
  BY <1>1, <1>2, <1>6 DEF LoginInv

LEMMA LoginNext == SecInv /\ LoginInv /\ [Next]_vars => LoginInv'
<1> SUFFICES ASSUME SecInv, LoginInv, [Next]_vars PROVE LoginInv'
  OBVIOUS
<1>1. CASE Start
  BY <1>1, LoginStart
<1>2. CASE Set
  <2>1. /\ asked' \in Keys /\ config' = [config EXCEPT !.encrypt = "yes"]
        /\ todo' = DOMAIN config.alias /\ phase = "parse" /\ program = "set"
        /\ KEY' = IF KEY = NoKey THEN asked' ELSE KEY
        /\ phase' = "encrypt"
        /\ UNCHANGED <<files, history, program, got>>
    BY <1>2 DEF Set, Parsed, InitKey
  <2>2. config'.alias = config.alias /\ config'.encrypt = "yes"
    BY <2>1, SettingSet DEF SecInv, Settings
  <2>3. KEY' \in Keys
    BY <2>1 DEF SecInv, AnyKey
  <2>4. Loaded' = Loaded /\ UNCHANGED <<under, damaged, overruled>>
    BY <2>1, StillLoaded
  <2>5. LoginsKeepWorking'
    BY <2>1, <2>4 DEF LoginInv, LoginsKeepWorking
  <2>6. Untouched(config')
    BY <2>2 DEF LoginInv, Untouched
  <2> QED
    BY <2>1, <2>2, <2>3, <2>4, <2>5, <2>6 DEF LoginInv
<1>3. CASE RemoveEncryption
  <2>1. /\ config' = [config EXCEPT !.encrypt = "no"] /\ phase = "parse"
        /\ program = "remove" /\ phase' = "write"
        /\ UNCHANGED <<files, history, program, got>>
    BY <1>3 DEF RemoveEncryption, Parsed
  <2>2. config'.alias = config.alias /\ config'.encrypt = "no"
    BY <2>1, SettingSet DEF SecInv, Settings
  <2>3. Loaded' = Loaded /\ UNCHANGED <<under, damaged, overruled>>
    BY <2>1, StillLoaded
  <2>4. LoginsKeepWorking'
    BY <2>1, <2>3 DEF LoginInv, LoginsKeepWorking
  <2>5. Untouched(config')
    BY <2>2 DEF LoginInv, Untouched
  <2> QED
    BY <2>1, <2>2, <2>3, <2>4, <2>5 DEF LoginInv
<1>4. CASE \/ DeleteKeyring \/ Exit \/ SetFails
           \/ \E a \in Aliases : EncryptFails(a) \/ ParseFails(a)
  <2>1. /\ program' = "none" /\ phase # "write"
        /\ UNCHANGED <<files, history, phase, config, got>>
        /\ phase = "encrypt" => KEY' = KEY
    BY <1>4 DEF DeleteKeyring, Exit, SetFails, EncryptFails, ParseFails, Stop, Parsed
  <2>2. Loaded' = Loaded /\ UNCHANGED <<under, damaged, overruled>>
    BY <2>1, StillLoaded
  <2>3. LoginsKeepWorking'
    BY <2>1, <2>2 DEF LoginInv, LoginsKeepWorking
  <2> QED
    BY <2>1, <2>2, <2>3 DEF LoginInv
<1>5. CASE Test
  <2>1. /\ config' = Loaded /\ phase' = "connect" /\ program = "test" /\ phase = "parse"
        /\ UNCHANGED <<files, history, program, got>>
    BY <1>5 DEF Test, Parsed
  <2>2. Loaded' = Loaded /\ UNCHANGED <<under, damaged, overruled>>
    BY <2>1, StillLoaded
  <2>3. LoginsKeepWorking'
    BY <2>1, <2>2 DEF LoginInv, LoginsKeepWorking
  <2>4. Untouched(config')
    BY <2>1, UntouchedLoaded
  <2> QED
    BY <2>1, <2>2, <2>3, <2>4 DEF LoginInv
<1>6. CASE Write
  BY <1>6, LoginWrite
<1>7. CASE \E a \in Aliases : ParseCredentials(a)
  BY <1>7, LoginParse
<1>8. CASE \E a \in Aliases : EncryptAlias(a)
  BY <1>8, LoginEncrypt
<1>9. CASE \E a \in Aliases : Login(a)
  BY <1>9, LoginLogin
<1>10. CASE UNCHANGED vars
  <2>1. Loaded' = Loaded /\ UNCHANGED <<under, damaged, overruled>>
    BY <1>10, StillLoaded DEF vars
  <2>2. LoginsKeepWorking'
    BY <1>10, <2>1 DEF LoginInv, LoginsKeepWorking, vars
  <2> QED
    BY <1>10, <2>1, <2>2 DEF LoginInv, vars
<1> QED
  BY <1>1, <1>2, <1>3, <1>4, <1>5, <1>6, <1>7, <1>8, <1>9, <1>10 DEF Next

\* Whatever file the output goes to, and whatever the commands before: after a
\* write that no file overrules and that has kept no text it could not decrypt,
\* a process whose key is the one of that set, or that is told not to ask for
\* one, reads every password.
THEOREM LoginsSucceed == Spec => []LoginsKeepWorking
<1>1. LoginInv => LoginsKeepWorking
  BY DEF LoginInv
<1> QED
  BY <1>1, SecInit, SecNext, LoginInit, LoginNext, PTL DEF Spec

=============================================================================
