--------------------------- MODULE ConversionProofs ---------------------------
(* Proofs about the components that convert or configure (configurations,        *)
(* OpenTelemetry records, colours, slog handlers) or limit a rate (samplers,     *)
(* alert senders, the token bucket), for every set of inputs, any depth of       *)
(* groups, any rates and any number of callers and changes.  Each section gives  *)
(* the component's inductive invariant, that it holds at the start, that every   *)
(* step keeps it, and what it means; ProcessingProofs joins them.                *)
EXTENDS EntryProofs, ConfigLoad, Otel, Colours, Slog, Sampling, RateLimiter, Alerts


-----------------------------------------------------------------------------
(* Configurations (loader.go).                                                *)

AllSet == Settings \union BaseOnly
\* The last of some configurations after the first, or the first.
LastOfThem(who) == IF who = {} THEN 1 ELSE CHOOSE i \in who : \A j \in who : j <= i
\* The texts a configuration is made from.
FilledIn(env) == [k \in LevelKeys |-> IF env.texts[k] = "" THEN EnvDefault[k] ELSE env.texts[k]]
AllTexts == {doc.texts : doc \in Documents} \union {FilledIn(env) : env \in Environments} \union {NilConfig.texts}
ConfigRecord == [lv : [LevelKeys -> Names], mask : BOOLEAN, set : [AllSet -> Int], texts : AllTexts,
                 validated : BOOLEAN, nil : BOOLEAN]
Config == {c \in ConfigRecord : c.nil => c = NilConfig}

\* What a document that was loaded says of its levels.
AsWritten(c) ==
    c.validated => \A k \in LevelKeys : (k = "logger" => c.set["loggers"] > 0) =>
                      c.lv[k] = IF Upper(c.texts[k]) = "WARNING" THEN "WARN" ELSE Upper(c.texts[k])

LoadInv ==
    /\ configs \in Seq(Config)
    /\ \A i \in 1 .. Len(configs) : AsWritten(configs[i])
    /\ merged = <<>> \/ (/\ configs # <<>> /\ merged = <<FoldLeft(MergeHaloLogConfig, Head(configs), Tail(configs))>>
                        /\ ~(Head(configs).nil /\ \E i \in DOMAIN configs : ~configs[i].nil))

\* A level that is parsed is a level.
LEMMA ParsedIs == \A t : ParseLogLevel(t) \in Names
  <1>1. "INFO" \in Names /\ "WARN" \in Names
    BY DEF Names
  <1> QED BY <1>1 DEF ParseLogLevel

\* The parser of a valid text returns what the text names.
LEMMA ValidParsed ==
  ASSUME NEW t, ValidLevel(t)
  PROVE  ParseLogLevel(t) = IF Upper(t) = "WARNING" THEN "WARN" ELSE Upper(t)
  BY DEF ParseLogLevel, ValidLevel, Names

\* The fields of a configuration.
LEMMA ConfigFields ==
  ASSUME NEW c \in Config
  PROVE  /\ c.lv \in [LevelKeys -> Names] /\ c.mask \in BOOLEAN /\ c.set \in [AllSet -> Int]
         /\ c.texts \in AllTexts /\ c.validated \in BOOLEAN /\ c.nil \in BOOLEAN
         /\ (c.nil => c = NilConfig)
  BY DEF Config, ConfigRecord

LEMMA NilFields ==
  /\ NilConfig \in Config /\ NilConfig.mask = FALSE /\ NilConfig.nil = TRUE /\ NilConfig.validated = FALSE
  /\ \A k \in LevelKeys : NilConfig.lv[k] = "INFO"
  /\ \A s \in AllSet : NilConfig.set[s] = 0
  <1>. DEFINE L == [k \in LevelKeys |-> "INFO"]
              S == [s \in AllSet |-> 0]
              T == NilConfig.texts
  <1>1. NilConfig = [lv |-> L, mask |-> FALSE, set |-> S, texts |-> T, validated |-> FALSE, nil |-> TRUE]
    BY DEF NilConfig, AllSet
  <1>2. L \in [LevelKeys -> Names] /\ S \in [AllSet -> Int] /\ (\A k \in LevelKeys : L[k] = "INFO") /\ \A s \in AllSet : S[s] = 0
    BY DEF Names
  <1>3. T \in AllTexts
    BY DEF AllTexts
  <1>. HIDE DEF L, S, T
  <1>4. NilConfig \in ConfigRecord
    BY <1>1, <1>2, <1>3 DEF ConfigRecord
  <1> QED BY <1>1, <1>2, <1>4 DEF Config

\* The merge of two configurations, setting by setting.
MergeAs(r, a, b) ==
    /\ \A k \in LevelKeys : r.lv[k] = (CASE k \in EnvLevels /\ b.lv[k] # "INFO" -> b.lv[k]
                                         [] k = "logger" /\ b.set["loggers"] > 0 -> b.lv[k]
                                         [] OTHER -> a.lv[k])
    /\ \A s \in AllSet : r.set[s] = IF s \in Settings /\ b.set[s] > 0 THEN b.set[s] ELSE a.set[s]
    /\ r.mask = (a.mask \/ b.mask)
    /\ r.nil = (a.nil /\ b.nil)

LEMMA MergeIn ==
  ASSUME NEW a \in Config, NEW b \in Config
  PROVE  MergeHaloLogConfig(a, b) \in Config /\ MergeAs(MergeHaloLogConfig(a, b), a, b)
  <1>. DEFINE L == [k \in LevelKeys |-> CASE k \in EnvLevels /\ b.lv[k] # "INFO" -> b.lv[k]
                                         [] k = "logger" /\ b.set["loggers"] > 0 -> b.lv[k]
                                         [] OTHER -> a.lv[k]]
              S == [s \in AllSet |-> IF s \in Settings /\ b.set[s] > 0 THEN b.set[s] ELSE a.set[s]]
              m == a.mask \/ b.mask
              r == [lv |-> L, mask |-> m, set |-> S, texts |-> a.texts, validated |-> a.validated, nil |-> FALSE]
  <1>1. ~b.nil => MergeHaloLogConfig(a, b) = r
    BY DEF MergeHaloLogConfig, AllSet
  <1>2. L \in [LevelKeys -> Names]
    BY ConfigFields
  <1>3. S \in [AllSet -> Int]
    BY ConfigFields
  <1>4. m \in BOOLEAN /\ a.texts \in AllTexts /\ a.validated \in BOOLEAN
    BY ConfigFields
  <1>5. (\A k \in LevelKeys : L[k] = (CASE k \in EnvLevels /\ b.lv[k] # "INFO" -> b.lv[k]
                                         [] k = "logger" /\ b.set["loggers"] > 0 -> b.lv[k]
                                         [] OTHER -> a.lv[k]))
        /\ \A s \in AllSet : S[s] = IF s \in Settings /\ b.set[s] > 0 THEN b.set[s] ELSE a.set[s]
    OBVIOUS
  <1>. HIDE DEF L, S, m
  <1>6. r \in Config
    BY <1>2, <1>3, <1>4 DEF Config, ConfigRecord
  <1>7. r.lv = L /\ r.set = S /\ r.mask = m /\ r.nil = FALSE
    OBVIOUS
  <1>. HIDE DEF r
  <1>8. ~b.nil => MergeAs(r, a, b)
    BY <1>5, <1>7 DEF MergeAs, m
  <1>9. ASSUME b.nil PROVE MergeHaloLogConfig(a, b) = a /\ MergeAs(a, a, b)
    <2>1. b = NilConfig /\ a.mask \in BOOLEAN /\ a.nil \in BOOLEAN
      BY <1>9, ConfigFields
    <2>2. /\ b.mask = FALSE /\ b.nil = TRUE /\ (\A k \in LevelKeys : b.lv[k] = "INFO") /\ \A s \in AllSet : b.set[s] = 0
          /\ EnvLevels \subseteq LevelKeys /\ "loggers" \in AllSet
      BY <2>1, NilFields DEF EnvLevels, AllSet, Settings
    <2>3. MergeAs(a, a, b)
      BY <2>1, <2>2 DEF MergeAs
    <2> QED BY <1>9, <2>3 DEF MergeHaloLogConfig
  <1>10. b.nil \in BOOLEAN
    BY ConfigFields
  <1> QED BY <1>1, <1>6, <1>8, <1>9, <1>10

\* The merge of several configurations, one after the other.
LEMMA MergesRun ==
  ASSUME NEW base \in Config, NEW cs \in Seq(Config)
  PROVE  \E g : /\ g[0] = base /\ FoldLeft(MergeHaloLogConfig, base, cs) = g[Len(cs)]
                /\ \A k \in 1 .. Len(cs) : g[k] = MergeHaloLogConfig(g[k - 1], cs[k])
  <1>. DEFINE n == Len(cs)
              G == [p \in Config \X (1 .. n) |-> MergeHaloLogConfig(p[1], cs[p[2]])]
  <1>1. n \in Nat /\ DOMAIN cs = 1 .. n /\ (\A i \in 1 .. n : cs[i] \in Config) /\ base \in Config
    OBVIOUS
  <1>2. G \in [Config \X (1 .. n) -> Config] /\ \A e \in Config, i \in 1 .. n : G[<<e, i>>] = MergeHaloLogConfig(e, cs[i])
    BY <1>1, MergeIn
  <1>. HIDE DEF n, G
  <1>3. PICK f : FoldUpto(f, Config, G, base, n)
    BY <1>1, <1>2, FoldExists
  <1>4. f = [t \in SUBSET (1 .. n) |-> IF t = {} THEN base ELSE MergeHaloLogConfig(f[t \ {Max(t)}], cs[Max(t)])]
    <2>1. /\ f \in [SUBSET (1 .. n) -> Config] /\ f[{}] = base
          /\ \A t \in SUBSET (1 .. n) : t # {} =>
                Max(t) \in 1 .. n /\ f[t \ {Max(t)}] \in Config /\ f[t] = G[<<f[t \ {Max(t)}], Max(t)>>]
      <3>1. FoldIs(f, Config, G, base, n)
        BY <1>1, <1>3, FoldValues
      <3> QED BY <3>1 DEF FoldIs
    <2>2. \A t \in SUBSET (1 .. n) : t # {} => f[t] = MergeHaloLogConfig(f[t \ {Max(t)}], cs[Max(t)])
      BY <2>1, <1>2
    <2> QED BY <2>1, <2>2
  <1>. DEFINE iter == CHOOSE h : h = [t \in SUBSET (1 .. n) |-> IF t = {} THEN base ELSE MergeHaloLogConfig(h[t \ {Max(t)}], cs[Max(t)])]
              g == [k \in 0 .. n |-> iter[1 .. k]]
  <1>5. iter = [t \in SUBSET (1 .. n) |-> IF t = {} THEN base ELSE MergeHaloLogConfig(iter[t \ {Max(t)}], cs[Max(t)])]
    BY <1>4
  <1>6. FoldLeft(MergeHaloLogConfig, base, cs) = iter[1 .. n]
    BY <1>1 DEF FoldLeft, MapThenFoldSet
  <1>. HIDE DEF iter
  <1>7. g[0] = base /\ g[n] = FoldLeft(MergeHaloLogConfig, base, cs) /\ \A k \in 1 .. n : g[k] = MergeHaloLogConfig(g[k - 1], cs[k])
    <2>1. /\ 1 .. 0 = {} /\ {} \in SUBSET (1 .. n) /\ 0 \in 0 .. n /\ n \in 0 .. n
          /\ \A k \in 1 .. n : /\ k \in 0 .. n /\ k - 1 \in 0 .. n /\ 1 .. k \in SUBSET (1 .. n) /\ 1 .. k # {}
                               /\ Max(1 .. k) = k /\ (1 .. k) \ {Max(1 .. k)} = 1 .. k - 1
      BY <1>1, FirstOnes
    <2>2. iter[{}] = base /\ \A k \in 1 .. n : iter[1 .. k] = MergeHaloLogConfig(iter[1 .. k - 1], cs[k])
      BY <1>5, <2>1
    <2> QED BY <1>6, <2>1, <2>2
  <1> QED BY <1>7 DEF n

\* The last of some numbers and a larger one is that one.
LEMMA LastIsLargest ==
  ASSUME NEW A, NEW m \in Nat, A \subseteq Nat, \A j \in A : j < m
  PROVE  LastOfThem(A \union {m}) = m
  <1>. DEFINE W == A \union {m}
  <1>1. \A i \in W : (\A j \in W : j <= i) <=> i = m
    OBVIOUS
  <1>2. m \in W /\ W # {}
    OBVIOUS
  <1>. HIDE DEF W
  <1>3. (CHOOSE i \in W : \A j \in W : j <= i) = m
    BY <1>1, <1>2
  <1>4. LastOfThem(W) = m
    BY <1>2, <1>3 DEF LastOfThem
  <1> QED BY <1>4 DEF W

\* The last number up to n + 1 of a set.
LEMMA LastStep ==
  ASSUME NEW W, NEW n \in Nat
  PROVE  LastOfThem(W \intersect (2 .. n + 2)) = IF n + 2 \in W THEN n + 2 ELSE LastOfThem(W \intersect (2 .. n + 1))
  <1>1. CASE n + 2 \in W
    <2>1. W \intersect (2 .. n + 2) = (W \intersect (2 .. n + 1)) \union {n + 2}
      BY <1>1
    <2>2. W \intersect (2 .. n + 1) \subseteq Nat /\ (\A j \in W \intersect (2 .. n + 1) : j < n + 2) /\ n + 2 \in Nat
      OBVIOUS
    <2> QED BY <1>1, <2>1, <2>2, LastIsLargest
  <1>2. CASE n + 2 \notin W
    <2>1. W \intersect (2 .. n + 2) = W \intersect (2 .. n + 1)
      BY <1>2
    <2> QED BY <1>2, <2>1
  <1> QED BY <1>1, <1>2

\* Of the configurations, those that give a setting, and those that give a level.
Giving(cs, s) == {j \in 1 .. Len(cs) : cs[j].set[s] > 0}
Saying(cs, k) == {j \in 1 .. Len(cs) : cs[j].lv[k] # "INFO"}

\* What the merge of the first n + 1 configurations is.
MergedIs(r, cs, n) ==
    /\ \A s \in Settings : r.set[s] = cs[LastOfThem(Giving(cs, s) \intersect (2 .. n + 1))].set[s]
    /\ \A k \in EnvLevels : r.lv[k] = cs[LastOfThem(Saying(cs, k) \intersect (2 .. n + 1))].lv[k]
    /\ r.mask = \E j \in 1 .. n + 1 : cs[j].mask
    /\ r.lv["logger"] = cs[LastOfThem(Giving(cs, "loggers") \intersect (2 .. n + 1))].lv["logger"]
    /\ r.nil = \A j \in 1 .. n + 1 : cs[j].nil

LEMMA MergedStart ==
  ASSUME NEW cs \in Seq(Config), Len(cs) > 0
  PROVE  MergedIs(cs[1], cs, 0)
  <1>1. 2 .. 0 + 1 = {} /\ 1 .. 0 + 1 = {1}
    OBVIOUS
  <1>2. \A W : LastOfThem(W \intersect (2 .. 0 + 1)) = 1
    BY <1>1 DEF LastOfThem
  <1>3. cs[1].mask = \E j \in 1 .. 0 + 1 : cs[j].mask
    <2>1. cs[1].mask \in BOOLEAN
      BY ConfigFields
    <2> QED BY <1>1, <2>1
  <1>4. cs[1].nil = \A j \in 1 .. 0 + 1 : cs[j].nil
    <2>1. cs[1].nil \in BOOLEAN
      BY ConfigFields
    <2> QED BY <1>1, <2>1
  <1> QED BY <1>2, <1>3, <1>4 DEF MergedIs

LEMMA MergedGoesOn ==
  ASSUME NEW cs \in Seq(Config), NEW n \in Nat, n + 2 <= Len(cs), NEW r \in Config, MergedIs(r, cs, n),
         NEW q, MergeAs(q, r, cs[n + 2])
  PROVE  MergedIs(q, cs, n + 1)
  <1>. DEFINE c == cs[n + 2]
  <1>1. n + 2 \in 1 .. Len(cs) /\ (n + 1) + 1 = n + 2 /\ c \in Config
    OBVIOUS
  <1>2. LevelKeys = EnvLevels \union {"logger"} /\ "logger" \notin EnvLevels /\ "loggers" \in Settings
    BY DEF LevelKeys, EnvLevels, Settings
  <1>3. \A W : LastOfThem(W \intersect (2 .. (n + 1) + 1)) =
               IF n + 2 \in W THEN n + 2 ELSE LastOfThem(W \intersect (2 .. n + 1))
    BY <1>1, LastStep
  <1>4. /\ \A s : n + 2 \in Giving(cs, s) <=> c.set[s] > 0
        /\ \A k : n + 2 \in Saying(cs, k) <=> c.lv[k] # "INFO"
    BY <1>1 DEF Giving, Saying
  <1>5. ASSUME NEW s \in Settings
        PROVE  q.set[s] = cs[LastOfThem(Giving(cs, s) \intersect (2 .. (n + 1) + 1))].set[s]
    <2>1. q.set[s] = IF c.set[s] > 0 THEN c.set[s] ELSE r.set[s]
      BY <1>5 DEF MergeAs, AllSet
    <2>2. r.set[s] = cs[LastOfThem(Giving(cs, s) \intersect (2 .. n + 1))].set[s]
      BY DEF MergedIs
    <2>. HIDE DEF c
    <2>3. CASE c.set[s] > 0
      <3>1. LastOfThem(Giving(cs, s) \intersect (2 .. (n + 1) + 1)) = n + 2
        BY <1>3, <1>4, <2>3
      <3> QED BY <2>1, <2>3, <3>1 DEF c
    <2>4. CASE ~(c.set[s] > 0)
      <3>1. LastOfThem(Giving(cs, s) \intersect (2 .. (n + 1) + 1)) = LastOfThem(Giving(cs, s) \intersect (2 .. n + 1))
        BY <1>3, <1>4, <2>4
      <3> QED BY <2>1, <2>2, <2>4, <3>1
    <2> QED BY <2>3, <2>4
  <1>6. ASSUME NEW k \in EnvLevels
        PROVE  q.lv[k] = cs[LastOfThem(Saying(cs, k) \intersect (2 .. (n + 1) + 1))].lv[k]
    <2>1. q.lv[k] = IF c.lv[k] # "INFO" THEN c.lv[k] ELSE r.lv[k]
      BY <1>2 DEF MergeAs
    <2>2. r.lv[k] = cs[LastOfThem(Saying(cs, k) \intersect (2 .. n + 1))].lv[k]
      BY DEF MergedIs
    <2>. HIDE DEF c
    <2>3. CASE c.lv[k] # "INFO"
      <3>1. LastOfThem(Saying(cs, k) \intersect (2 .. (n + 1) + 1)) = n + 2
        BY <1>3, <1>4, <2>3
      <3> QED BY <2>1, <2>3, <3>1 DEF c
    <2>4. CASE c.lv[k] = "INFO"
      <3>1. LastOfThem(Saying(cs, k) \intersect (2 .. (n + 1) + 1)) = LastOfThem(Saying(cs, k) \intersect (2 .. n + 1))
        BY <1>3, <1>4, <2>4
      <3> QED BY <2>1, <2>2, <2>4, <3>1
    <2> QED BY <2>3, <2>4
  <1>7. q.lv["logger"] = cs[LastOfThem(Giving(cs, "loggers") \intersect (2 .. (n + 1) + 1))].lv["logger"]
    <2>1. q.lv["logger"] = IF c.set["loggers"] > 0 THEN c.lv["logger"] ELSE r.lv["logger"]
      BY <1>2 DEF MergeAs
    <2>2. r.lv["logger"] = cs[LastOfThem(Giving(cs, "loggers") \intersect (2 .. n + 1))].lv["logger"]
      BY DEF MergedIs
    <2>. HIDE DEF c
    <2>3. CASE c.set["loggers"] > 0
      <3>1. LastOfThem(Giving(cs, "loggers") \intersect (2 .. (n + 1) + 1)) = n + 2
        BY <1>3, <1>4, <2>3
      <3> QED BY <2>1, <2>3, <3>1 DEF c
    <2>4. CASE ~(c.set["loggers"] > 0)
      <3>1. LastOfThem(Giving(cs, "loggers") \intersect (2 .. (n + 1) + 1))
               = LastOfThem(Giving(cs, "loggers") \intersect (2 .. n + 1))
        BY <1>3, <1>4, <2>4
      <3> QED BY <2>1, <2>2, <2>4, <3>1
    <2> QED BY <2>3, <2>4
  <1>8. q.mask = \E j \in 1 .. (n + 1) + 1 : cs[j].mask
    <2>1. q.mask = (r.mask \/ c.mask)
      BY DEF MergeAs
    <2>2. r.mask = \E j \in 1 .. n + 1 : cs[j].mask
      BY DEF MergedIs
    <2>3. \A j : j \in 1 .. (n + 1) + 1 <=> j \in 1 .. n + 1 \/ j = n + 2
      OBVIOUS
    <2> QED BY <2>1, <2>2, <2>3
  <1>9. q.nil = \A j \in 1 .. (n + 1) + 1 : cs[j].nil
    <2>1. q.nil = (r.nil /\ c.nil)
      BY DEF MergeAs
    <2>2. r.nil = \A j \in 1 .. n + 1 : cs[j].nil
      BY DEF MergedIs
    <2>3. \A j : j \in 1 .. (n + 1) + 1 <=> j \in 1 .. n + 1 \/ j = n + 2
      OBVIOUS
    <2> QED BY <2>1, <2>2, <2>3
  <1> QED BY <1>5, <1>6, <1>7, <1>8, <1>9 DEF MergedIs

LEMMA AllMerged ==
  ASSUME NEW cs \in Seq(Config), cs # <<>>
  PROVE  MergedIs(FoldLeft(MergeHaloLogConfig, Head(cs), Tail(cs)), cs, Len(cs) - 1)
  <1>. DEFINE base == Head(cs)
              rest == Tail(cs)
              n == Len(cs) - 1
  <1>1. /\ Len(cs) \in Nat /\ Len(cs) > 0 /\ n \in Nat /\ base = cs[1] /\ base \in Config /\ rest \in Seq(Config)
        /\ Len(rest) = n /\ \A k \in 1 .. n : rest[k] = cs[k + 1]
    OBVIOUS
  <1>. HIDE DEF rest, base
  <1>2. PICK g : /\ g[0] = base /\ FoldLeft(MergeHaloLogConfig, base, rest) = g[Len(rest)]
                 /\ \A k \in 1 .. Len(rest) : g[k] = MergeHaloLogConfig(g[k - 1], rest[k])
    BY <1>1, MergesRun
  <1>. DEFINE OK(k) == g[k] \in Config /\ MergedIs(g[k], cs, k)
              N == {k \in Nat : k <= n => OK(k)}
  <1>3. 0 \in N
    BY <1>1, <1>2, MergedStart
  <1>4. ASSUME NEW k \in Nat, k \in N PROVE k + 1 \in N
    <2>. SUFFICES ASSUME k + 1 <= n PROVE OK(k + 1)
      OBVIOUS
    <2>1. k + 1 \in 1 .. n /\ (k + 1) - 1 = k /\ k <= n /\ (k + 1) + 1 = k + 2 /\ k + 2 <= Len(cs) /\ k + 2 \in 1 .. Len(cs)
      BY <1>1
    <2>2. g[k] \in Config /\ MergedIs(g[k], cs, k)
      BY <1>4, <2>1
    <2>3. g[k + 1] = MergeHaloLogConfig(g[k], cs[k + 2]) /\ cs[k + 2] \in Config
      <3>. DEFINE j == k + 1
      <3>1. j \in 1 .. n /\ j \in 1 .. Len(rest) /\ j - 1 = k /\ j + 1 = k + 2
        BY <1>1, <2>1
      <3>2. cs[k + 2] \in Config
        BY <1>1, <2>1
      <3>. HIDE DEF j
      <3>3. g[j] = MergeHaloLogConfig(g[j - 1], rest[j]) /\ rest[j] = cs[j + 1]
        BY <1>1, <1>2, <3>1
      <3>4. g[j] = MergeHaloLogConfig(g[k], cs[k + 2])
        BY <3>1, <3>3
      <3> QED BY <3>2, <3>4 DEF j
    <2>4. g[k + 1] \in Config /\ MergeAs(g[k + 1], g[k], cs[k + 2])
      BY <2>2, <2>3, MergeIn
    <2> QED BY <2>1, <2>2, <2>4, MergedGoesOn
  <1>5. N = Nat
    <2>1. N \in SUBSET Nat
      OBVIOUS
    <2>. HIDE DEF N
    <2> QED BY <1>3, <1>4, <2>1, Ind
  <1>6. OK(n)
    <2>. HIDE DEF OK
    <2> QED BY <1>1, <1>5
  <1> QED BY <1>1, <1>2, <1>6 DEF rest, base

\* Of some numbers from 2 on, the last one is one of them and none is after it; of
\* none it is 1.
LEMMA LastOfThemIsIn ==
  ASSUME NEW n \in Nat, NEW W, W \subseteq 2 .. n
  PROVE  (LastOfThem(W) = 1 /\ W = {}) \/ (LastOfThem(W) \in W /\ \A j \in W : j <= LastOfThem(W))
  <1>1. CASE W = {}
    BY <1>1 DEF LastOfThem
  <1>2. CASE W # {}
    <2>. DEFINE T == {n - j : j \in W}
    <2>1. T \in SUBSET Nat /\ T # {}
      <3>1. \A j \in W : n - j \in Nat
        OBVIOUS
      <3>2. \A y \in T : y \in Nat
        BY <3>1
      <3>3. T # {}
        BY <1>2
      <3>. HIDE DEF T
      <3> QED BY <3>2, <3>3
    <2>2. PICK x \in T : \A y \in T : x <= y
      <3>. HIDE DEF T
      <3> QED BY <2>1, Smallest
    <2>3. PICK m \in W : x = n - m
      BY <2>2
    <2>4. ASSUME NEW j \in W PROVE j <= m
      <3>1. n - j \in T
        OBVIOUS
      <3>2. n - m <= n - j /\ m \in Int /\ j \in Int
        BY <2>2, <2>3, <3>1
      <3> QED BY <3>2
    <2>5. \E i \in W : \A j \in W : j <= i
      BY <2>4
    <2> QED BY <1>2, <2>5 DEF LastOfThem
  <1> QED BY <1>1, <1>2

LEMMA LoadMeans == LoadInv => ConfigAsWritten
  <1>. SUFFICES ASSUME LoadInv PROVE ConfigAsWritten
    OBVIOUS
  <1>1. configs \in Seq(Config) /\ DOMAIN configs = 1 .. Len(configs) /\ Len(configs) \in Nat
    BY DEF LoadInv
  <1>2. \A i \in DOMAIN configs : configs[i].validated =>
          \A k \in LevelKeys :
             (k = "logger" => configs[i].set["loggers"] > 0) =>
                configs[i].lv[k] = IF Upper(configs[i].texts[k]) = "WARNING" THEN "WARN"
                                   ELSE Upper(configs[i].texts[k])
    BY <1>1 DEF LoadInv, AsWritten
  <1>3. ASSUME NEW i \in DOMAIN merged
        PROVE  /\ merged[i].nil <=> Given = {}
               /\ ~merged[i].nil =>
                     /\ \A s \in Settings : \E j \in Given :
                           /\ j = 1 \/ configs[j].set[s] # 0
                           /\ \A later \in Given : later > j => configs[later].set[s] <= 0
                           /\ merged[i].set[s] = configs[j].set[s]
                           /\ s = "loggers" => merged[i].lv["logger"] = configs[j].lv["logger"]
                     /\ \A k \in EnvLevels : \E j \in Given :
                           /\ \A later \in Given : later > j => configs[later].lv[k] = "INFO"
                           /\ merged[i].lv[k] = configs[j].lv[k]
                     /\ \E j \in Given :
                           /\ \A later \in Given : later > j => ~configs[later].mask
                           /\ merged[i].mask = configs[j].mask
    <2>. DEFINE r == FoldLeft(MergeHaloLogConfig, Head(configs), Tail(configs))
                n == Len(configs)
    <2>1. configs # <<>> /\ merged = <<r>> /\ ~(configs[1].nil /\ \E j \in DOMAIN configs : ~configs[j].nil)
      BY <1>1, <1>3 DEF LoadInv
    <2>2. MergedIs(r, configs, n - 1)
      BY <1>1, <2>1, AllMerged
    <2>. HIDE DEF r
    <2>3. merged[i] = r
      BY <1>3, <2>1
    <2>4. n \in Nat /\ n > 0 /\ (n - 1) + 1 = n /\ 1 \in 1 .. n
      BY <1>1, <2>1
    <2>5. \A j \in 1 .. n : configs[j].nil \in BOOLEAN /\ (configs[j].nil => configs[j] = NilConfig)
      BY <1>1, ConfigFields
    <2>6. r.nil <=> Given = {}
      BY <1>1, <2>2, <2>4, <2>5 DEF MergedIs, Given
    <2>7. ASSUME ~r.nil
          PROVE  1 \in Given /\ \A j \in 1 .. n : configs[j].nil <=> j \notin Given
      BY <1>1, <2>1, <2>4, <2>5, <2>6, <2>7 DEF Given
    <2>8. ASSUME ~r.nil, NEW j \in 1 .. n, j \notin Given
          PROVE  (\A s \in Settings : configs[j].set[s] = 0) /\ (\A k \in EnvLevels : configs[j].lv[k] = "INFO") /\ ~configs[j].mask
      <3>1. configs[j] = NilConfig
        BY <2>5, <2>7, <2>8
      <3>2. NilConfig.set = [s \in AllSet |-> 0] /\ NilConfig.lv = [k \in LevelKeys |-> "INFO"] /\ NilConfig.mask = FALSE
        BY DEF NilConfig, AllSet
      <3> QED BY <3>1, <3>2 DEF AllSet, EnvLevels
    <2>9. \A j \in Given : j \in 1 .. n /\ j \in Int
      BY <1>1 DEF Given
    <2>10. ASSUME ~r.nil, NEW s \in Settings
           PROVE  \E j \in Given :
                     /\ j = 1 \/ configs[j].set[s] # 0
                     /\ \A later \in Given : later > j => configs[later].set[s] <= 0
                     /\ r.set[s] = configs[j].set[s]
                     /\ s = "loggers" => r.lv["logger"] = configs[j].lv["logger"]
      <3>. DEFINE W == Giving(configs, s) \intersect (2 .. n)
                  j == LastOfThem(W)
      <3>1. r.set[s] = configs[j].set[s] /\ (s = "loggers" => r.lv["logger"] = configs[j].lv["logger"])
        BY <2>2, <2>4 DEF MergedIs
      <3>2. (j = 1 /\ W = {}) \/ (j \in W /\ \A x \in W : x <= j)
        BY <2>4, LastOfThemIsIn
      <3>3. \A x \in W : x \in 2 .. n /\ configs[x].set[s] > 0
        BY DEF Giving
      <3>4. \A x \in 2 .. n : x \notin W => ~(configs[x].set[s] > 0)
        BY DEF Giving
      <3>5. \A x \in 1 .. n : configs[x].set[s] \in Int
        BY <1>1, ConfigFields DEF AllSet
      <3>. HIDE DEF W, j
      <3>6. j \in Given /\ (j = 1 \/ configs[j].set[s] # 0)
        <4>1. CASE j = 1 /\ W = {}
          BY <2>10, <2>7, <4>1
        <4>2. CASE j \in W
          <5>1. j \in 1 .. n /\ configs[j].set[s] > 0
            BY <2>4, <3>3, <4>2
          <5> QED BY <2>10, <2>8, <5>1
        <4> QED BY <3>2, <4>1, <4>2
      <3>7. ASSUME NEW later \in Given, later > j PROVE configs[later].set[s] <= 0
        <4>1. later \in 1 .. n /\ j \in 1 .. n
          BY <2>9, <3>6
        <4>2. later \in 2 .. n /\ later \notin W
          BY <2>4, <3>2, <3>7, <4>1
        <4> QED BY <3>4, <3>5, <4>1, <4>2
      <3> QED BY <3>1, <3>6, <3>7
    <2>11. ASSUME ~r.nil, NEW k \in EnvLevels
           PROVE  \E j \in Given :
                     /\ \A later \in Given : later > j => configs[later].lv[k] = "INFO"
                     /\ r.lv[k] = configs[j].lv[k]
      <3>. DEFINE W == Saying(configs, k) \intersect (2 .. n)
                  j == LastOfThem(W)
      <3>1. r.lv[k] = configs[j].lv[k]
        BY <2>2, <2>4 DEF MergedIs
      <3>2. (j = 1 /\ W = {}) \/ (j \in W /\ \A x \in W : x <= j)
        BY <2>4, LastOfThemIsIn
      <3>3. \A x \in W : x \in 2 .. n /\ configs[x].lv[k] # "INFO"
        BY DEF Saying
      <3>4. \A x \in 2 .. n : x \notin W => configs[x].lv[k] = "INFO"
        BY DEF Saying
      <3>. HIDE DEF W, j
      <3>6. j \in Given
        <4>1. CASE j = 1 /\ W = {}
          BY <2>11, <2>7, <4>1
        <4>2. CASE j \in W
          <5>1. j \in 1 .. n /\ configs[j].lv[k] # "INFO"
            BY <2>4, <3>3, <4>2
          <5> QED BY <2>11, <2>8, <5>1
        <4> QED BY <3>2, <4>1, <4>2
      <3>7. ASSUME NEW later \in Given, later > j PROVE configs[later].lv[k] = "INFO"
        <4>1. later \in 1 .. n /\ j \in 1 .. n
          BY <2>9, <3>6
        <4>2. later \in 2 .. n /\ later \notin W
          BY <2>4, <3>2, <3>7, <4>1
        <4> QED BY <3>4, <4>2
      <3> QED BY <3>1, <3>6, <3>7
    <2>12. ASSUME ~r.nil
           PROVE  \E j \in Given : /\ \A later \in Given : later > j => ~configs[later].mask
                                   /\ r.mask = configs[j].mask
      <3>1. r.mask = \E j \in 1 .. n : configs[j].mask
        BY <2>2, <2>4 DEF MergedIs
      <3>2. \A j \in 1 .. n : configs[j].mask \in BOOLEAN
        BY <1>1, ConfigFields
      <3>3. CASE \E j \in 1 .. n : configs[j].mask
        <4>. DEFINE T == {n - j : j \in {x \in 1 .. n : configs[x].mask}}
        <4>1. T \in SUBSET Nat /\ T # {}
          BY <2>4, <3>3
        <4>2. PICK x \in T : \A y \in T : x <= y
          <5>. HIDE DEF T
          <5> QED BY <4>1, Smallest
        <4>3. PICK j \in 1 .. n : configs[j].mask /\ x = n - j
          BY <4>2
        <4>4. j \in Given
          BY <2>12, <2>8, <4>3
        <4>5. ASSUME NEW later \in Given, later > j, configs[later].mask PROVE FALSE
          <5>1. later \in 1 .. n /\ n - later \in T
            BY <2>9, <4>5
          <5>2. n - j <= n - later
            BY <4>2, <4>3, <5>1
          <5> QED BY <2>4, <4>5, <5>1, <5>2
        <4>6. r.mask = configs[j].mask
          BY <3>1, <3>2, <3>3, <4>3
        <4> QED BY <4>4, <4>5, <4>6
      <3>4. CASE ~ \E j \in 1 .. n : configs[j].mask
        <4>1. 1 \in Given /\ r.mask = configs[1].mask
          BY <2>4, <2>7, <2>12, <3>1, <3>2, <3>4
        <4> QED BY <2>9, <3>4, <4>1
      <3> QED BY <3>3, <3>4
    <2> QED BY <2>3, <2>6, <2>10, <2>11, <2>12
  <1> QED BY <1>2, <1>3 DEF ConfigAsWritten

LEMMA LoadStart == LoadInit => LoadInv
  BY DEF LoadInit, LoadInv

\* A configuration that is loaded is one more.
LEMMA LoadAppends ==
  ASSUME LoadInv, NEW c \in Config, AsWritten(c), configs' = Append(configs, c), merged = <<>>, merged' = merged
  PROVE  LoadInv'
  <1>1. /\ configs' \in Seq(Config) /\ Len(configs) \in Nat /\ Len(configs') = Len(configs) + 1
        /\ configs'[Len(configs) + 1] = c /\ \A i \in 1 .. Len(configs) : configs'[i] = configs[i]
    BY AppendProperties DEF LoadInv
  <1>2. \A i \in 1 .. Len(configs') : AsWritten(configs'[i])
    <2>1. ASSUME NEW i \in 1 .. Len(configs') PROVE AsWritten(configs'[i])
      <3>1. CASE i \in 1 .. Len(configs)
        <4>1. configs'[i] = configs[i]
          BY <1>1, <3>1
        <4> QED BY <3>1, <4>1 DEF LoadInv
      <3>2. CASE i = Len(configs) + 1
        <4>1. configs'[i] = c
          BY <1>1, <3>2
        <4> QED BY <4>1
      <3>3. i \in 1 .. Len(configs) \/ i = Len(configs) + 1
        BY <1>1
      <3> QED BY <3>1, <3>2, <3>3
    <2> QED BY <2>1
  <1>3. AsWritten(c)'= AsWritten(c)
    BY DEF AsWritten
  <1> QED BY <1>1, <1>2 DEF LoadInv, AsWritten

\* What is loaded is a configuration.
LEMMA LoadedIn ==
  ASSUME NEW src, src.texts \in AllTexts, src.mask \in BOOLEAN, src.settings \in [AllSet -> Int], NEW v \in BOOLEAN
  PROVE  /\ Loaded(src, v) \in Config /\ Loaded(src, v).validated = v
         /\ Loaded(src, v).lv = [k \in LevelKeys |-> ParseLogLevel(src.texts[k])]
         /\ Loaded(src, v).set = src.settings
         /\ Loaded(src, v).texts = src.texts
  <1>. DEFINE L == [k \in LevelKeys |-> ParseLogLevel(src.texts[k])]
  <1>1. L \in [LevelKeys -> Names]
    BY ParsedIs
  <1>2. Loaded(src, v) = [lv |-> L, mask |-> src.mask, set |-> src.settings, texts |-> src.texts, validated |-> v, nil |-> FALSE]
    BY DEF Loaded
  <1>. HIDE DEF L
  <1> QED BY <1>1, <1>2 DEF Config, ConfigRecord, L

LEMMA FileLoaded == ASSUME LoadInv, LoadFromFile PROVE LoadInv'
  <1>. DEFINE Ok(doc) == doc.readable /\ doc.ext \in {"yaml", "json"} /\ doc.parses /\ Accepted(doc)
              Got(doc) == Loaded(doc, TRUE)
  <1>1. PICK doc \in Documents : configs' = IF Ok(doc) THEN Append(configs, Got(doc)) ELSE configs
    BY DEF LoadFromFile
  <1>2. merged = <<>> /\ merged' = merged
    BY DEF LoadFromFile
  <1>3. CASE Ok(doc)
    <2>1. doc.texts \in AllTexts /\ doc.mask \in BOOLEAN /\ doc.settings \in [AllSet -> Int]
      BY SourcesAssumption DEF AllSet, AllTexts
    <2>2. /\ Got(doc) \in Config /\ Got(doc).lv = [k \in LevelKeys |-> ParseLogLevel(doc.texts[k])]
          /\ Got(doc).set = doc.settings /\ Got(doc).texts = doc.texts
      BY <2>1, LoadedIn
    <2>3. Accepted(doc) /\ configs' = Append(configs, Got(doc))
      BY <1>1, <1>3
    <2>. HIDE DEF Got, Ok
    <2>4. ASSUME NEW k \in LevelKeys, k = "logger" => doc.settings["loggers"] > 0
          PROVE  ParseLogLevel(doc.texts[k]) = IF Upper(doc.texts[k]) = "WARNING" THEN "WARN" ELSE Upper(doc.texts[k])
      <3>1. k \in LevelsOf(doc)
        BY <2>4 DEF LevelsOf, EnvLevels
      <3>2. ValidLevel(doc.texts[k])
        BY <2>1, <2>3, <3>1 DEF Accepted
      <3> QED BY <3>2, ValidParsed
    <2>5. AsWritten(Got(doc))
      BY <2>2, <2>4 DEF AsWritten
    <2> QED BY <1>2, <2>2, <2>3, <2>5, LoadAppends
  <1>4. CASE ~Ok(doc)
    <2>1. configs' = configs
      BY <1>1, <1>4
    <2> QED BY <1>2, <2>1 DEF LoadInv, AsWritten
  <1> QED BY <1>3, <1>4

LEMMA EnvironmentLoaded == ASSUME LoadInv, LoadFromEnvironment PROVE LoadInv'
  <1>. DEFINE T(env) == FilledIn(env)
              M(env) == env.mask \notin {"false", "0", "no", "off"}
              S(env) == [s \in AllSet |-> IF s \in DOMAIN env.settings THEN env.settings[s] ELSE EnvSettings[s]]
              Src(env) == [texts |-> T(env), mask |-> M(env), settings |-> S(env)]
  <1>1. PICK env \in Environments : configs' = Append(configs, Loaded(Src(env), FALSE))
    BY DEF LoadFromEnvironment, AllSet, FilledIn
  <1>2. merged = <<>> /\ merged' = merged
    BY DEF LoadFromEnvironment
  <1>3. T(env) \in AllTexts
    BY DEF AllTexts
  <1>4. S(env) \in [AllSet -> Int]
    BY SourcesAssumption DEF EnvSettings, AllSet, Settings, BaseOnly
  <1>5. M(env) \in BOOLEAN
    OBVIOUS
  <1>. HIDE DEF T, S, M
  <1>6. Src(env).texts = T(env) /\ Src(env).mask = M(env) /\ Src(env).settings = S(env)
    OBVIOUS
  <1>. HIDE DEF Src
  <1>7. Loaded(Src(env), FALSE) \in Config /\ Loaded(Src(env), FALSE).validated = FALSE
    BY <1>3, <1>4, <1>5, <1>6, LoadedIn
  <1>8. AsWritten(Loaded(Src(env), FALSE))
    BY <1>7 DEF AsWritten
  <1> QED BY <1>1, <1>2, <1>7, <1>8, LoadAppends

LEMMA LoadKeeps == LoadInv /\ LoadNext => LoadInv'
  <1>1. ASSUME LoadInv, MergeConfigurations PROVE LoadInv'
    <2>1. /\ configs # <<>> /\ configs' = configs /\ merged' = <<FoldLeft(MergeHaloLogConfig, Head(configs), Tail(configs))>>
          /\ ~(Head(configs).nil /\ \E i \in DOMAIN configs : ~configs[i].nil)
      BY <1>1 DEF MergeConfigurations
    <2> QED BY <1>1, <2>1 DEF LoadInv, AsWritten
  <1>2. ASSUME LoadInv, MergePanics PROVE LoadInv'
    BY <1>2 DEF MergePanics, LoadInv, AsWritten
  <1>3. ASSUME LoadInv, PassNil PROVE LoadInv'
    <2>1. NilConfig \in Config /\ AsWritten(NilConfig)
      BY NilFields DEF AsWritten
    <2> QED BY <1>3, <2>1, LoadAppends DEF PassNil
  <1> QED BY <1>1, <1>2, <1>3, FileLoaded, EnvironmentLoaded DEF LoadNext

LEMMA LoadUnchanged == LoadInv /\ UNCHANGED loadVars => LoadInv'
  <1>. SUFFICES ASSUME LoadInv, UNCHANGED loadVars PROVE LoadInv'
    OBVIOUS
  <1>1. configs' = configs /\ merged' = merged
    BY DEF loadVars
  <1> QED BY <1>1 DEF LoadInv, AsWritten

-----------------------------------------------------------------------------
(* OpenTelemetry records (otelbridge/).                                       *)

\* The fields an entry can have, what a record can say of one, and what else it says.
OFields == {[key |-> k, typed |-> v.typed, boxed |-> v.boxed] : k \in OtelKeys, v \in FieldValues}
OVals == {LogValue(f) : f \in OFields} \union {NoValue}
Pairs == OtelKeys \X OVals
DKeys == {DerivedKeys[i] : i \in 1 .. 4}
AllPairs == (OtelKeys \union DKeys) \X (OVals \union {Derived})
Contexts3 == [CorrelationKeys -> OVals]

OtelInv == oentry \in Seq(OFields) /\ FlushHonest

\* A field has a key and a value, and the value is not what metadata gives.
LEMMA FieldIs ==
  ASSUME NEW f \in OFields
  PROVE  f.key \in OtelKeys /\ LogValue(f) \in OVals /\ LogValue(f) # Derived
  <1>1. PICK k \in OtelKeys, v \in FieldValues : f = [key |-> k, typed |-> v.typed, boxed |-> v.boxed]
    BY DEF OFields
  <1>2. LogValue(f) \in {v.typed, v.boxed}
    BY <1>1 DEF LogValue
  <1>3. Derived \notin {v.typed, v.boxed}
    BY OtelAssumption
  <1> QED BY <1>1, <1>2, <1>3 DEF OVals

\* The derived keys.
LEMMA DerivedAre ==
  /\ DerivedKeys \in Seq(DKeys) /\ Len(DerivedKeys) = 4
  /\ \A i \in 1 .. 4 : DerivedKeys[i] \in DKeys /\ DerivedKeys[i] \notin CorrelationKeys
  /\ \A i, j \in 1 .. 4 : DerivedKeys[i] = DerivedKeys[j] => i = j
  <1>1. DerivedKeys = <<DerivedKeys[1], DerivedKeys[2], DerivedKeys[3], DerivedKeys[4]>> /\ Len(DerivedKeys) = 4
    BY DEF DerivedKeys
  <1>2. /\ DerivedKeys[1] = "component" /\ DerivedKeys[2] = "error"
        /\ DerivedKeys[3] = "code.file.path" /\ DerivedKeys[4] = "code.line.number"
    BY DEF DerivedKeys
  <1>3. \A i \in 1 .. 4 : i = 1 \/ i = 2 \/ i = 3 \/ i = 4
    OBVIOUS
  <1>4. \A i \in 1 .. 4 : DerivedKeys[i] \in DKeys
    BY DEF DKeys
  <1>5. \A i \in 1 .. 4 : DerivedKeys[i] \notin CorrelationKeys
    BY <1>2, <1>3 DEF CorrelationKeys
  <1>6. \A i, j \in 1 .. 4 : DerivedKeys[i] = DerivedKeys[j] => i = j
    BY <1>2, <1>3
  <1>7. DerivedKeys \in Seq(DKeys)
    <2>1. 1 \in 1 .. 4 /\ 2 \in 1 .. 4 /\ 3 \in 1 .. 4 /\ 4 \in 1 .. 4
      OBVIOUS
    <2>2. ASSUME NEW S, NEW w \in S, NEW x \in S, NEW y \in S, NEW z \in S PROVE <<w, x, y, z>> \in Seq(S)
      OBVIOUS
    <2>3. DerivedKeys[1] \in DKeys /\ DerivedKeys[2] \in DKeys /\ DerivedKeys[3] \in DKeys /\ DerivedKeys[4] \in DKeys
      BY <1>4, <2>1
    <2>4. <<DerivedKeys[1], DerivedKeys[2], DerivedKeys[3], DerivedKeys[4]>> \in Seq(DKeys)
      BY <2>2, <2>3
    <2> QED BY <1>1, <2>4
  <1> QED BY <1>1, <1>4, <1>5, <1>6, <1>7

\* The trace context after one more field.
LEMMA CorrelateIn ==
  ASSUME NEW c \in Contexts3, NEW f \in OFields
  PROVE  /\ Correlate(c, f) \in Contexts3
         /\ \A k \in CorrelationKeys : Correlate(c, f)[k] =
               IF k = f.key THEN (IF Parses(f) THEN LogValue(f) ELSE NoValue) ELSE c[k]
  <1>. DEFINE v == IF Parses(f) THEN LogValue(f) ELSE NoValue
  <1>1. v \in OVals
    BY FieldIs DEF OVals
  <1>2. Correlate(c, f) = IF f.key \notin CorrelationKeys THEN c ELSE [c EXCEPT ![f.key] = v]
    BY DEF Correlate
  <1>. HIDE DEF v
  <1>3. /\ Correlate(c, f) \in Contexts3
        /\ \A k \in CorrelationKeys : Correlate(c, f)[k] = IF k = f.key THEN v ELSE c[k]
    BY <1>1, <1>2 DEF Contexts3
  <1> QED BY <1>3 DEF v

LEMMA NoContextIn == NoContext \in Contexts3 /\ \A k \in CorrelationKeys : NoContext[k] = NoValue
  BY DEF NoContext, Contexts3, OVals

\* The trace context, field by field.
LEMMA ContextRuns ==
  ASSUME NEW s \in Seq(OFields)
  PROVE  \E g : /\ g[0] = NoContext /\ FoldLeft(Correlate, NoContext, s) = g[Len(s)]
                /\ \A k \in 1 .. Len(s) : g[k] = Correlate(g[k - 1], s[k])
  <1>. DEFINE n == Len(s)
              G == [p \in Contexts3 \X (1 .. n) |-> Correlate(p[1], s[p[2]])]
  <1>1. n \in Nat /\ DOMAIN s = 1 .. n /\ (\A i \in 1 .. n : s[i] \in OFields) /\ NoContext \in Contexts3
    BY NoContextIn
  <1>2. G \in [Contexts3 \X (1 .. n) -> Contexts3] /\ \A e \in Contexts3, i \in 1 .. n : G[<<e, i>>] = Correlate(e, s[i])
    BY <1>1, CorrelateIn
  <1>. HIDE DEF n, G
  <1>3. PICK f : FoldUpto(f, Contexts3, G, NoContext, n)
    BY <1>1, <1>2, FoldExists
  <1>4. f = [t \in SUBSET (1 .. n) |-> IF t = {} THEN NoContext ELSE Correlate(f[t \ {Max(t)}], s[Max(t)])]
    <2>1. /\ f \in [SUBSET (1 .. n) -> Contexts3] /\ f[{}] = NoContext
          /\ \A t \in SUBSET (1 .. n) : t # {} =>
                Max(t) \in 1 .. n /\ f[t \ {Max(t)}] \in Contexts3 /\ f[t] = G[<<f[t \ {Max(t)}], Max(t)>>]
      <3>1. FoldIs(f, Contexts3, G, NoContext, n)
        BY <1>1, <1>3, FoldValues
      <3> QED BY <3>1 DEF FoldIs
    <2>2. \A t \in SUBSET (1 .. n) : t # {} => f[t] = Correlate(f[t \ {Max(t)}], s[Max(t)])
      BY <2>1, <1>2
    <2> QED BY <2>1, <2>2
  <1>. DEFINE iter == CHOOSE h : h = [t \in SUBSET (1 .. n) |-> IF t = {} THEN NoContext ELSE Correlate(h[t \ {Max(t)}], s[Max(t)])]
              g == [k \in 0 .. n |-> iter[1 .. k]]
  <1>5. iter = [t \in SUBSET (1 .. n) |-> IF t = {} THEN NoContext ELSE Correlate(iter[t \ {Max(t)}], s[Max(t)])]
    BY <1>4
  <1>6. FoldLeft(Correlate, NoContext, s) = iter[1 .. n]
    BY <1>1 DEF FoldLeft, MapThenFoldSet
  <1>. HIDE DEF iter
  <1>7. g[0] = NoContext /\ g[n] = FoldLeft(Correlate, NoContext, s) /\ \A k \in 1 .. n : g[k] = Correlate(g[k - 1], s[k])
    <2>1. /\ 1 .. 0 = {} /\ {} \in SUBSET (1 .. n) /\ 0 \in 0 .. n /\ n \in 0 .. n
          /\ \A k \in 1 .. n : /\ k \in 0 .. n /\ k - 1 \in 0 .. n /\ 1 .. k \in SUBSET (1 .. n) /\ 1 .. k # {}
                               /\ Max(1 .. k) = k /\ (1 .. k) \ {Max(1 .. k)} = 1 .. k - 1
      BY <1>1, FirstOnes
    <2>2. iter[{}] = NoContext /\ \A k \in 1 .. n : iter[1 .. k] = Correlate(iter[1 .. k - 1], s[k])
      BY <1>5, <2>1
    <2> QED BY <1>6, <2>1, <2>2
  <1> QED BY <1>7 DEF n

\* The fields with a key among the first n, and the last of them.
Keyed(s, c, n) == {i \in 1 .. n : s[i].key = c}
LastKeyed(s, c, n) == s[LastOfThem(Keyed(s, c, n))]

\* One more field is the last with its key.
LEMMA KeyedMore ==
  ASSUME NEW s \in Seq(OFields), NEW k \in Nat, k + 1 <= Len(s), NEW c
  PROVE  /\ s[k + 1].key = c => Keyed(s, c, k + 1) # {} /\ LastKeyed(s, c, k + 1) = s[k + 1]
         /\ s[k + 1].key # c => Keyed(s, c, k + 1) = Keyed(s, c, k)
  <1>1. \A i \in 1 .. k + 1 : i \in 1 .. k \/ i = k + 1
    OBVIOUS
  <1>2. k + 1 \in Nat /\ k + 1 \in 1 .. k + 1 /\ \A i \in 1 .. k : i \in 1 .. k + 1 /\ i < k + 1 /\ i \in Nat
    OBVIOUS
  <1>3. ASSUME s[k + 1].key = c PROVE Keyed(s, c, k + 1) # {} /\ LastKeyed(s, c, k + 1) = s[k + 1]
    <2>1. Keyed(s, c, k + 1) = Keyed(s, c, k) \union {k + 1}
      BY <1>1, <1>2, <1>3 DEF Keyed
    <2>2. Keyed(s, c, k) \subseteq Nat /\ \A j \in Keyed(s, c, k) : j < k + 1
      BY <1>2 DEF Keyed
    <2>3. LastOfThem(Keyed(s, c, k + 1)) = k + 1
      BY <1>2, <2>1, <2>2, LastIsLargest
    <2> QED BY <2>1, <2>3 DEF LastKeyed
  <1>4. ASSUME s[k + 1].key # c PROVE Keyed(s, c, k + 1) = Keyed(s, c, k)
    BY <1>1, <1>2, <1>4 DEF Keyed
  <1> QED BY <1>3, <1>4

\* What the trace context is: the last field with a key gives it, or clears it.
ContextIs(r, s, n) ==
    r \in Contexts3 /\ \A c \in CorrelationKeys : r[c] =
        IF Keyed(s, c, n) = {} \/ ~Parses(LastKeyed(s, c, n)) THEN NoValue ELSE LogValue(LastKeyed(s, c, n))

LEMMA ContextOf ==
  ASSUME NEW s \in Seq(OFields)
  PROVE  ContextIs(FoldLeft(Correlate, NoContext, s), s, Len(s))
  <1>. DEFINE n == Len(s)
  <1>1. n \in Nat /\ \A i \in 1 .. n : s[i] \in OFields
    OBVIOUS
  <1>2. PICK g : /\ g[0] = NoContext /\ FoldLeft(Correlate, NoContext, s) = g[n]
                 /\ \A k \in 1 .. n : g[k] = Correlate(g[k - 1], s[k])
    BY ContextRuns
  <1>. DEFINE N == {k \in Nat : k <= n => ContextIs(g[k], s, k)}
  <1>3. 0 \in N
    <2>1. \A c : Keyed(s, c, 0) = {}
      BY DEF Keyed
    <2> QED BY <1>2, <2>1, NoContextIn DEF ContextIs
  <1>4. ASSUME NEW k \in Nat, k \in N PROVE k + 1 \in N
    <2>. SUFFICES ASSUME k + 1 <= n PROVE ContextIs(g[k + 1], s, k + 1)
      OBVIOUS
    <2>1. k + 1 \in 1 .. n /\ (k + 1) - 1 = k /\ k <= n
      BY <1>1
    <2>2. ContextIs(g[k], s, k) /\ g[k + 1] = Correlate(g[k], s[k + 1]) /\ s[k + 1] \in OFields
      BY <1>1, <1>2, <1>4, <2>1
    <2>3. /\ g[k + 1] \in Contexts3
          /\ \A c \in CorrelationKeys : g[k + 1][c] =
               IF c = s[k + 1].key THEN (IF Parses(s[k + 1]) THEN LogValue(s[k + 1]) ELSE NoValue) ELSE g[k][c]
      BY <2>2, CorrelateIn DEF ContextIs
    <2>4. ASSUME NEW c \in CorrelationKeys
          PROVE  g[k + 1][c] = IF Keyed(s, c, k + 1) = {} \/ ~Parses(LastKeyed(s, c, k + 1)) THEN NoValue
                               ELSE LogValue(LastKeyed(s, c, k + 1))
      <3>1. CASE s[k + 1].key = c
        <4>1. Keyed(s, c, k + 1) # {} /\ LastKeyed(s, c, k + 1) = s[k + 1]
          BY <2>1, <3>1, KeyedMore
        <4>2. g[k + 1][c] = IF Parses(s[k + 1]) THEN LogValue(s[k + 1]) ELSE NoValue
          BY <2>3, <3>1
        <4> QED BY <4>1, <4>2
      <3>2. CASE s[k + 1].key # c
        <4>1. Keyed(s, c, k + 1) = Keyed(s, c, k)
          BY <2>1, <3>2, KeyedMore
        <4>2. g[k + 1][c] = g[k][c]
          BY <2>3, <3>2
        <4> QED BY <4>1, <4>2, <2>2 DEF ContextIs, LastKeyed
      <3> QED BY <3>1, <3>2
    <2> QED BY <2>3, <2>4 DEF ContextIs
  <1>5. N = Nat
    <2>1. N \in SUBSET Nat
      OBVIOUS
    <2>. HIDE DEF N
    <2> QED BY <1>3, <1>4, <2>1, Ind
  <1>6. ContextIs(g[n], s, n)
    BY <1>1, <1>5
  <1> QED BY <1>2, <1>6

\* What the trace context of an entry is.
LEMMA SpanIs ==
  ASSUME NEW s \in Seq(OFields)
  PROVE  /\ SpanContext(s) \in Contexts3
         /\ \A c \in CorrelationKeys : SpanContext(s)[c] # NoValue =>
               Keyed(s, c, Len(s)) # {} /\ SpanContext(s)[c] = LogValue(LastKeyed(s, c, Len(s)))
         /\ SpanContext(s)["span_id"] # NoValue => SpanContext(s)["trace_id"] # NoValue
         /\ Keyed(s, "trace_id", Len(s)) # {} /\ Parses(LastKeyed(s, "trace_id", Len(s))) =>
               SpanContext(s)["trace_id"] = LogValue(LastKeyed(s, "trace_id", Len(s)))
  <1>. DEFINE c == FoldLeft(Correlate, NoContext, s)
  <1>1. ContextIs(c, s, Len(s))
    BY ContextOf
  <1>2. SpanContext(s) = IF c["trace_id"] = NoValue THEN NoContext ELSE c
    BY DEF SpanContext
  <1>. HIDE DEF c
  <1>3. "trace_id" \in CorrelationKeys /\ "span_id" \in CorrelationKeys
    BY DEF CorrelationKeys
  <1>4. ASSUME Keyed(s, "trace_id", Len(s)) # {}, Parses(LastKeyed(s, "trace_id", Len(s)))
        PROVE  SpanContext(s)["trace_id"] = LogValue(LastKeyed(s, "trace_id", Len(s)))
    <2>1. c["trace_id"] = LogValue(LastKeyed(s, "trace_id", Len(s)))
      BY <1>1, <1>3, <1>4 DEF ContextIs
    <2>2. c["trace_id"] # NoValue
      BY <1>4, <2>1, OtelAssumption DEF Parses
    <2> QED BY <1>2, <2>1, <2>2
  <1> QED BY <1>1, <1>2, <1>3, <1>4, NoContextIn DEF ContextIs

\* The attributes of the fields.
OwnOf(c, s) == FoldLeft(LAMBDA attrs, f : AttributeStep(c, attrs, f), <<>>, s)

\* What one more field does to the attributes: nothing, it overwrites one, or it is
\* one more.
Slot(q, f) == {i \in DOMAIN q : q[i][1] = f.key}
Skipped(c, f) == f.key = "" \/ (f.key \in CorrelationKeys /\ c[f.key] # NoValue)
Overwrites(q, f) == f.key \in CorrelationKeys /\ Slot(q, f) # {}
Pair(f) == <<f.key, LogValue(f)>>

LEMMA AttributeIs ==
  ASSUME NEW c, NEW q, NEW f
  PROVE  AttributeStep(c, q, f) =
            IF Skipped(c, f) THEN q
            ELSE IF Overwrites(q, f) THEN [q EXCEPT ![CHOOSE i \in Slot(q, f) : TRUE] = Pair(f)]
            ELSE Append(q, Pair(f))
  BY DEF AttributeStep, Skipped, Overwrites, Slot, Pair

LEMMA PairIn == ASSUME NEW f \in OFields PROVE Pair(f) \in Pairs /\ Pair(f)[1] = f.key /\ Pair(f)[2] = LogValue(f)
  BY FieldIs DEF Pair, Pairs

\* What overwriting does.
LEMMA Overwritten ==
  ASSUME NEW q \in Seq(Pairs), NEW i \in 1 .. Len(q), NEW p \in Pairs
  PROVE  /\ [q EXCEPT ![i] = p] \in Seq(Pairs) /\ Len([q EXCEPT ![i] = p]) = Len(q)
         /\ [q EXCEPT ![i] = p][i] = p /\ \A j \in 1 .. Len(q) : j # i => [q EXCEPT ![i] = p][j] = q[j]
  BY ExceptSeq

LEMMA AttributeIn ==
  ASSUME NEW c, NEW q \in Seq(Pairs), NEW f \in OFields
  PROVE  AttributeStep(c, q, f) \in Seq(Pairs)
  <1>. DEFINE p == Pair(f)
              i == CHOOSE j \in Slot(q, f) : TRUE
  <1>1. p \in Pairs
    BY PairIn
  <1>2. AttributeStep(c, q, f) = q \/ (Slot(q, f) # {} /\ AttributeStep(c, q, f) = [q EXCEPT ![i] = p])
          \/ AttributeStep(c, q, f) = Append(q, p)
    BY AttributeIs DEF Overwrites
  <1>3. Slot(q, f) # {} => i \in 1 .. Len(q)
    BY DEF Slot
  <1>. HIDE DEF p, i
  <1>4. Append(q, p) \in Seq(Pairs)
    BY <1>1
  <1>5. Slot(q, f) # {} => [q EXCEPT ![i] = p] \in Seq(Pairs)
    BY <1>1, <1>3, Overwritten
  <1> QED BY <1>2, <1>4, <1>5

\* The attributes of the fields, field by field.
LEMMA OwnRuns ==
  ASSUME NEW c \in Contexts3, NEW s \in Seq(OFields)
  PROVE  \E g : /\ g[0] = <<>> /\ OwnOf(c, s) = g[Len(s)]
                /\ \A k \in 1 .. Len(s) : g[k] = AttributeStep(c, g[k - 1], s[k])
  <1>. DEFINE n == Len(s)
              G == [p \in Seq(Pairs) \X (1 .. n) |-> AttributeStep(c, p[1], s[p[2]])]
  <1>1. n \in Nat /\ DOMAIN s = 1 .. n /\ (\A i \in 1 .. n : s[i] \in OFields) /\ <<>> \in Seq(Pairs)
    OBVIOUS
  <1>2. G \in [Seq(Pairs) \X (1 .. n) -> Seq(Pairs)] /\ \A e \in Seq(Pairs), i \in 1 .. n : G[<<e, i>>] = AttributeStep(c, e, s[i])
      <2>1. \A q \in Seq(Pairs), f \in OFields : AttributeStep(c, q, f) \in Seq(Pairs)
      BY AttributeIn
    <2> QED BY <1>1, <2>1
  <1>. HIDE DEF n, G
  <1>3. PICK f : FoldUpto(f, Seq(Pairs), G, <<>>, n)
    BY <1>1, <1>2, FoldExists
  <1>4. f = [t \in SUBSET (1 .. n) |-> IF t = {} THEN <<>> ELSE AttributeStep(c, f[t \ {Max(t)}], s[Max(t)])]
    <2>1. /\ f \in [SUBSET (1 .. n) -> Seq(Pairs)] /\ f[{}] = <<>>
          /\ \A t \in SUBSET (1 .. n) : t # {} =>
                Max(t) \in 1 .. n /\ f[t \ {Max(t)}] \in Seq(Pairs) /\ f[t] = G[<<f[t \ {Max(t)}], Max(t)>>]
      <3>1. FoldIs(f, Seq(Pairs), G, <<>>, n)
        BY <1>1, <1>3, FoldValues
      <3> QED BY <3>1 DEF FoldIs
    <2>2. \A t \in SUBSET (1 .. n) : t # {} => f[t] = AttributeStep(c, f[t \ {Max(t)}], s[Max(t)])
      BY <2>1, <1>2
    <2> QED BY <2>1, <2>2
  <1>. DEFINE iter == CHOOSE h : h = [t \in SUBSET (1 .. n) |-> IF t = {} THEN <<>> ELSE AttributeStep(c, h[t \ {Max(t)}], s[Max(t)])]
              g == [k \in 0 .. n |-> iter[1 .. k]]
  <1>5. iter = [t \in SUBSET (1 .. n) |-> IF t = {} THEN <<>> ELSE AttributeStep(c, iter[t \ {Max(t)}], s[Max(t)])]
    BY <1>4
  <1>6. OwnOf(c, s) = iter[1 .. n]
    BY <1>1 DEF OwnOf, FoldLeft, MapThenFoldSet
  <1>. HIDE DEF iter
  <1>7. g[0] = <<>> /\ g[n] = OwnOf(c, s) /\ \A k \in 1 .. n : g[k] = AttributeStep(c, g[k - 1], s[k])
    <2>1. /\ 1 .. 0 = {} /\ {} \in SUBSET (1 .. n) /\ 0 \in 0 .. n /\ n \in 0 .. n
          /\ \A k \in 1 .. n : /\ k \in 0 .. n /\ k - 1 \in 0 .. n /\ 1 .. k \in SUBSET (1 .. n) /\ 1 .. k # {}
                               /\ Max(1 .. k) = k /\ (1 .. k) \ {Max(1 .. k)} = 1 .. k - 1
      BY <1>1, FirstOnes
    <2>2. iter[{}] = <<>> /\ \A k \in 1 .. n : iter[1 .. k] = AttributeStep(c, iter[1 .. k - 1], s[k])
      BY <1>5, <2>1
    <2> QED BY <1>6, <2>1, <2>2
  <1> QED BY <1>7 DEF n

\* Of the attributes, those of fields that are no correlation, and of the fields
\* those that become one.
Shown(q) == {i \in 1 .. Len(q) : q[i][1] \notin CorrelationKeys}
Plains(s, n) == {i \in 1 .. n : s[i].key \notin CorrelationKeys \union {""}}
InOrder(q, s, n) ==
    \E f \in [Shown(q) -> Plains(s, n)] :
       /\ \A i, j \in Shown(q) : i < j => f[i] < f[j]
       /\ \A i \in Shown(q) : q[i] = Pair(s[f[i]])
       /\ \A j \in Plains(s, n) : \E i \in Shown(q) : f[i] = j

PutsOf(q, k) == {i \in 1 .. Len(q) : q[i][1] = k}
Unconsumed(c, q, s, n) ==
    \A k \in CorrelationKeys :
       IF c[k] # NoValue \/ Keyed(s, k, n) = {} THEN PutsOf(q, k) = {}
       ELSE \E i \in PutsOf(q, k) : PutsOf(q, k) = {i} /\ q[i][2] = LogValue(LastKeyed(s, k, n))
FromFields(q, s, n) == \A i \in 1 .. Len(q) : \E j \in 1 .. n : q[i][2] = LogValue(s[j])

\* What the attributes of the first n fields are.
OwnIs(c, q, s, n) == q \in Seq(Pairs) /\ Unconsumed(c, q, s, n) /\ FromFields(q, s, n) /\ InOrder(q, s, n)

\* The values still come from fields when there is one more.
LEMMA FromMore ==
  ASSUME NEW q, NEW s, NEW k \in Nat, FromFields(q, s, k)
  PROVE  FromFields(q, s, k + 1)
  <1>1. \A j \in 1 .. k : j \in 1 .. k + 1
    OBVIOUS
  <1> QED BY <1>1 DEF FromFields

\* The fields that become attributes, when there is one more.
LEMMA PlainsMore ==
  ASSUME NEW s, NEW k \in Nat
  PROVE  IF s[k + 1].key \in CorrelationKeys \union {""} THEN Plains(s, k + 1) = Plains(s, k)
         ELSE Plains(s, k + 1) = Plains(s, k) \union {k + 1}
  <1>1. \A i : i \in 1 .. k + 1 <=> i \in 1 .. k \/ i = k + 1
    OBVIOUS
  <1>2. \A i : i \in Plains(s, k + 1) <=> i \in 1 .. k + 1 /\ s[i].key \notin CorrelationKeys \union {""}
    BY DEF Plains
  <1>3. \A i : i \in Plains(s, k) <=> i \in 1 .. k /\ s[i].key \notin CorrelationKeys \union {""}
    BY DEF Plains
  <1>4. k + 1 \notin 1 .. k
    OBVIOUS
  <1>5. CASE s[k + 1].key \in CorrelationKeys \union {""}
    <2>1. \A i : i \in Plains(s, k + 1) <=> i \in Plains(s, k)
      BY <1>1, <1>2, <1>3, <1>5
    <2>2. Plains(s, k + 1) = Plains(s, k)
      BY <2>1
    <2> QED BY <1>5, <2>2
  <1>6. CASE s[k + 1].key \notin CorrelationKeys \union {""}
    <2>1. \A i : i \in Plains(s, k + 1) <=> i \in Plains(s, k) \union {k + 1}
      BY <1>1, <1>2, <1>3, <1>6
    <2>2. Plains(s, k + 1) = Plains(s, k) \union {k + 1}
      BY <2>1
    <2> QED BY <1>6, <2>2
  <1> QED BY <1>5, <1>6

LEMMA PlainsBelow == ASSUME NEW s, NEW k \in Nat PROVE \A j \in Plains(s, k) : j < k + 1 /\ j \in Nat
  <1>1. \A j \in 1 .. k : j < k + 1 /\ j \in Nat
    OBVIOUS
  <1>2. \A j \in Plains(s, k) : j \in 1 .. k
    BY DEF Plains
  <1> QED BY <1>1, <1>2

\* A field without a key, or consumed by the trace context, leaves the attributes.
LEMMA OwnSkips ==
  ASSUME NEW c \in Contexts3, NEW s \in Seq(OFields), NEW k \in Nat, k + 1 <= Len(s), NEW q, OwnIs(c, q, s, k),
         Skipped(c, s[k + 1])
  PROVE  OwnIs(c, q, s, k + 1)
  <1>. DEFINE f == s[k + 1]
  <1>1. "" \notin CorrelationKeys
    BY DEF CorrelationKeys
  <1>2. ASSUME NEW x \in CorrelationKeys
        PROVE  IF c[x] # NoValue \/ Keyed(s, x, k + 1) = {} THEN PutsOf(q, x) = {}
               ELSE \E i \in PutsOf(q, x) : PutsOf(q, x) = {i} /\ q[i][2] = LogValue(LastKeyed(s, x, k + 1))
    <2>1. c[x] # NoValue \/ f.key # x
      BY <1>1, <1>2 DEF Skipped
    <2>2. f.key # x => Keyed(s, x, k + 1) = Keyed(s, x, k)
      BY KeyedMore
    <2>3. IF c[x] # NoValue \/ Keyed(s, x, k) = {} THEN PutsOf(q, x) = {}
          ELSE \E i \in PutsOf(q, x) : PutsOf(q, x) = {i} /\ q[i][2] = LogValue(LastKeyed(s, x, k))
      BY <1>2 DEF OwnIs, Unconsumed
    <2> QED BY <2>1, <2>2, <2>3 DEF LastKeyed
  <1>3. Plains(s, k + 1) = Plains(s, k)
    <2>1. f.key \in CorrelationKeys \union {""}
      BY DEF Skipped
    <2> QED BY <2>1, PlainsMore
  <1>4. InOrder(q, s, k + 1)
    BY <1>3 DEF OwnIs, InOrder
  <1>5. FromFields(q, s, k + 1)
    BY FromMore DEF OwnIs
  <1> QED BY <1>2, <1>4, <1>5 DEF OwnIs, Unconsumed

\* An unconsumed correlation key that has an attribute overwrites it.
LEMMA OwnOverwrites ==
  ASSUME NEW c \in Contexts3, NEW s \in Seq(OFields), NEW k \in Nat, k + 1 <= Len(s), NEW q, OwnIs(c, q, s, k),
         ~Skipped(c, s[k + 1]), Overwrites(q, s[k + 1]),
         NEW to, to = [q EXCEPT ![CHOOSE i \in Slot(q, s[k + 1]) : TRUE] = Pair(s[k + 1])]
  PROVE  OwnIs(c, to, s, k + 1)
  <1>. DEFINE f == s[k + 1]
              i0 == CHOOSE i \in Slot(q, f) : TRUE
              p == Pair(f)
              r == [q EXCEPT ![i0] = p]
  <1>1. /\ f \in OFields /\ k + 1 \in 1 .. k + 1 /\ q \in Seq(Pairs)
        /\ \A j \in 1 .. k : j \in 1 .. k + 1
    BY DEF OwnIs
  <1>2. f.key \in CorrelationKeys /\ c[f.key] = NoValue
    BY DEF Skipped, Overwrites
  <1>3. i0 \in 1 .. Len(q) /\ q[i0][1] = f.key /\ Len(q) \in Nat
    BY <1>1 DEF Overwrites, Slot
  <1>4. p \in Pairs /\ p[1] = f.key /\ p[2] = LogValue(f)
    BY <1>1, PairIn
  <1>. HIDE DEF i0, p
  <1>5. r \in Seq(Pairs) /\ Len(r) = Len(q) /\ r[i0] = p /\ \A j \in 1 .. Len(q) : j # i0 => r[j] = q[j]
    BY <1>1, <1>3, <1>4, Overwritten
  <1>. HIDE DEF r
  <1>6. \A j \in 1 .. Len(q) : r[j][1] = q[j][1]
    BY <1>3, <1>4, <1>5
  <1>7. \A x : PutsOf(r, x) = PutsOf(q, x)
    BY <1>5, <1>6 DEF PutsOf
  <1>8. Unconsumed(c, r, s, k + 1)
    <2>1. ASSUME NEW x \in CorrelationKeys
          PROVE  IF c[x] # NoValue \/ Keyed(s, x, k + 1) = {} THEN PutsOf(r, x) = {}
                 ELSE \E i \in PutsOf(r, x) : PutsOf(r, x) = {i} /\ r[i][2] = LogValue(LastKeyed(s, x, k + 1))
      <3>1. IF c[x] # NoValue \/ Keyed(s, x, k) = {} THEN PutsOf(q, x) = {}
            ELSE \E i \in PutsOf(q, x) : PutsOf(q, x) = {i} /\ q[i][2] = LogValue(LastKeyed(s, x, k))
        BY <2>1 DEF OwnIs, Unconsumed
      <3>2. CASE x = f.key
        <4>1. Keyed(s, x, k + 1) # {} /\ LastKeyed(s, x, k + 1) = f
          BY <3>2, KeyedMore
        <4>2. i0 \in PutsOf(q, x)
          BY <1>3, <3>2 DEF PutsOf
        <4>3. PutsOf(q, x) = {i0}
          BY <3>1, <4>2
        <4>4. r[i0][2] = LogValue(f)
          BY <1>4, <1>5
        <4> QED BY <1>2, <1>7, <3>2, <4>1, <4>3, <4>4
      <3>3. CASE x # f.key
        <4>1. Keyed(s, x, k + 1) = Keyed(s, x, k) /\ LastKeyed(s, x, k + 1) = LastKeyed(s, x, k)
          BY <3>3, KeyedMore DEF LastKeyed
        <4>2. \A i \in PutsOf(q, x) : r[i] = q[i]
          BY <1>3, <1>5, <3>3 DEF PutsOf
        <4> QED BY <1>7, <3>1, <4>1, <4>2
      <3> QED BY <3>2, <3>3
    <2> QED BY <2>1 DEF Unconsumed
  <1>9. FromFields(r, s, k + 1)
    <2>1. ASSUME NEW i \in 1 .. Len(r) PROVE \E j \in 1 .. k + 1 : r[i][2] = LogValue(s[j])
      <3>1. CASE i = i0
        <4>1. r[i][2] = LogValue(s[k + 1])
          BY <1>4, <1>5, <3>1
        <4> QED BY <1>1, <4>1
      <3>2. CASE i # i0
        <4>1. r[i] = q[i] /\ i \in 1 .. Len(q)
          BY <1>5, <3>2
        <4>2. PICK j \in 1 .. k : q[i][2] = LogValue(s[j])
          BY <4>1 DEF OwnIs, FromFields
        <4> QED BY <1>1, <4>1, <4>2
      <3> QED BY <3>1, <3>2
    <2> QED BY <2>1 DEF FromFields
  <1>10. InOrder(r, s, k + 1)
    <2>1. Plains(s, k + 1) = Plains(s, k)
      BY <1>2, PlainsMore
    <2>2. Shown(r) = Shown(q)
      BY <1>5, <1>6 DEF Shown
    <2>3. \A i \in Shown(q) : r[i] = q[i]
      BY <1>2, <1>3, <1>5 DEF Shown
    <2> QED BY <2>1, <2>2, <2>3 DEF OwnIs, InOrder
  <1> QED BY <1>5, <1>8, <1>9, <1>10 DEF OwnIs, r, i0, p

\* Any other field is one more attribute.
LEMMA OwnAppends ==
  ASSUME NEW c \in Contexts3, NEW s \in Seq(OFields), NEW k \in Nat, k + 1 <= Len(s), NEW q, OwnIs(c, q, s, k),
         ~Skipped(c, s[k + 1]), ~Overwrites(q, s[k + 1])
  PROVE  OwnIs(c, Append(q, Pair(s[k + 1])), s, k + 1)
  <1>. DEFINE f == s[k + 1]
              p == Pair(f)
              r == Append(q, p)
              L == Len(q)
  <1>1. /\ f \in OFields /\ k + 1 \in 1 .. k + 1 /\ q \in Seq(Pairs) /\ L \in Nat
        /\ \A j \in 1 .. k : j \in 1 .. k + 1
    BY DEF OwnIs
  <1>2. p \in Pairs /\ p[1] = f.key /\ p[2] = LogValue(f)
    BY <1>1, PairIn
  <1>3. f.key # "" /\ (f.key \in CorrelationKeys => c[f.key] = NoValue /\ PutsOf(q, f.key) = {})
    <2>1. DOMAIN q = 1 .. Len(q)
      BY <1>1
    <2>2. Slot(q, s[k + 1]) = PutsOf(q, s[k + 1].key)
      BY <2>1 DEF Slot, PutsOf
    <2> QED BY <2>2 DEF Skipped, Overwrites
  <1>4. p = Pair(s[k + 1])
    OBVIOUS
  <1>. HIDE DEF p
  <1>5. r \in Seq(Pairs) /\ Len(r) = L + 1 /\ r[L + 1] = p /\ \A i \in 1 .. L : r[i] = q[i]
    BY <1>1, <1>2, AppendProperties
  <1>. HIDE DEF r
  <1>6. /\ \A i : i \in 1 .. L + 1 <=> i \in 1 .. L \/ i = L + 1
        /\ L + 1 \notin 1 .. L /\ \A i \in 1 .. L : i < L + 1 /\ i \in Nat
    <2>1. L \in Nat
      BY <1>1
    <2>. HIDE DEF L
    <2> QED BY <2>1
  <1>7. \A x : PutsOf(r, x) = IF x = f.key THEN PutsOf(q, x) \union {L + 1} ELSE PutsOf(q, x)
    <2>1. \A x, i : i \in PutsOf(r, x) <=> i \in 1 .. L + 1 /\ r[i][1] = x
      BY <1>5 DEF PutsOf
    <2>2. \A x, i : i \in PutsOf(q, x) <=> i \in 1 .. L /\ q[i][1] = x
      BY DEF PutsOf
    <2>. HIDE DEF f, L
    <2>3. ASSUME NEW x, NEW i PROVE i \in PutsOf(r, x) <=> i \in PutsOf(q, x) \/ (x = f.key /\ i = L + 1)
      <3>1. CASE i = L + 1
        BY <1>2, <1>5, <1>6, <2>1, <2>2, <3>1
      <3>2. CASE i # L + 1
        BY <1>5, <1>6, <2>1, <2>2, <3>2
      <3> QED BY <3>1, <3>2
    <2>4. ASSUME NEW x PROVE PutsOf(r, x) = IF x = f.key THEN PutsOf(q, x) \union {L + 1} ELSE PutsOf(q, x)
      <3>1. \A i : i \in PutsOf(r, x) <=> i \in PutsOf(q, x) \/ (x = f.key /\ i = L + 1)
        BY <2>3
      <3>2. CASE x = f.key
        <4>1. \A i : i \in PutsOf(r, x) <=> i \in PutsOf(q, x) \union {L + 1}
          BY <3>1, <3>2
        <4>2. PutsOf(r, x) = PutsOf(q, x) \union {L + 1}
          BY <4>1
        <4> QED BY <3>2, <4>2
      <3>3. CASE x # f.key
        <4>1. \A i : i \in PutsOf(r, x) <=> i \in PutsOf(q, x)
          BY <3>1, <3>3
        <4>2. PutsOf(r, x) = PutsOf(q, x)
          BY <4>1
        <4> QED BY <3>3, <4>2
      <3> QED BY <3>2, <3>3
    <2> QED BY <2>4
  <1>8. Unconsumed(c, r, s, k + 1)
    <2>1. ASSUME NEW x \in CorrelationKeys
          PROVE  IF c[x] # NoValue \/ Keyed(s, x, k + 1) = {} THEN PutsOf(r, x) = {}
                 ELSE \E i \in PutsOf(r, x) : PutsOf(r, x) = {i} /\ r[i][2] = LogValue(LastKeyed(s, x, k + 1))
      <3>1. IF c[x] # NoValue \/ Keyed(s, x, k) = {} THEN PutsOf(q, x) = {}
            ELSE \E i \in PutsOf(q, x) : PutsOf(q, x) = {i} /\ q[i][2] = LogValue(LastKeyed(s, x, k))
        BY <2>1 DEF OwnIs, Unconsumed
      <3>2. CASE x = f.key
        <4>1. Keyed(s, x, k + 1) # {} /\ LastKeyed(s, x, k + 1) = f
          BY <3>2, KeyedMore
        <4>2. c[x] = NoValue /\ PutsOf(q, x) = {}
          BY <1>3, <2>1, <3>2
        <4>3. PutsOf(r, x) = {L + 1}
          BY <1>7, <3>2, <4>2
        <4>4. r[L + 1][2] = LogValue(f)
          BY <1>2, <1>5
        <4>. HIDE DEF f, L
        <4> QED BY <4>1, <4>2, <4>3, <4>4
      <3>3. CASE x # f.key
        <4>1. Keyed(s, x, k + 1) = Keyed(s, x, k) /\ LastKeyed(s, x, k + 1) = LastKeyed(s, x, k)
          BY <3>3, KeyedMore DEF LastKeyed
        <4>2. PutsOf(r, x) = PutsOf(q, x) /\ \A i \in PutsOf(q, x) : r[i] = q[i]
          BY <1>5, <1>7, <3>3 DEF PutsOf
        <4> QED BY <3>1, <4>1, <4>2
      <3> QED BY <3>2, <3>3
    <2> QED BY <2>1 DEF Unconsumed
  <1>9. FromFields(r, s, k + 1)
    <2>1. ASSUME NEW i \in 1 .. L + 1 PROVE \E j \in 1 .. k + 1 : r[i][2] = LogValue(s[j])
      <3>1. CASE i = L + 1
        <4>1. r[i][2] = LogValue(s[k + 1])
          BY <1>2, <1>5, <3>1
        <4> QED BY <1>1, <4>1
      <3>2. CASE i \in 1 .. L
        <4>1. r[i] = q[i]
          BY <1>5, <3>2
        <4>2. PICK j \in 1 .. k : q[i][2] = LogValue(s[j])
          BY <3>2 DEF OwnIs, FromFields
        <4> QED BY <1>1, <4>1, <4>2
      <3> QED BY <1>6, <3>1, <3>2
    <2> QED BY <1>5, <2>1 DEF FromFields
  <1>10. InOrder(r, s, k + 1)
    <2>1. PICK g \in [Shown(q) -> Plains(s, k)] :
             /\ \A i, j \in Shown(q) : i < j => g[i] < g[j]
             /\ \A i \in Shown(q) : q[i] = Pair(s[g[i]])
             /\ \A j \in Plains(s, k) : \E i \in Shown(q) : g[i] = j
      BY DEF OwnIs, InOrder
    <2>2. \A i : i \in Shown(r) <=> i \in Shown(q) \/ (i = L + 1 /\ f.key \notin CorrelationKeys)
      <3>1. \A i : i \in Shown(r) <=> i \in 1 .. L + 1 /\ r[i][1] \notin CorrelationKeys
        BY <1>5 DEF Shown
      <3>2. \A i : i \in Shown(q) <=> i \in 1 .. L /\ q[i][1] \notin CorrelationKeys
        BY DEF Shown
      <3>. HIDE DEF f, L
      <3>3. ASSUME NEW i PROVE i \in Shown(r) <=> i \in Shown(q) \/ (i = L + 1 /\ f.key \notin CorrelationKeys)
        <4>1. CASE i = L + 1
          BY <1>2, <1>5, <1>6, <3>1, <3>2, <4>1
        <4>2. CASE i # L + 1
          BY <1>5, <1>6, <3>1, <3>2, <4>2
        <4> QED BY <4>1, <4>2
      <3> QED BY <3>3
    <2>3. \A i \in Shown(q) : i \in 1 .. L /\ r[i] = q[i]
      BY <1>5 DEF Shown
    <2>4. CASE f.key \in CorrelationKeys
      <3>1. Shown(r) = Shown(q)
        BY <2>2, <2>4
      <3>2. Plains(s, k + 1) = Plains(s, k)
        BY <2>4, PlainsMore
      <3> QED BY <2>1, <2>3, <3>1, <3>2 DEF InOrder
    <2>5. CASE f.key \notin CorrelationKeys
      <3>. DEFINE h == [i \in Shown(r) |-> IF i = L + 1 THEN k + 1 ELSE g[i]]
      <3>1. Plains(s, k + 1) = Plains(s, k) \union {k + 1}
        BY <1>3, <2>5, PlainsMore
      <3>2. Shown(r) = Shown(q) \union {L + 1} /\ L + 1 \notin Shown(q)
        BY <1>6, <2>2, <2>3, <2>5
      <3>3. \A j \in Plains(s, k) : j < k + 1 /\ j \in Nat
        BY PlainsBelow
      <3>4. h[L + 1] = k + 1 /\ \A i \in Shown(q) : h[i] = g[i]
        BY <3>2
      <3>5. h \in [Shown(r) -> Plains(s, k + 1)]
        BY <2>1, <3>1, <3>2
      <3>. HIDE DEF h
      <3>6. ASSUME NEW i \in Shown(r), NEW j \in Shown(r), i < j PROVE h[i] < h[j]
        <4>1. i \in Shown(q)
          <5>1. i # L + 1
            <6>1. j \in 1 .. L \/ j = L + 1
              BY <2>3, <3>2
            <6>2. L \in Nat
              BY <1>1
            <6>. HIDE DEF L
            <6> QED BY <3>6, <6>1, <6>2
          <5> QED BY <3>2, <5>1
        <4>2. CASE j = L + 1
          BY <2>1, <3>3, <3>4, <4>1, <4>2
        <4>3. CASE j \in Shown(q)
          BY <2>1, <3>4, <3>6, <4>1, <4>3
        <4> QED BY <3>2, <4>2, <4>3
      <3>7. ASSUME NEW i \in Shown(r) PROVE r[i] = Pair(s[h[i]])
        <4>1. CASE i = L + 1
          BY <1>4, <1>5, <3>4, <4>1
        <4>2. CASE i \in Shown(q)
          BY <2>1, <2>3, <3>4, <4>2
        <4> QED BY <3>2, <4>1, <4>2
      <3>8. ASSUME NEW j \in Plains(s, k + 1) PROVE \E i \in Shown(r) : h[i] = j
        <4>1. CASE j = k + 1
          BY <3>2, <3>4, <4>1
        <4>2. CASE j \in Plains(s, k)
          BY <2>1, <3>2, <3>4, <4>2
        <4> QED BY <3>1, <4>1, <4>2
      <3> QED BY <3>5, <3>6, <3>7, <3>8 DEF InOrder
    <2> QED BY <2>4, <2>5
  <1>11. OwnIs(c, r, s, k + 1)
    BY <1>5, <1>8, <1>9, <1>10 DEF OwnIs
  <1> QED BY <1>11 DEF r, p

LEMMA OwnOfFields ==
  ASSUME NEW c \in Contexts3, NEW s \in Seq(OFields)
  PROVE  OwnIs(c, OwnOf(c, s), s, Len(s))
  <1>. DEFINE n == Len(s)
  <1>1. n \in Nat /\ \A i \in 1 .. n : s[i] \in OFields
    OBVIOUS
  <1>2. PICK g : /\ g[0] = <<>> /\ OwnOf(c, s) = g[n]
                 /\ \A k \in 1 .. n : g[k] = AttributeStep(c, g[k - 1], s[k])
    BY OwnRuns
  <1>. DEFINE N == {k \in Nat : k <= n => OwnIs(c, g[k], s, k)}
  <1>3. 0 \in N
    <2>1. <<>> \in Seq(Pairs) /\ Len(<<>>) = 0 /\ 1 .. 0 = {}
      OBVIOUS
    <2>2. \A x : Keyed(s, x, 0) = {} /\ PutsOf(<<>>, x) = {}
      BY <2>1 DEF Keyed, PutsOf
    <2>3. Shown(<<>>) = {} /\ Plains(s, 0) = {}
      BY <2>1 DEF Shown, Plains
    <2>4. InOrder(<<>>, s, 0)
      <3>1. [i \in {} |-> i] \in [{} -> {}]
        OBVIOUS
      <3> QED BY <2>3, <3>1 DEF InOrder
    <2>5. OwnIs(c, <<>>, s, 0)
      BY <2>1, <2>2, <2>4 DEF OwnIs, Unconsumed, FromFields
    <2> QED BY <1>2, <2>5
  <1>4. ASSUME NEW k \in Nat, k \in N PROVE k + 1 \in N
    <2>. SUFFICES ASSUME k + 1 <= n PROVE OwnIs(c, g[k + 1], s, k + 1)
      OBVIOUS
    <2>1. k + 1 \in 1 .. n /\ (k + 1) - 1 = k /\ k <= n
      BY <1>1
    <2>2. OwnIs(c, g[k], s, k) /\ g[k + 1] = AttributeStep(c, g[k], s[k + 1])
      BY <1>1, <1>2, <1>4, <2>1
    <2>3. CASE Skipped(c, s[k + 1])
      <3>1. g[k + 1] = g[k]
        BY <2>2, <2>3, AttributeIs
      <3> QED BY <2>1, <2>2, <2>3, <3>1, OwnSkips
    <2>4. CASE ~Skipped(c, s[k + 1]) /\ Overwrites(g[k], s[k + 1])
      <3>1. g[k + 1] = [g[k] EXCEPT ![CHOOSE i \in Slot(g[k], s[k + 1]) : TRUE] = Pair(s[k + 1])]
        BY <2>2, <2>4, AttributeIs
      <3> QED BY <2>1, <2>2, <2>4, <3>1, OwnOverwrites
    <2>5. CASE ~Skipped(c, s[k + 1]) /\ ~Overwrites(g[k], s[k + 1])
      <3>1. g[k + 1] = Append(g[k], Pair(s[k + 1]))
        BY <2>2, <2>5, AttributeIs
      <3> QED BY <2>1, <2>2, <2>5, <3>1, OwnAppends
    <2> QED BY <2>3, <2>4, <2>5
  <1>5. N = Nat
    <2>1. N \in SUBSET Nat
      OBVIOUS
    <2>. HIDE DEF N
    <2> QED BY <1>3, <1>4, <2>1, Ind
  <1>6. OwnIs(c, g[n], s, n)
    BY <1>1, <1>5
  <1> QED BY <1>2, <1>6

\* The attributes of the metadata, after those of the fields.
TailOf(own) == FoldLeft(LAMBDA attrs, k : FromMetadata(own, attrs, k), own, DerivedKeys)

LEMMA PairsIn == \A q \in Seq(Pairs) : q \in Seq(AllPairs)
  <1>1. \A p \in Pairs : p \in AllPairs
    BY DEF Pairs, AllPairs
  <1>. HIDE DEF Pairs, AllPairs
  <1> QED BY <1>1

LEMMA DeriveIn ==
  ASSUME NEW own, NEW q \in Seq(AllPairs), NEW k \in DKeys
  PROVE  FromMetadata(own, q, k) \in Seq(AllPairs)
  <1>1. <<k, Derived>> \in AllPairs
    BY DEF AllPairs
  <1>2. Append(q, <<k, Derived>>) \in Seq(AllPairs)
    BY <1>1
  <1> QED BY <1>2 DEF FromMetadata

\* The attributes of the metadata, key by key.
LEMMA TailRuns ==
  ASSUME NEW own \in Seq(Pairs)
  PROVE  \E g : /\ g[0] = own /\ TailOf(own) = g[Len(DerivedKeys)]
                /\ \A k \in 1 .. Len(DerivedKeys) : g[k] = FromMetadata(own, g[k - 1], DerivedKeys[k])
  <1>. DEFINE n == Len(DerivedKeys)
              G == [p \in Seq(AllPairs) \X (1 .. n) |-> FromMetadata(own, p[1], DerivedKeys[p[2]])]
  <1>1. n \in Nat /\ DOMAIN DerivedKeys = 1 .. n /\ (\A i \in 1 .. n : DerivedKeys[i] \in DKeys) /\ own \in Seq(AllPairs)
    BY DerivedAre, PairsIn
  <1>2. G \in [Seq(AllPairs) \X (1 .. n) -> Seq(AllPairs)] /\ \A e \in Seq(AllPairs), i \in 1 .. n : G[<<e, i>>] = FromMetadata(own, e, DerivedKeys[i])
      <2>1. \A q \in Seq(AllPairs), k \in DKeys : FromMetadata(own, q, k) \in Seq(AllPairs)
      BY DeriveIn
    <2> QED BY <1>1, <2>1
  <1>. HIDE DEF n, G
  <1>3. PICK f : FoldUpto(f, Seq(AllPairs), G, own, n)
    BY <1>1, <1>2, FoldExists
  <1>4. f = [t \in SUBSET (1 .. n) |-> IF t = {} THEN own ELSE FromMetadata(own, f[t \ {Max(t)}], DerivedKeys[Max(t)])]
    <2>1. /\ f \in [SUBSET (1 .. n) -> Seq(AllPairs)] /\ f[{}] = own
          /\ \A t \in SUBSET (1 .. n) : t # {} =>
                Max(t) \in 1 .. n /\ f[t \ {Max(t)}] \in Seq(AllPairs) /\ f[t] = G[<<f[t \ {Max(t)}], Max(t)>>]
      <3>1. FoldIs(f, Seq(AllPairs), G, own, n)
        BY <1>1, <1>3, FoldValues
      <3> QED BY <3>1 DEF FoldIs
    <2>2. \A t \in SUBSET (1 .. n) : t # {} => f[t] = FromMetadata(own, f[t \ {Max(t)}], DerivedKeys[Max(t)])
      BY <2>1, <1>2
    <2> QED BY <2>1, <2>2
  <1>. DEFINE iter == CHOOSE h : h = [t \in SUBSET (1 .. n) |-> IF t = {} THEN own ELSE FromMetadata(own, h[t \ {Max(t)}], DerivedKeys[Max(t)])]
              g == [k \in 0 .. n |-> iter[1 .. k]]
  <1>5. iter = [t \in SUBSET (1 .. n) |-> IF t = {} THEN own ELSE FromMetadata(own, iter[t \ {Max(t)}], DerivedKeys[Max(t)])]
    BY <1>4
  <1>6. TailOf(own) = iter[1 .. n]
    BY <1>1 DEF TailOf, FoldLeft, MapThenFoldSet
  <1>. HIDE DEF iter
  <1>7. g[0] = own /\ g[n] = TailOf(own) /\ \A k \in 1 .. n : g[k] = FromMetadata(own, g[k - 1], DerivedKeys[k])
    <2>1. /\ 1 .. 0 = {} /\ {} \in SUBSET (1 .. n) /\ 0 \in 0 .. n /\ n \in 0 .. n
          /\ \A k \in 1 .. n : /\ k \in 0 .. n /\ k - 1 \in 0 .. n /\ 1 .. k \in SUBSET (1 .. n) /\ 1 .. k # {}
                               /\ Max(1 .. k) = k /\ (1 .. k) \ {Max(1 .. k)} = 1 .. k - 1
      BY <1>1, FirstOnes
    <2>2. iter[{}] = own /\ \A k \in 1 .. n : iter[1 .. k] = FromMetadata(own, iter[1 .. k - 1], DerivedKeys[k])
      BY <1>5, <2>1
    <2> QED BY <1>6, <2>1, <2>2
  <1> QED BY <1>7 DEF n
\* The last of some indices is one of them.
LEMMA LastIsIn ==
  ASSUME NEW n \in Nat, NEW W \in SUBSET (1 .. n), W # {}
  PROVE  LastOfThem(W) \in W /\ \A j \in W : j <= LastOfThem(W)
  <1>1. Max(W) \in W /\ \A j \in W : j <= Max(W)
    BY Largest
  <1>2. \E i \in W : \A j \in W : j <= i
    BY <1>1
  <1> QED BY <1>2 DEF LastOfThem


\* What follows the attributes of the fields: of each derived key at most one, and
\* none that a field has.
TailIs(q, own, n) ==
    /\ q \in Seq(AllPairs) /\ Len(own) <= Len(q) /\ \A i \in 1 .. Len(own) : q[i] = own[i]
    /\ \A i \in 1 .. Len(q) : i > Len(own) =>
          /\ q[i][2] = Derived /\ \E j \in 1 .. n : q[i][1] = DerivedKeys[j]
          /\ \A j \in 1 .. Len(q) : q[j][1] = q[i][1] => i = j

LEMMA TailMore ==
  ASSUME NEW own \in Seq(Pairs), NEW k \in Nat, k + 1 <= 4, NEW q, TailIs(q, own, k)
  PROVE  TailIs(FromMetadata(own, q, DerivedKeys[k + 1]), own, k + 1)
  <1>. DEFINE x == DerivedKeys[k + 1]
              p == <<x, Derived>>
              r == Append(q, p)
              L == Len(q)
              M == Len(own)
  <1>1. /\ k + 1 \in 1 .. 4 /\ k + 1 \in 1 .. k + 1 /\ (\A j \in 1 .. k : j \in 1 .. k + 1 /\ j # k + 1 /\ j \in 1 .. 4)
        /\ L \in Nat /\ M \in Nat /\ M <= L /\ q \in Seq(AllPairs) /\ \A i \in 1 .. M : q[i] = own[i]
    BY DEF TailIs
  <1>2. CASE \E i \in DOMAIN own : own[i][1] = x
    <2>1. FromMetadata(own, q, x) = q
      BY <1>2 DEF FromMetadata
    <2>2. TailIs(q, own, k + 1)
      BY <1>1 DEF TailIs
    <2> QED BY <2>1, <2>2
  <1>3. CASE ~\E i \in DOMAIN own : own[i][1] = x
    <2>1. FromMetadata(own, q, x) = r
      BY <1>3 DEF FromMetadata
    <2>2. p \in AllPairs /\ p[1] = x /\ p[2] = Derived
      BY <1>1, DerivedAre DEF AllPairs
    <2>3. \A i \in 1 .. M : own[i][1] # x
      BY <1>3
    <2>4. \A i \in 1 .. L : q[i][1] # x
      <3>1. ASSUME NEW i \in 1 .. L PROVE q[i][1] # x
        <4>1. CASE i \in 1 .. M
          BY <1>1, <2>3, <4>1
        <4>2. CASE i > M
          <5>1. PICK j \in 1 .. k : q[i][1] = DerivedKeys[j]
            BY <4>2 DEF TailIs
          <5> QED BY <1>1, <5>1, DerivedAre
        <4>3. i \in 1 .. M \/ i > M
          <5>1. M \in Nat
            BY <1>1
          <5>. HIDE DEF M
          <5> QED BY <5>1
        <4> QED BY <4>1, <4>2, <4>3
      <3> QED BY <3>1
    <2>. HIDE DEF p, x
    <2>5. r \in Seq(AllPairs) /\ Len(r) = L + 1 /\ r[L + 1] = p /\ \A i \in 1 .. L : r[i] = q[i]
      BY <1>1, <2>2, AppendProperties
    <2>. HIDE DEF r
    <2>6. /\ \A i \in 1 .. L + 1 : i \in 1 .. L \/ i = L + 1
          /\ M <= L + 1 /\ \A i \in 1 .. M : i \in 1 .. L
      <3>1. M \in Nat /\ L \in Nat /\ M <= L
        BY <1>1
      <3>. HIDE DEF M, L
      <3> QED BY <3>1
    <2>7. ASSUME NEW i \in 1 .. L + 1, i > M
          PROVE  /\ r[i][2] = Derived /\ \E j \in 1 .. k + 1 : r[i][1] = DerivedKeys[j]
                 /\ \A j \in 1 .. L + 1 : r[j][1] = r[i][1] => i = j
      <3>1. CASE i = L + 1
        <4>1. r[i] = p
          BY <2>5, <3>1
        <4>2. \A j \in 1 .. L + 1 : r[j][1] = x => i = j
          BY <2>4, <2>5, <2>6, <3>1
        <4> QED BY <1>1, <2>2, <4>1, <4>2 DEF x
      <3>2. CASE i \in 1 .. L
        <4>1. r[i] = q[i] /\ r[i][1] # x
          BY <2>4, <2>5, <3>2
        <4>2. /\ q[i][2] = Derived /\ \E j \in 1 .. k : q[i][1] = DerivedKeys[j]
              /\ \A j \in 1 .. L : q[j][1] = q[i][1] => i = j
          BY <2>7, <3>2 DEF TailIs
        <4>3. ASSUME NEW j \in 1 .. L + 1, r[j][1] = r[i][1] PROVE i = j
          <5>1. j # L + 1
            BY <2>2, <2>5, <4>1, <4>3
          <5>2. j \in 1 .. L /\ r[j] = q[j]
            BY <2>5, <2>6, <5>1
          <5> QED BY <4>1, <4>2, <4>3, <5>2
        <4>4. \E j \in 1 .. k + 1 : r[i][1] = DerivedKeys[j]
          BY <1>1, <4>1, <4>2
        <4> QED BY <4>1, <4>2, <4>3, <4>4
      <3> QED BY <2>6, <3>1, <3>2
    <2>8. \A i \in 1 .. M : r[i] = own[i]
      BY <1>1, <2>5, <2>6
    <2>9. TailIs(r, own, k + 1)
      <3>1. Len(own) <= Len(r)
        BY <2>5, <2>6
      <3> QED BY <2>5, <2>7, <2>8, <3>1 DEF TailIs
    <2> QED BY <2>1, <2>9 DEF x
  <1> QED BY <1>2, <1>3

LEMMA TailOfOwn ==
  ASSUME NEW own \in Seq(Pairs)
  PROVE  TailIs(TailOf(own), own, 4)
  <1>1. PICK g : /\ g[0] = own /\ TailOf(own) = g[4]
                 /\ \A k \in 1 .. 4 : g[k] = FromMetadata(own, g[k - 1], DerivedKeys[k])
    BY TailRuns, DerivedAre
  <1>2. TailIs(g[0], own, 0)
    <2>1. own \in Seq(AllPairs) /\ Len(own) \in Nat
      BY PairsIn
    <2>2. \A i \in 1 .. Len(own) : ~(i > Len(own))
      BY <2>1
    <2> QED BY <1>1, <2>1, <2>2 DEF TailIs
  <1>3. ASSUME NEW k \in 0 .. 3, TailIs(g[k], own, k) PROVE TailIs(g[k + 1], own, k + 1)
    <2>1. k \in Nat /\ k + 1 <= 4 /\ k + 1 \in 1 .. 4 /\ (k + 1) - 1 = k
      OBVIOUS
    <2>2. g[k + 1] = FromMetadata(own, g[k], DerivedKeys[k + 1])
      BY <1>1, <2>1
    <2> QED BY <1>3, <2>1, <2>2, TailMore
  <1>4. TailIs(g[1], own, 1)
    <2>1. 0 \in 0 .. 3 /\ 0 + 1 = 1
      OBVIOUS
    <2> QED BY <1>2, <1>3, <2>1
  <1>5. TailIs(g[2], own, 2)
    <2>1. 1 \in 0 .. 3 /\ 1 + 1 = 2
      OBVIOUS
    <2> QED BY <1>4, <1>3, <2>1
  <1>6. TailIs(g[3], own, 3)
    <2>1. 2 \in 0 .. 3 /\ 2 + 1 = 3
      OBVIOUS
    <2> QED BY <1>5, <1>3, <2>1
  <1>7. TailIs(g[4], own, 4)
    <2>1. 3 \in 0 .. 3 /\ 3 + 1 = 4
      OBVIOUS
    <2> QED BY <1>6, <1>3, <2>1
  <1> QED BY <1>1, <1>7

\* What RecordFaithful says of a trace context and attributes.
Faithful(ctx, attrs) ==
    LET plain == {i \in DOMAIN oentry : oentry[i].key \notin CorrelationKeys \union {""}}
        own == {i \in DOMAIN attrs : attrs[i][1] \notin CorrelationKeys /\ attrs[i][2] # Derived}
        values == {attrs[i][2] : i \in DOMAIN attrs} \union {ctx[k] : k \in CorrelationKeys}
        shown == {LogValue(oentry[i]) : i \in DOMAIN oentry}
    IN  /\ \A k \in CorrelationKeys :
              LET as == {i \in DOMAIN attrs : attrs[i][1] = k}
              IN  IF ctx[k] # NoValue THEN ctx[k] = LastOf(k) /\ as = {}
                  ELSE IF \A i \in DOMAIN oentry : oentry[i].key # k THEN as = {}
                  ELSE \E i \in as : as = {i} /\ attrs[i][2] = LastOf(k)
        /\ ctx["span_id"] # NoValue => ctx["trace_id"] # NoValue
        /\ LastOf("trace_id") \in Hex => ctx["trace_id"] = LastOf("trace_id")
        /\ \E f \in [own -> plain] :
              /\ \A i, j \in own : i < j => f[i] < f[j]
              /\ \A i \in own : attrs[i] = <<oentry[f[i]].key, LogValue(oentry[f[i]])>>
              /\ \A j \in plain : \E i \in own : f[i] = j
        /\ values \subseteq shown \union {NoValue, Derived}
        /\ \A i \in DOMAIN attrs : attrs[i][2] = Derived =>
              \A j \in DOMAIN attrs : attrs[j][1] = attrs[i][1] => i = j

LEMMA OtelMeans == OtelInv => RecordFaithful /\ FlushHonest
  <1>. SUFFICES ASSUME OtelInv PROVE RecordFaithful
    BY DEF OtelInv
  <1>. DEFINE s == oentry
              n == Len(s)
              c == SpanContext(s)
              own == OwnOf(c, s)
              a == TailOf(own)
              M == Len(own)
  <1>1. s \in Seq(OFields) /\ n \in Nat /\ DOMAIN s = 1 .. n /\ \A i \in 1 .. n : s[i] \in OFields
    BY DEF OtelInv
  <1>2. /\ c \in Contexts3
        /\ \A k \in CorrelationKeys : c[k] # NoValue => Keyed(s, k, n) # {} /\ c[k] = LogValue(LastKeyed(s, k, n))
        /\ c["span_id"] # NoValue => c["trace_id"] # NoValue
        /\ Keyed(s, "trace_id", n) # {} /\ Parses(LastKeyed(s, "trace_id", n)) =>
              c["trace_id"] = LogValue(LastKeyed(s, "trace_id", n))
    BY <1>1, SpanIs
  <1>3. Record(s) = [ctx |-> c, attrs |-> a]
    BY DEF Record, Attributes, OwnOf, TailOf
  <1>. HIDE DEF c
  <1>4. OwnIs(c, own, s, n)
    BY <1>1, <1>2, OwnOfFields
  <1>. HIDE DEF own
  <1>5. own \in Seq(Pairs) /\ Unconsumed(c, own, s, n) /\ FromFields(own, s, n) /\ InOrder(own, s, n) /\ M \in Nat
    BY <1>4 DEF OwnIs
  <1>6. TailIs(a, own, 4)
    BY <1>5, TailOfOwn
  <1>. HIDE DEF a
  <1>7. /\ a \in Seq(AllPairs) /\ Len(a) \in Nat /\ DOMAIN a = 1 .. Len(a) /\ M <= Len(a) /\ \A i \in 1 .. M : a[i] = own[i]
    BY <1>6 DEF TailIs
  <1>8. \A i \in 1 .. Len(a) : i > M =>
           /\ a[i][2] = Derived /\ a[i][1] \notin CorrelationKeys
           /\ \A j \in 1 .. Len(a) : a[j][1] = a[i][1] => i = j
    BY <1>6, DerivedAre DEF TailIs
  <1>9. (\A i \in 1 .. Len(a) : i \in 1 .. M \/ i > M) /\ \A i \in 1 .. M : i \in 1 .. Len(a)
    <2>1. M \in Nat /\ Len(a) \in Nat /\ M <= Len(a)
      BY <1>5, <1>7
    <2>. HIDE DEF M
    <2> QED BY <2>1
  <1>10. \A i \in 1 .. M : a[i][2] # Derived /\ \E j \in 1 .. n : a[i][2] = LogValue(s[j])
    BY <1>1, <1>5, <1>7, FieldIs DEF FromFields
  <1>. HIDE DEF M
  <1>11. \A k : LastOf(k) = IF Keyed(s, k, n) = {} THEN NoValue ELSE LogValue(LastKeyed(s, k, n))
    <2>1. \A k : Keyed(s, k, n) = {i \in DOMAIN oentry : oentry[i].key = k}
      BY <1>1 DEF Keyed
    <2>2. ASSUME NEW k PROVE LastOf(k) = IF Keyed(s, k, n) = {} THEN NoValue ELSE LogValue(LastKeyed(s, k, n))
      <3>. DEFINE W == {i \in DOMAIN oentry : oentry[i].key = k}
      <3>1. LastOf(k) = IF W = {} THEN NoValue ELSE LogValue(oentry[CHOOSE i \in W : \A j \in W : j <= i])
        BY DEF LastOf
      <3>2. Keyed(s, k, n) = W
        BY <2>1
      <3>. HIDE DEF W
      <3>3. W # {} => LastKeyed(s, k, n) = oentry[CHOOSE i \in W : \A j \in W : j <= i]
        BY <3>2 DEF LastKeyed, LastOfThem
      <3> QED BY <3>1, <3>2, <3>3
    <2> QED BY <2>2
  <1>12. ASSUME NEW k \in CorrelationKeys
         PROVE  {i \in DOMAIN a : a[i][1] = k} = PutsOf(own, k)
    BY <1>5, <1>7, <1>8, <1>9, <1>12 DEF PutsOf, M
  <1>13. ASSUME NEW k \in CorrelationKeys
         PROVE  LET as == {i \in DOMAIN a : a[i][1] = k}
                IN  IF c[k] # NoValue THEN c[k] = LastOf(k) /\ as = {}
                    ELSE IF \A i \in DOMAIN oentry : oentry[i].key # k THEN as = {}
                    ELSE \E i \in as : as = {i} /\ a[i][2] = LastOf(k)
    <2>. DEFINE as == {i \in DOMAIN a : a[i][1] = k}
    <2>1. as = PutsOf(own, k)
      BY <1>12
    <2>2. IF c[k] # NoValue \/ Keyed(s, k, n) = {} THEN PutsOf(own, k) = {}
          ELSE \E i \in PutsOf(own, k) : PutsOf(own, k) = {i} /\ own[i][2] = LogValue(LastKeyed(s, k, n))
      BY <1>5 DEF Unconsumed
    <2>3. (\A i \in DOMAIN oentry : oentry[i].key # k) <=> Keyed(s, k, n) = {}
      BY <1>1 DEF Keyed
    <2>4. \A i \in PutsOf(own, k) : a[i] = own[i]
      BY <1>7 DEF PutsOf, M
    <2>. HIDE DEF as
    <2>5. CASE c[k] # NoValue
      BY <1>2, <1>11, <2>1, <2>2, <2>5 DEF as
    <2>6. CASE c[k] = NoValue /\ Keyed(s, k, n) = {}
      BY <2>1, <2>2, <2>3, <2>6 DEF as
    <2>7. CASE c[k] = NoValue /\ Keyed(s, k, n) # {}
      <3>1. PICK i \in PutsOf(own, k) : PutsOf(own, k) = {i} /\ own[i][2] = LogValue(LastKeyed(s, k, n))
        BY <2>2, <2>7
      <3>2. i \in as /\ as = {i} /\ a[i][2] = LastOf(k)
        BY <1>11, <2>1, <2>4, <2>7, <3>1
      <3> QED BY <2>3, <2>7, <3>2 DEF as
    <2> QED BY <2>5, <2>6, <2>7
  <1>14. LastOf("trace_id") \in Hex => c["trace_id"] = LastOf("trace_id")
    BY <1>2, <1>11, OtelAssumption DEF Parses
  <1>15. LET plain == {i \in DOMAIN oentry : oentry[i].key \notin CorrelationKeys \union {""}}
             shown == {i \in DOMAIN a : a[i][1] \notin CorrelationKeys /\ a[i][2] # Derived}
         IN  \E f \in [shown -> plain] :
                /\ \A i, j \in shown : i < j => f[i] < f[j]
                /\ \A i \in shown : a[i] = <<oentry[f[i]].key, LogValue(oentry[f[i]])>>
                /\ \A j \in plain : \E i \in shown : f[i] = j
    <2>1. {i \in DOMAIN oentry : oentry[i].key \notin CorrelationKeys \union {""}} = Plains(s, n)
      BY <1>1 DEF Plains
    <2>2. {i \in DOMAIN a : a[i][1] \notin CorrelationKeys /\ a[i][2] # Derived} = Shown(own)
      BY <1>5, <1>7, <1>8, <1>9, <1>10 DEF Shown, M
    <2>3. PICK f \in [Shown(own) -> Plains(s, n)] :
             /\ \A i, j \in Shown(own) : i < j => f[i] < f[j]
             /\ \A i \in Shown(own) : own[i] = Pair(s[f[i]])
             /\ \A j \in Plains(s, n) : \E i \in Shown(own) : f[i] = j
      BY <1>5 DEF InOrder
    <2>4. \A i \in Shown(own) : a[i] = <<oentry[f[i]].key, LogValue(oentry[f[i]])>>
      BY <1>7, <2>3 DEF Shown, Pair, M
    <2>. DEFINE plain == {i \in DOMAIN oentry : oentry[i].key \notin CorrelationKeys \union {""}}
                shown == {i \in DOMAIN a : a[i][1] \notin CorrelationKeys /\ a[i][2] # Derived}
    <2>5. plain = Plains(s, n) /\ shown = Shown(own)
      BY <2>1, <2>2
    <2>. HIDE DEF plain, shown, s, n
    <2>6. f \in [shown -> plain]
      BY <2>3, <2>5
    <2>7. (\A i, j \in shown : i < j => f[i] < f[j]) /\ \A j \in plain : \E i \in shown : f[i] = j
      BY <2>3, <2>5
    <2>8. \A i \in shown : a[i] = <<oentry[f[i]].key, LogValue(oentry[f[i]])>>
      BY <2>4, <2>5
    <2>9. \E g \in [shown -> plain] :
             /\ \A i, j \in shown : i < j => g[i] < g[j]
             /\ \A i \in shown : a[i] = <<oentry[g[i]].key, LogValue(oentry[g[i]])>>
             /\ \A j \in plain : \E i \in shown : g[i] = j
      BY <2>6, <2>7, <2>8
    <2> QED BY <2>9 DEF plain, shown
  <1>16. {a[i][2] : i \in DOMAIN a} \union {c[k] : k \in CorrelationKeys}
            \subseteq {LogValue(oentry[i]) : i \in DOMAIN oentry} \union {NoValue, Derived}
    <2>1. \A i \in DOMAIN a : a[i][2] \in {LogValue(oentry[j]) : j \in DOMAIN oentry} \union {NoValue, Derived}
      BY <1>1, <1>7, <1>8, <1>9, <1>10
    <2>2. ASSUME NEW k \in CorrelationKeys, c[k] # NoValue PROVE c[k] \in {LogValue(oentry[j]) : j \in DOMAIN oentry}
      <3>1. c[k] = LogValue(LastKeyed(s, k, n)) /\ Keyed(s, k, n) # {}
        BY <1>2, <2>2
      <3>2. c[k] # NoValue /\ PutsOf(own, k) = {}
        BY <1>5, <2>2 DEF Unconsumed
      <3>3. LastOfThem(Keyed(s, k, n)) \in Keyed(s, k, n)
        BY <1>1, <3>1, LastIsIn DEF Keyed
      <3> QED BY <1>1, <3>1, <3>3 DEF Keyed, LastKeyed
    <2> QED BY <2>1, <2>2
  <1>17. \A i \in DOMAIN a : a[i][2] = Derived =>
              \A j \in DOMAIN a : a[j][1] = a[i][1] => i = j
    BY <1>7, <1>8, <1>9, <1>10
  <1>18. Record(oentry).ctx = c /\ Record(oentry).attrs = a
    BY <1>3
  <1>. HIDE DEF s, n
  <1>19. Faithful(c, a)
    BY <1>2, <1>13, <1>14, <1>15, <1>16, <1>17 DEF Faithful
  <1>20. RecordFaithful <=> Faithful(Record(oentry).ctx, Record(oentry).attrs)
    BY Zenon DEF RecordFaithful, Faithful
  <1> QED BY <1>18, <1>19, <1>20

LEMMA OtelStart == OtelInit => OtelInv
  BY DEF OtelInit, OtelInv, FlushHonest

LEMMA OtelKeeps == OtelInv /\ OtelNext => OtelInv'
  <1>1. ASSUME OtelInv, NEW k \in OtelKeys, NEW v \in FieldValues, AddOtelField(k, v) PROVE OtelInv'
    <2>1. [key |-> k, typed |-> v.typed, boxed |-> v.boxed] \in OFields
      BY DEF OFields
    <2>2. oentry' = Append(oentry, [key |-> k, typed |-> v.typed, boxed |-> v.boxed]) /\ oflush' = oflush /\ provider' = provider
      BY <1>1 DEF AddOtelField
    <2>3. oentry' \in Seq(OFields)
      BY <1>1, <2>1, <2>2 DEF OtelInv
    <2> QED BY <1>1, <2>2, <2>3 DEF OtelInv, FlushHonest
  <1>2. ASSUME OtelInv, NEW e \in BOOLEAN, OtelWrite(e) PROVE OtelInv'
    <2>1. oentry' = <<>> /\ oflush' = oflush /\ provider' = provider
      BY <1>2 DEF OtelWrite
    <2> QED BY <1>2, <2>1 DEF OtelInv, FlushHonest
  <1>3. ASSUME OtelInv, OtelFlush PROVE OtelInv'
    <2>1. oentry' = oentry /\ provider' = provider
      BY <1>3 DEF OtelFlush
    <2>2. CASE provider.func \/ provider.drains
      <3>1. oflush' = [said |-> "ok", left |-> 0] \/ \E m \in 0 .. oqueue : oflush' = [said |-> "error", left |-> m]
        BY <1>3, <2>2 DEF OtelFlush
      <3>2. ~(oflush'.said = "ok" /\ oflush'.left > 0)
        BY <3>1
      <3> QED BY <1>3, <2>1, <3>2 DEF OtelInv, FlushHonest
    <2>3. CASE ~(provider.func \/ provider.drains)
      <3>1. oflush' = [said |-> IF provider.global THEN "unavailable" ELSE "ok", left |-> oqueue]
        BY <1>3, <2>3 DEF OtelFlush
      <3>2. oflush'.said = "ok" => ~provider.global
        BY <3>1
      <3> QED BY <1>3, <2>1, <2>3, <3>2 DEF OtelInv, FlushHonest
    <2> QED BY <2>2, <2>3
  <1> QED BY <1>1, <1>2, <1>3 DEF OtelNext

LEMMA OtelUnchanged == OtelInv /\ UNCHANGED otelVars => OtelInv'
  <1>. SUFFICES ASSUME OtelInv, UNCHANGED otelVars PROVE OtelInv'
    OBVIOUS
  <1>1. oentry' = oentry /\ oflush' = oflush /\ provider' = provider
    BY DEF otelVars
  <1> QED BY <1>1 DEF OtelInv, FlushHonest

-----------------------------------------------------------------------------
(* Colours (color_registry.go).                                               *)

\* What a slot can say, the registries there can be, and the changes.
Palette == Ansi \union {NoColour} \union Schemes
Regs == [slots : [InArray -> Palette], slots256 : [InArray -> Palette], custom : [TextKeys -> Palette],
         byID : [Fields -> Palette], scheme : Schemes, enabled : BOOLEAN]
ChangeSet ==
    {ColourSet(lx[1], lx[2]) : lx \in ColourLevels \X Ansi}
       \union {[op |-> "scheme", scheme |-> s] : s \in Schemes}
       \union {[op |-> "switch", on |-> b] : b \in BOOLEAN}
       \union {[op |-> "reset"]}
       \union {[op |-> fxb[3], field |-> fxb[1], colour |-> fxb[2]] :
                  fxb \in Fields \X (Ansi \union {NoColour}) \X {"field", "id"}}

\* The parts of a registry are those it is put together from.
LEMMA RegFields ==
  ASSUME NEW sl, NEW sl256, NEW cs, NEW ids, NEW sch, NEW on
  PROVE  LET r == Reg(sl, sl256, cs, ids, sch, on)
         IN  r.slots = sl /\ r.slots256 = sl256 /\ r.custom = cs /\ r.byID = ids /\ r.scheme = sch
  BY DEF Reg

LEMMA RegIn ==
  ASSUME NEW sl \in [InArray -> Palette], NEW sl256 \in [InArray -> Palette], NEW cs \in [TextKeys -> Palette],
         NEW ids \in [Fields -> Palette], NEW sch \in Schemes, NEW on \in BOOLEAN
  PROVE  Reg(sl, sl256, cs, ids, sch, on) \in Regs
  BY DEF Reg, Regs

\* A registry has all its parts, and is what they make.
LEMMA RegIs ==
  ASSUME NEW r \in Regs
  PROVE  /\ r.slots \in [InArray -> Palette] /\ r.slots256 \in [InArray -> Palette]
         /\ r.custom \in [TextKeys -> Palette] /\ r.byID \in [Fields -> Palette]
         /\ r.scheme \in Schemes /\ r.enabled \in BOOLEAN
         /\ Reg(r.slots, r.slots256, r.custom, r.byID, r.scheme, r.enabled) = r
  BY DEF Regs, Reg

\* Levels with a slot have a text of their own.
LEMMA TextOfSlot ==
  ASSUME NEW l \in ColourLevels, NEW m \in ColourLevels, l < 256
  PROVE  LevelKey(l) = LevelKey(m) <=> l = m
  <1>1. l \in Nat /\ m \in Nat
    BY ColoursAssumption
  <1>2. LevelKey(l) = l
    BY <1>1 DEF LevelKey
  <1>3. LevelKey(m) \in {m, -1}
    BY <1>1 DEF LevelKey
  <1> QED BY <1>1, <1>2, <1>3

LEMMA ArrayIs ==
  /\ \A l \in InArray : l \in ColourLevels /\ l \in Nat /\ l < 256 /\ ~(l >= 256)
  /\ \A l \in ColourLevels : l < 256 => l \in InArray
  /\ \A l \in ColourLevels : l \in Nat /\ LevelKey(l) \in TextKeys
  /\ \A l \in ColourLevels : (l < 256 /\ ~(l >= 256)) \/ (~(l < 256) /\ l >= 256)
  /\ \A l \in Standard : l < 256
  <1>1. \A l \in ColourLevels : l \in Nat
    BY ColoursAssumption
  <1>2. \A l \in InArray : l \in ColourLevels /\ l < 256
    BY DEF InArray
  <1>3. \A l \in ColourLevels : l < 256 => l \in InArray
    BY DEF InArray
  <1>4. \A l \in ColourLevels : LevelKey(l) \in TextKeys
    BY DEF TextKeys
  <1>5. \A l \in Nat : (l < 256 /\ ~(l >= 256)) \/ (~(l < 256) /\ l >= 256)
    OBVIOUS
  <1>6. \A l \in Standard : l < 256
    BY DEF Standard
  <1> QED BY <1>1, <1>2, <1>3, <1>4, <1>5, <1>6

LEMMA PaintedIs ==
  ASSUME NEW a \in [InArray -> Palette], NEW s \in Schemes
  PROVE  /\ Painted(a, s) \in [InArray -> Palette]
         /\ \A l \in InArray : Painted(a, s)[l] = IF l \in Standard THEN s ELSE a[l]
  BY DEF Painted, Palette

\* What a change does to a registry, level by level and field by field.
EffectIs(q, r, c) ==
    /\ q \in Regs
    /\ \A l \in InArray :
          q.slots[l] = IF Gives(c, l) THEN c.colour
                       ELSE IF l \in Standard /\ Repaints(c, "default") THEN (IF c.op = "reset" THEN "default" ELSE c.scheme)
                       ELSE r.slots[l]
    /\ \A l \in InArray :
          q.slots256[l] = IF Gives(c, l) THEN c.colour
                          ELSE IF l \in Standard /\ Repaints(c, "dark") THEN "dark"
                          ELSE r.slots256[l]
    /\ \A l \in ColourLevels : l >= 256 =>
          q.custom[LevelKey(l)] = IF Gives(c, l) THEN c.colour
                                  ELSE IF c.op = "reset" THEN NoColour
                                  ELSE r.custom[LevelKey(l)]
    /\ \A f \in Fields :
          q.byID[f] = IF c.op = "id" /\ c.field = f /\ c.colour # NoColour THEN c.colour ELSE r.byID[f]
    /\ \A l : Gives(c, l) => c.op # "reset" /\ ~Repaints(c, "default") /\ ~Repaints(c, "dark")

LEMMA SetIs ==
  ASSUME NEW r \in Regs, NEW m \in ColourLevels, NEW x \in Ansi
  PROVE  EffectIs(Effect(r, ColourSet(m, x)), r, ColourSet(m, x))
  <1>. DEFINE c == ColourSet(m, x)
  <1>1. c.op = "set" /\ c.level = m /\ c.colour = x
    BY DEF ColourSet
  <1>. HIDE DEF c
  <1>. SUFFICES EffectIs(Effect(r, c), r, c)
    BY DEF c
  <1>2. /\ r.slots \in [InArray -> Palette] /\ r.slots256 \in [InArray -> Palette]
        /\ r.custom \in [TextKeys -> Palette] /\ r.byID \in [Fields -> Palette]
        /\ r.scheme \in Schemes /\ r.enabled \in BOOLEAN
    BY RegIs
  <1>3. x \in Palette
    BY DEF Palette
  <1>4. Effect(r, c) = ColorSet(r, m, x)
    BY <1>1 DEF Effect
  <1>5. \A l : Gives(c, l) <=> LevelKey(m) = LevelKey(l)
    BY <1>1 DEF Gives
  <1>6. ~Repaints(c, "default") /\ ~Repaints(c, "dark")
    BY <1>1 DEF Repaints
  <1>7. CASE m < 256
    <2>1. ColorSet(r, m, x) =
             Reg([r.slots EXCEPT ![m] = x], [r.slots256 EXCEPT ![m] = x], r.custom, r.byID, r.scheme, r.enabled)
      BY <1>7 DEF ColorSet
    <2>. DEFINE a == [r.slots EXCEPT ![m] = x]
                b == [r.slots256 EXCEPT ![m] = x]
    <2>2. m \in InArray
      BY <1>7, ArrayIs
    <2>3. a \in [InArray -> Palette] /\ \A l \in InArray : a[l] = IF l = m THEN x ELSE r.slots[l]
      BY <1>2, <1>3, <2>2
    <2>4. b \in [InArray -> Palette] /\ \A l \in InArray : b[l] = IF l = m THEN x ELSE r.slots256[l]
      BY <1>2, <1>3, <2>2
    <2>. HIDE DEF a, b
    <2>5. Effect(r, c) = Reg(a, b, r.custom, r.byID, r.scheme, r.enabled)
      BY <1>4, <2>1 DEF a, b
    <2>6. \A l \in ColourLevels : Gives(c, l) <=> l = m
      BY <1>5, <1>7, TextOfSlot
    <2>7. Effect(r, c) \in Regs
      BY <1>2, <2>3, <2>4, <2>5, RegIn
    <2>8. /\ Effect(r, c).slots = a /\ Effect(r, c).slots256 = b
          /\ Effect(r, c).custom = r.custom /\ Effect(r, c).byID = r.byID
      BY <2>5, RegFields
    <2>9. \A l \in ColourLevels : l >= 256 => ~Gives(c, l)
      BY <1>7, <2>6, ArrayIs
    <2> QED BY <1>1, <1>6, <2>3, <2>4, <2>6, <2>7, <2>8, <2>9, ArrayIs DEF EffectIs
  <1>8. CASE ~(m < 256)
    <2>. DEFINE a == [r.custom EXCEPT ![LevelKey(m)] = x]
    <2>1. ColorSet(r, m, x) = Reg(r.slots, r.slots256, a, r.byID, r.scheme, r.enabled)
      BY <1>8 DEF ColorSet
    <2>2. LevelKey(m) \in TextKeys
      BY ArrayIs
    <2>3. a \in [TextKeys -> Palette] /\ \A k \in TextKeys : a[k] = IF k = LevelKey(m) THEN x ELSE r.custom[k]
      BY <1>2, <1>3, <2>2
    <2>. HIDE DEF a
    <2>5. Effect(r, c) = Reg(r.slots, r.slots256, a, r.byID, r.scheme, r.enabled)
      BY <1>4, <2>1
    <2>6. \A l \in InArray : ~Gives(c, l)
      <3>1. \A l \in InArray : l \in ColourLevels /\ l < 256 /\ l # m
        BY <1>8, ArrayIs
      <3> QED BY <1>5, <3>1, TextOfSlot
    <2>7. Effect(r, c) \in Regs
      BY <1>2, <2>3, <2>5, RegIn
    <2>8. /\ Effect(r, c).slots = r.slots /\ Effect(r, c).slots256 = r.slots256
          /\ Effect(r, c).custom = a /\ Effect(r, c).byID = r.byID
      BY <2>5, RegFields
    <2>9. \A l \in ColourLevels : a[LevelKey(l)] = IF Gives(c, l) THEN x ELSE r.custom[LevelKey(l)]
      BY <1>5, <2>3, ArrayIs
    <2> QED BY <1>1, <1>6, <2>6, <2>7, <2>8, <2>9 DEF EffectIs
  <1> QED BY <1>7, <1>8

\* Any other change that leaves what the map of texts has under its own conditions.
LEMMA SchemeIs ==
  ASSUME NEW r \in Regs, NEW s \in Schemes
  PROVE  EffectIs(Effect(r, [op |-> "scheme", scheme |-> s]), r, [op |-> "scheme", scheme |-> s])
  <1>. DEFINE c == [op |-> "scheme", scheme |-> s]
  <1>1. c.op = "scheme" /\ c.scheme = s
    OBVIOUS
  <1>. HIDE DEF c
  <1>. SUFFICES EffectIs(Effect(r, c), r, c)
    BY DEF c
  <1>2. /\ r.slots \in [InArray -> Palette] /\ r.slots256 \in [InArray -> Palette]
        /\ r.custom \in [TextKeys -> Palette] /\ r.byID \in [Fields -> Palette]
        /\ r.scheme \in Schemes /\ r.enabled \in BOOLEAN
    BY RegIs
  <1>3. Effect(r, c) = SchemeSet(r, s)
    BY <1>1 DEF Effect
  <1>4. \A l : ~Gives(c, l)
    BY <1>1 DEF Gives
  <1>5. /\ Repaints(c, "default") <=> s \in {"default", "dark", "light"}
        /\ Repaints(c, "dark") <=> s = "default"
    BY <1>1 DEF Repaints
  <1>6. Defaults(r).slots = Painted(r.slots, "default") /\ Defaults(r).slots256 = Painted(r.slots256, "dark")
    BY RegFields DEF Defaults
  <1>7. "default" \in Schemes /\ "dark" \in Schemes
    BY DEF Schemes
  <1>8. CASE s = "default"
    <2>. DEFINE a == Painted(r.slots, "default")
                b == Painted(r.slots256, "dark")
    <2>1. SchemeSet(r, s) = Reg(Defaults(r).slots, Defaults(r).slots256, r.custom, r.byID, s, r.enabled)
      BY <1>8 DEF SchemeSet
    <2>2. SchemeSet(r, s) = Reg(a, b, r.custom, r.byID, s, r.enabled)
      BY <1>6, <2>1
    <2>3. a \in [InArray -> Palette] /\ \A l \in InArray : a[l] = IF l \in Standard THEN "default" ELSE r.slots[l]
      BY <1>2, <1>7, PaintedIs
    <2>4. b \in [InArray -> Palette] /\ \A l \in InArray : b[l] = IF l \in Standard THEN "dark" ELSE r.slots256[l]
      BY <1>2, <1>7, PaintedIs
    <2>. HIDE DEF a, b
    <2>5. Effect(r, c) \in Regs
      BY <1>2, <1>3, <2>2, <2>3, <2>4, RegIn
    <2>6. /\ Effect(r, c).slots = a /\ Effect(r, c).slots256 = b
          /\ Effect(r, c).custom = r.custom /\ Effect(r, c).byID = r.byID
      BY <1>3, <2>2, RegFields
    <2>7. Repaints(c, "default") /\ Repaints(c, "dark")
      BY <1>5, <1>8
    <2> QED BY <1>1, <1>4, <1>8, <2>3, <2>4, <2>5, <2>6, <2>7 DEF EffectIs
  <1>9. CASE s \in {"dark", "light"}
    <2>. DEFINE a == Painted(r.slots, s)
    <2>1. SchemeSet(r, s) = Reg(a, r.slots256, r.custom, r.byID, s, r.enabled)
      BY <1>9 DEF SchemeSet
    <2>3. a \in [InArray -> Palette] /\ \A l \in InArray : a[l] = IF l \in Standard THEN s ELSE r.slots[l]
      BY <1>2, PaintedIs
    <2>. HIDE DEF a
    <2>5. Effect(r, c) \in Regs
      BY <1>2, <1>3, <2>1, <2>3, RegIn
    <2>6. /\ Effect(r, c).slots = a /\ Effect(r, c).slots256 = r.slots256
          /\ Effect(r, c).custom = r.custom /\ Effect(r, c).byID = r.byID
      BY <1>3, <2>1, RegFields
    <2>7. Repaints(c, "default") /\ ~Repaints(c, "dark")
      BY <1>5, <1>9
    <2> QED BY <1>1, <1>4, <2>3, <2>5, <2>6, <2>7 DEF EffectIs
  <1>10. CASE s = "custom"
    <2>1. SchemeSet(r, s) = Reg(r.slots, r.slots256, r.custom, r.byID, s, r.enabled)
      BY <1>10 DEF SchemeSet
    <2>5. Effect(r, c) \in Regs
      BY <1>2, <1>3, <2>1, RegIn
    <2>6. /\ Effect(r, c).slots = r.slots /\ Effect(r, c).slots256 = r.slots256
          /\ Effect(r, c).custom = r.custom /\ Effect(r, c).byID = r.byID
      BY <1>3, <2>1, RegFields
    <2>7. ~Repaints(c, "default") /\ ~Repaints(c, "dark")
      BY <1>5, <1>10
    <2> QED BY <1>1, <1>4, <2>5, <2>6, <2>7 DEF EffectIs
  <1>11. s \in {"default", "dark", "light", "custom"}
    BY DEF Schemes
  <1> QED BY <1>8, <1>9, <1>10, <1>11

LEMMA SwitchIs ==
  ASSUME NEW r \in Regs, NEW b \in BOOLEAN
  PROVE  EffectIs(Effect(r, [op |-> "switch", on |-> b]), r, [op |-> "switch", on |-> b])
  <1>. DEFINE c == [op |-> "switch", on |-> b]
  <1>1. c.op = "switch" /\ c.on = b
    OBVIOUS
  <1>. HIDE DEF c
  <1>2. /\ r.slots \in [InArray -> Palette] /\ r.slots256 \in [InArray -> Palette]
        /\ r.custom \in [TextKeys -> Palette] /\ r.byID \in [Fields -> Palette]
        /\ r.scheme \in Schemes
    BY RegIs
  <1>3. Effect(r, c) = Reg(r.slots, r.slots256, r.custom, r.byID, r.scheme, b)
    BY <1>1 DEF Effect, Switched
  <1>4. \A l : ~Gives(c, l)
    BY <1>1 DEF Gives
  <1>5. ~Repaints(c, "default") /\ ~Repaints(c, "dark")
    BY <1>1 DEF Repaints
  <1>6. Effect(r, c) \in Regs
    BY <1>2, <1>3, RegIn
  <1>7. /\ Effect(r, c).slots = r.slots /\ Effect(r, c).slots256 = r.slots256
        /\ Effect(r, c).custom = r.custom /\ Effect(r, c).byID = r.byID
    BY <1>3, RegFields
  <1>8. EffectIs(Effect(r, c), r, c)
    BY <1>1, <1>4, <1>5, <1>6, <1>7 DEF EffectIs
  <1> QED BY <1>8 DEF c

LEMMA ResetIs ==
  ASSUME NEW r \in Regs
  PROVE  EffectIs(Effect(r, [op |-> "reset"]), r, [op |-> "reset"])
  <1>. DEFINE c == [op |-> "reset"]
              a == Painted(r.slots, "default")
              b == Painted(r.slots256, "dark")
              e == [k \in TextKeys |-> NoColour]
              on == TRUE
  <1>1. c.op = "reset"
    OBVIOUS
  <1>. HIDE DEF c
  <1>2. r.slots \in [InArray -> Palette] /\ r.slots256 \in [InArray -> Palette] /\ r.byID \in [Fields -> Palette]
    BY RegIs
  <1>3. Effect(r, c) = Reg(Defaults(r).slots, Defaults(r).slots256, e, r.byID, "default", on)
    BY <1>1 DEF Effect, Cleared
  <1>4. \A l : ~Gives(c, l)
    BY <1>1 DEF Gives
  <1>5. Repaints(c, "default") /\ Repaints(c, "dark")
    BY <1>1 DEF Repaints
  <1>6. Defaults(r).slots = a /\ Defaults(r).slots256 = b
    BY RegFields DEF Defaults
  <1>7. "default" \in Schemes /\ "dark" \in Schemes
    BY DEF Schemes
  <1>8. a \in [InArray -> Palette] /\ \A l \in InArray : a[l] = IF l \in Standard THEN "default" ELSE r.slots[l]
    BY <1>2, <1>7, PaintedIs
  <1>9. b \in [InArray -> Palette] /\ \A l \in InArray : b[l] = IF l \in Standard THEN "dark" ELSE r.slots256[l]
    BY <1>2, <1>7, PaintedIs
  <1>10. e \in [TextKeys -> Palette] /\ \A k \in TextKeys : e[k] = NoColour
    BY DEF Palette
  <1>15. on \in BOOLEAN
    OBVIOUS
  <1>. HIDE DEF a, b, e, on
  <1>11. Effect(r, c) = Reg(a, b, e, r.byID, "default", on)
    BY <1>3, <1>6
  <1>12. Effect(r, c) \in Regs
    BY <1>2, <1>7, <1>8, <1>9, <1>10, <1>11, <1>15, RegIn
  <1>13. /\ Effect(r, c).slots = a /\ Effect(r, c).slots256 = b
         /\ Effect(r, c).custom = e /\ Effect(r, c).byID = r.byID
    BY <1>11, RegFields
  <1>14. EffectIs(Effect(r, c), r, c)
    BY <1>1, <1>4, <1>5, <1>8, <1>9, <1>10, <1>12, <1>13, ArrayIs DEF EffectIs
  <1> QED BY <1>14 DEF c

LEMMA FieldIsSet ==
  ASSUME NEW r \in Regs, NEW f \in Fields, NEW x \in Ansi \union {NoColour}, NEW by \in {"field", "id"}
  PROVE  EffectIs(Effect(r, [op |-> by, field |-> f, colour |-> x]), r, [op |-> by, field |-> f, colour |-> x])
  <1>. DEFINE c == [op |-> by, field |-> f, colour |-> x]
  <1>1. c.op = by /\ c.field = f /\ c.colour = x
    OBVIOUS
  <1>. HIDE DEF c
  <1>. SUFFICES EffectIs(Effect(r, c), r, c)
    BY DEF c
  <1>2. /\ r.slots \in [InArray -> Palette] /\ r.slots256 \in [InArray -> Palette]
        /\ r.custom \in [TextKeys -> Palette] /\ r.byID \in [Fields -> Palette]
        /\ r.scheme \in Schemes /\ r.enabled \in BOOLEAN
    BY RegIs
  <1>3. x \in Palette
    BY DEF Palette
  <1>4. \A l : Gives(c, l) <=> l >= 256 /\ by = "field" /\ f = LevelKey(l) /\ x # NoColour
    BY <1>1 DEF Gives
  <1>5. ~Repaints(c, "default") /\ ~Repaints(c, "dark")
    BY <1>1 DEF Repaints
  <1>6. CASE x = NoColour
    <2>1. Effect(r, c) = r
      BY <1>1, <1>6 DEF Effect, FieldNamed, FieldNumbered
    <2>2. \A l : ~Gives(c, l)
      BY <1>4, <1>6
    <2> QED BY <1>1, <1>5, <1>6, <2>1, <2>2 DEF EffectIs
  <1>7. CASE x # NoColour /\ by = "field"
    <2>. DEFINE a == [r.custom EXCEPT ![f] = x]
    <2>1. f \in TextKeys
      BY DEF TextKeys
    <2>2. a \in [TextKeys -> Palette] /\ \A k \in TextKeys : a[k] = IF k = f THEN x ELSE r.custom[k]
      BY <1>2, <1>3, <2>1
    <2>3. Effect(r, c) = Reg(r.slots, r.slots256, a, r.byID, r.scheme, r.enabled)
      BY <1>1, <1>7 DEF Effect, FieldNamed
    <2>. HIDE DEF a
    <2>4. Effect(r, c) \in Regs
      BY <1>2, <2>2, <2>3, RegIn
    <2>5. /\ Effect(r, c).slots = r.slots /\ Effect(r, c).slots256 = r.slots256
          /\ Effect(r, c).custom = a /\ Effect(r, c).byID = r.byID
      BY <2>3, RegFields
    <2>6. \A l \in ColourLevels : l >= 256 => a[LevelKey(l)] = IF Gives(c, l) THEN x ELSE r.custom[LevelKey(l)]
      BY <1>4, <1>7, <2>2, ArrayIs
    <2>7. \A l \in InArray : ~Gives(c, l)
      BY <1>4, ArrayIs
    <2> QED BY <1>1, <1>5, <1>7, <2>4, <2>5, <2>6, <2>7 DEF EffectIs
  <1>8. CASE x # NoColour /\ by = "id"
    <2>. DEFINE a == [r.byID EXCEPT ![f] = x]
    <2>2. a \in [Fields -> Palette] /\ \A g \in Fields : a[g] = IF g = f THEN x ELSE r.byID[g]
      BY <1>2, <1>3
    <2>3. Effect(r, c) = Reg(r.slots, r.slots256, r.custom, a, r.scheme, r.enabled)
      BY <1>1, <1>8 DEF Effect, FieldNumbered
    <2>. HIDE DEF a
    <2>4. Effect(r, c) \in Regs
      BY <1>2, <2>2, <2>3, RegIn
    <2>5. /\ Effect(r, c).slots = r.slots /\ Effect(r, c).slots256 = r.slots256
          /\ Effect(r, c).custom = r.custom /\ Effect(r, c).byID = a
      BY <2>3, RegFields
    <2>6. \A l : ~Gives(c, l)
      BY <1>4, <1>8
    <2> QED BY <1>1, <1>5, <1>8, <2>2, <2>4, <2>5, <2>6 DEF EffectIs
  <1> QED BY <1>6, <1>7, <1>8

LEMMA EffectIsRight == ASSUME NEW r \in Regs, NEW c \in ChangeSet PROVE EffectIs(Effect(r, c), r, c)
  <1>1. CASE \E lx \in ColourLevels \X Ansi : c = ColourSet(lx[1], lx[2])
    BY <1>1, SetIs
  <1>2. CASE \E s \in Schemes : c = [op |-> "scheme", scheme |-> s]
    BY <1>2, SchemeIs
  <1>3. CASE \E b \in BOOLEAN : c = [op |-> "switch", on |-> b]
    BY <1>3, SwitchIs
  <1>4. CASE c = [op |-> "reset"]
    BY <1>4, ResetIs
  <1>5. CASE \E fxb \in Fields \X (Ansi \union {NoColour}) \X {"field", "id"} :
                c = [op |-> fxb[3], field |-> fxb[1], colour |-> fxb[2]]
    BY <1>5, FieldIsSet
  <1> QED BY <1>1, <1>2, <1>3, <1>4, <1>5 DEF ChangeSet

\* The last of the first numbers of a set, one number further.
LEMMA LatestStep ==
  ASSUME NEW W, NEW k \in Nat
  PROVE  Latest(W \intersect (1 .. k + 1)) = IF k + 1 \in W THEN k + 1 ELSE Latest(W \intersect (1 .. k))
  <1>1. CASE k + 1 \in W
    <2>. DEFINE V == W \intersect (1 .. k + 1)
    <2>1. k + 1 \in V /\ \A i \in V : i \in Nat /\ i <= k + 1
      BY <1>1
    <2>2. V # {} /\ \A i \in V : (\A j \in V : j <= i) <=> i = k + 1
      <3>1. k + 1 \in Nat
        OBVIOUS
      <3>. HIDE DEF V
      <3> QED BY <2>1, <3>1
    <2>. HIDE DEF V
    <2>3. (CHOOSE i \in V : \A j \in V : j <= i) = k + 1
      BY <2>1, <2>2
    <2>4. Latest(V) = k + 1
      BY <2>2, <2>3 DEF Latest
    <2> QED BY <1>1, <2>4 DEF V
  <1>2. CASE k + 1 \notin W
    <2>1. W \intersect (1 .. k + 1) = W \intersect (1 .. k)
      BY <1>2
    <2> QED BY <1>2, <2>1
  <1> QED BY <1>1, <1>2

LEMMA LatestNone == ASSUME NEW W PROVE Latest(W \intersect (1 .. 0)) = 0
  <1>1. W \intersect (1 .. 0) = {}
    OBVIOUS
  <1> QED BY <1>1 DEF Latest

LEMMA LatestIn == ASSUME NEW W, NEW k \in Nat PROVE Latest(W \intersect (1 .. k)) \in 0 .. k
  <1>. DEFINE N == {n \in Nat : Latest(W \intersect (1 .. n)) \in 0 .. n}
  <1>1. 0 \in N
    BY LatestNone
  <1>2. ASSUME NEW n \in Nat, n \in N PROVE n + 1 \in N
    <2>1. Latest(W \intersect (1 .. n + 1)) = IF n + 1 \in W THEN n + 1 ELSE Latest(W \intersect (1 .. n))
      BY LatestStep
    <2>. DEFINE x == Latest(W \intersect (1 .. n))
                y == Latest(W \intersect (1 .. n + 1))
    <2>2. x \in 0 .. n /\ (y = n + 1 \/ y = x)
      BY <1>2, <2>1
    <2>. HIDE DEF x, y
    <2>3. y \in 0 .. n + 1
      BY <2>2
    <2> QED BY <2>3 DEF y
  <1>3. N = Nat
    <2>1. N \in SUBSET Nat
      OBVIOUS
    <2>. HIDE DEF N
    <2> QED BY <1>1, <1>2, <2>1, Ind
  <1> QED BY <1>3

\* Of changes, those that give a level its colour, that repaint for a scheme, that
\* reset, and that give a field's id its colour.
GivingColour(t, l) == {i \in 1 .. Len(t) : Gives(t[i], l)}
Painting(t, s) == {i \in 1 .. Len(t) : Repaints(t[i], s)}
Resetting(t) == {i \in 1 .. Len(t) : t[i].op = "reset"}
Numbering(t, f) == {i \in 1 .. Len(t) : t[i].op = "id" /\ t[i].field = f /\ t[i].colour # NoColour}
LastUpto(W, k) == Latest(W \intersect (1 .. k))

\* What a registry is after the first k changes.
SlotsAre(r, t, k) ==
    \A l \in InArray :
       LET g == LastUpto(GivingColour(t, l), k)
           p == LastUpto(Painting(t, "default"), k)
       IN  r.slots[l] = IF l \in Standard
                        THEN IF g > p THEN t[g].colour
                             ELSE IF p = 0 THEN "default"
                             ELSE IF t[p].op = "reset" THEN "default" ELSE t[p].scheme
                        ELSE IF g > 0 THEN t[g].colour ELSE NoColour
Slots256Are(r, t, k) ==
    \A l \in InArray :
       LET g == LastUpto(GivingColour(t, l), k)
           p == LastUpto(Painting(t, "dark"), k)
       IN  r.slots256[l] = IF l \in Standard THEN IF g > p THEN t[g].colour ELSE "dark"
                           ELSE IF g > 0 THEN t[g].colour ELSE NoColour
CustomIs(r, t, k) ==
    \A l \in ColourLevels : l >= 256 =>
       LET g == LastUpto(GivingColour(t, l), k)
           p == LastUpto(Resetting(t), k)
       IN  r.custom[LevelKey(l)] = IF g > p THEN t[g].colour ELSE NoColour
IdsAre(r, t, k) ==
    \A f \in Fields :
       LET g == LastUpto(Numbering(t, f), k)
       IN  r.byID[f] = IF g > 0 THEN t[g].colour ELSE NoColour
RegIsAfter(r, t, k) == SlotsAre(r, t, k) /\ Slots256Are(r, t, k) /\ CustomIs(r, t, k) /\ IdsAre(r, t, k)

\* Of two kinds of changes, the last of each, one change further.
LEMMA TwoLatest ==
  ASSUME NEW A, NEW B, NEW k \in Nat
  PROVE  LET a == LastUpto(A, k)
             b == LastUpto(B, k)
             c == LastUpto(A, k + 1)
             d == LastUpto(B, k + 1)
         IN  /\ k + 1 \in A => c = k + 1 /\ c > 0
             /\ k + 1 \notin A => c = a
             /\ k + 1 \in B => d = k + 1 /\ d # 0
             /\ k + 1 \notin B => d = b
             /\ k + 1 \in A /\ k + 1 \notin B => c > d
             /\ k + 1 \notin A /\ k + 1 \in B => ~(c > d)
  <1>. DEFINE a == LastUpto(A, k)
              b == LastUpto(B, k)
              c == LastUpto(A, k + 1)
              d == LastUpto(B, k + 1)
  <1>1. a \in 0 .. k /\ b \in 0 .. k
    BY LatestIn DEF LastUpto
  <1>2. c = (IF k + 1 \in A THEN k + 1 ELSE a) /\ d = (IF k + 1 \in B THEN k + 1 ELSE b)
    BY LatestStep DEF LastUpto
  <1>. HIDE DEF a, b, c, d
  <1>3. /\ k + 1 \in A => c = k + 1 /\ c > 0
        /\ k + 1 \notin A => c = a
        /\ k + 1 \in B => d = k + 1 /\ d # 0
        /\ k + 1 \notin B => d = b
        /\ k + 1 \in A /\ k + 1 \notin B => c > d
        /\ k + 1 \notin A /\ k + 1 \in B => ~(c > d)
    BY <1>1, <1>2
  <1> QED BY <1>3 DEF a, b, c, d

\* One change more.
LEMMA RegGoesOn ==
  ASSUME NEW t, NEW k \in Nat, k + 1 \in 1 .. Len(t), NEW r, RegIsAfter(r, t, k), NEW q, EffectIs(q, r, t[k + 1])
  PROVE  RegIsAfter(q, t, k + 1)
  <1>. DEFINE c == t[k + 1]
  <1>1. /\ \A l : k + 1 \in GivingColour(t, l) <=> Gives(c, l)
        /\ \A s : k + 1 \in Painting(t, s) <=> Repaints(c, s)
        /\ k + 1 \in Resetting(t) <=> c.op = "reset"
        /\ \A f : k + 1 \in Numbering(t, f) <=> c.op = "id" /\ c.field = f /\ c.colour # NoColour
    BY DEF GivingColour, Painting, Resetting, Numbering
  <1>2. \A l : Gives(c, l) => c.op # "reset" /\ ~Repaints(c, "default") /\ ~Repaints(c, "dark")
    BY DEF EffectIs
  <1>3. SlotsAre(q, t, k + 1)
    <2>. SUFFICES ASSUME NEW l \in InArray
                  PROVE  LET g == LastUpto(GivingColour(t, l), k + 1)
                             p == LastUpto(Painting(t, "default"), k + 1)
                         IN  q.slots[l] = IF l \in Standard
                                          THEN IF g > p THEN t[g].colour
                                               ELSE IF p = 0 THEN "default"
                                               ELSE IF t[p].op = "reset" THEN "default" ELSE t[p].scheme
                                          ELSE IF g > 0 THEN t[g].colour ELSE NoColour
      BY DEF SlotsAre
    <2>. DEFINE A == GivingColour(t, l)
                B == Painting(t, "default")
                g == LastUpto(A, k)
                p == LastUpto(B, k)
                g1 == LastUpto(A, k + 1)
                p1 == LastUpto(B, k + 1)
    <2>1. r.slots[l] = IF l \in Standard
                       THEN IF g > p THEN t[g].colour
                            ELSE IF p = 0 THEN "default"
                            ELSE IF t[p].op = "reset" THEN "default" ELSE t[p].scheme
                       ELSE IF g > 0 THEN t[g].colour ELSE NoColour
      BY DEF RegIsAfter, SlotsAre
    <2>2. q.slots[l] = IF Gives(c, l) THEN c.colour
                       ELSE IF l \in Standard /\ Repaints(c, "default")
                       THEN (IF c.op = "reset" THEN "default" ELSE c.scheme)
                       ELSE r.slots[l]
      BY DEF EffectIs
    <2>3. /\ k + 1 \in A <=> Gives(c, l)
          /\ k + 1 \in B <=> Repaints(c, "default")
      BY <1>1
    <2>4. Gives(c, l) => ~Repaints(c, "default")
      BY <1>2
    <2>5. /\ k + 1 \in A => g1 = k + 1 /\ g1 > 0
          /\ k + 1 \notin A => g1 = g
          /\ k + 1 \in B => p1 = k + 1 /\ p1 # 0
          /\ k + 1 \notin B => p1 = p
          /\ k + 1 \in A /\ k + 1 \notin B => g1 > p1
          /\ k + 1 \notin A /\ k + 1 \in B => ~(g1 > p1)
      BY TwoLatest
    <2>. HIDE DEF A, B, g, p, g1, p1
    <2>6. CASE Gives(c, l)
      BY <2>2, <2>3, <2>4, <2>5, <2>6 DEF A, B, g1, p1
    <2>7. CASE ~Gives(c, l) /\ Repaints(c, "default")
      <3>1. g1 = g /\ p1 = k + 1 /\ p1 # 0 /\ ~(g1 > p1)
        BY <2>3, <2>5, <2>7
      <3>2. CASE l \in Standard
        BY <2>2, <2>7, <3>1, <3>2 DEF A, B, g1, p1
      <3>3. CASE l \notin Standard
        <4>1. q.slots[l] = IF g1 > 0 THEN t[g1].colour ELSE NoColour
          BY <2>1, <2>2, <2>7, <3>1, <3>3
        <4> QED BY <3>3, <4>1 DEF A, B, g1, p1
      <3> QED BY <3>2, <3>3
    <2>8. CASE ~Gives(c, l) /\ ~Repaints(c, "default")
      <3>1. g1 = g /\ p1 = p /\ q.slots[l] = r.slots[l]
        BY <2>2, <2>3, <2>5, <2>8
      <3> QED BY <2>1, <3>1 DEF A, B, g1, p1
    <2> QED BY <2>6, <2>7, <2>8
  <1>4. Slots256Are(q, t, k + 1)
    <2>. SUFFICES ASSUME NEW l \in InArray
                  PROVE  LET g == LastUpto(GivingColour(t, l), k + 1)
                             p == LastUpto(Painting(t, "dark"), k + 1)
                         IN  q.slots256[l] = IF l \in Standard THEN IF g > p THEN t[g].colour ELSE "dark"
                                             ELSE IF g > 0 THEN t[g].colour ELSE NoColour
      BY DEF Slots256Are
    <2>. DEFINE A == GivingColour(t, l)
                B == Painting(t, "dark")
                g == LastUpto(A, k)
                p == LastUpto(B, k)
                g1 == LastUpto(A, k + 1)
                p1 == LastUpto(B, k + 1)
    <2>1. r.slots256[l] = IF l \in Standard THEN IF g > p THEN t[g].colour ELSE "dark"
                          ELSE IF g > 0 THEN t[g].colour ELSE NoColour
      BY DEF RegIsAfter, Slots256Are
    <2>2. q.slots256[l] = IF Gives(c, l) THEN c.colour
                          ELSE IF l \in Standard /\ Repaints(c, "dark") THEN "dark"
                          ELSE r.slots256[l]
      BY DEF EffectIs
    <2>3. /\ k + 1 \in A <=> Gives(c, l)
          /\ k + 1 \in B <=> Repaints(c, "dark")
      BY <1>1
    <2>4. Gives(c, l) => ~Repaints(c, "dark")
      BY <1>2
    <2>5. /\ k + 1 \in A => g1 = k + 1 /\ g1 > 0
          /\ k + 1 \notin A => g1 = g
          /\ k + 1 \in B => p1 = k + 1 /\ p1 # 0
          /\ k + 1 \notin B => p1 = p
          /\ k + 1 \in A /\ k + 1 \notin B => g1 > p1
          /\ k + 1 \notin A /\ k + 1 \in B => ~(g1 > p1)
      BY TwoLatest
    <2>. HIDE DEF A, B, g, p, g1, p1
    <2>6. CASE Gives(c, l)
      BY <2>2, <2>3, <2>4, <2>5, <2>6 DEF A, B, g1, p1
    <2>7. CASE ~Gives(c, l) /\ Repaints(c, "dark")
      <3>1. g1 = g /\ p1 = k + 1 /\ p1 # 0 /\ ~(g1 > p1)
        BY <2>3, <2>5, <2>7
      <3>2. CASE l \in Standard
        BY <2>2, <2>7, <3>1, <3>2 DEF A, B, g1, p1
      <3>3. CASE l \notin Standard
        <4>1. q.slots256[l] = IF g1 > 0 THEN t[g1].colour ELSE NoColour
          BY <2>1, <2>2, <2>7, <3>1, <3>3
        <4> QED BY <3>3, <4>1 DEF A, B, g1, p1
      <3> QED BY <3>2, <3>3
    <2>8. CASE ~Gives(c, l) /\ ~Repaints(c, "dark")
      <3>1. g1 = g /\ p1 = p /\ q.slots256[l] = r.slots256[l]
        BY <2>2, <2>3, <2>5, <2>8
      <3> QED BY <2>1, <3>1 DEF A, B, g1, p1
    <2> QED BY <2>6, <2>7, <2>8
  <1>5. CustomIs(q, t, k + 1)
    <2>. SUFFICES ASSUME NEW l \in ColourLevels, l >= 256
                  PROVE  LET g == LastUpto(GivingColour(t, l), k + 1)
                             p == LastUpto(Resetting(t), k + 1)
                         IN  q.custom[LevelKey(l)] = IF g > p THEN t[g].colour ELSE NoColour
      BY DEF CustomIs
    <2>. DEFINE A == GivingColour(t, l)
                B == Resetting(t)
                g == LastUpto(A, k)
                p == LastUpto(B, k)
                g1 == LastUpto(A, k + 1)
                p1 == LastUpto(B, k + 1)
                L == LevelKey(l)
    <2>1. r.custom[L] = IF g > p THEN t[g].colour ELSE NoColour
      BY DEF RegIsAfter, CustomIs
    <2>2. q.custom[L] = IF Gives(c, l) THEN c.colour ELSE IF c.op = "reset" THEN NoColour ELSE r.custom[L]
      BY DEF EffectIs
    <2>3. /\ k + 1 \in A <=> Gives(c, l)
          /\ k + 1 \in B <=> c.op = "reset"
      BY <1>1
    <2>4. Gives(c, l) => c.op # "reset"
      BY <1>2
    <2>5. /\ k + 1 \in A => g1 = k + 1 /\ g1 > 0
          /\ k + 1 \notin A => g1 = g
          /\ k + 1 \in B => p1 = k + 1 /\ p1 # 0
          /\ k + 1 \notin B => p1 = p
          /\ k + 1 \in A /\ k + 1 \notin B => g1 > p1
          /\ k + 1 \notin A /\ k + 1 \in B => ~(g1 > p1)
      BY TwoLatest
    <2>. HIDE DEF A, B, g, p, g1, p1, L
    <2>6. q.custom[L] = IF g1 > p1 THEN t[g1].colour ELSE NoColour
      <3>1. CASE Gives(c, l)
        BY <2>2, <2>3, <2>4, <2>5, <3>1
      <3>2. CASE ~Gives(c, l) /\ c.op = "reset"
        BY <2>2, <2>3, <2>5, <3>2
      <3>3. CASE ~Gives(c, l) /\ c.op # "reset"
        BY <2>1, <2>2, <2>3, <2>5, <3>3
      <3> QED BY <3>1, <3>2, <3>3
    <2> QED BY <2>6 DEF A, B, g1, p1, L
  <1>6. IdsAre(q, t, k + 1)
    <2>. SUFFICES ASSUME NEW f \in Fields
                  PROVE  LET g == LastUpto(Numbering(t, f), k + 1)
                         IN  q.byID[f] = IF g > 0 THEN t[g].colour ELSE NoColour
      BY DEF IdsAre
    <2>. DEFINE A == Numbering(t, f)
                g == LastUpto(A, k)
                g1 == LastUpto(A, k + 1)
    <2>1. r.byID[f] = IF g > 0 THEN t[g].colour ELSE NoColour
      BY DEF RegIsAfter, IdsAre
    <2>2. q.byID[f] = IF c.op = "id" /\ c.field = f /\ c.colour # NoColour THEN c.colour ELSE r.byID[f]
      BY DEF EffectIs
    <2>3. k + 1 \in A <=> c.op = "id" /\ c.field = f /\ c.colour # NoColour
      BY <1>1
    <2>5. /\ k + 1 \in A => g1 = k + 1 /\ g1 > 0
          /\ k + 1 \notin A => g1 = g
      BY TwoLatest
    <2>. HIDE DEF A, g, g1
    <2>6. q.byID[f] = IF g1 > 0 THEN t[g1].colour ELSE NoColour
      BY <2>1, <2>2, <2>3, <2>5
    <2> QED BY <2>6 DEF A, g1
  <1> QED BY <1>3, <1>4, <1>5, <1>6 DEF RegIsAfter


\* A registry, change by change.
LEMMA RegistryRuns ==
  ASSUME NEW r0 \in Regs, NEW s \in Seq(ChangeSet)
  PROVE  \E g : /\ g[0] = r0 /\ FoldLeft(Effect, r0, s) = g[Len(s)]
                /\ \A k \in 1 .. Len(s) : g[k] = Effect(g[k - 1], s[k])
  <1>. DEFINE n == Len(s)
              G == [p \in Regs \X (1 .. n) |-> Effect(p[1], s[p[2]])]
  <1>1. n \in Nat /\ DOMAIN s = 1 .. n /\ (\A i \in 1 .. n : s[i] \in ChangeSet) /\ r0 \in Regs
    OBVIOUS
  <1>2. G \in [Regs \X (1 .. n) -> Regs] /\ \A e \in Regs, i \in 1 .. n : G[<<e, i>>] = Effect(e, s[i])
      <2>1. \A r \in Regs, c \in ChangeSet : Effect(r, c) \in Regs
      BY EffectIsRight DEF EffectIs
    <2> QED BY <1>1, <2>1
  <1>. HIDE DEF n, G
  <1>3. PICK f : FoldUpto(f, Regs, G, r0, n)
    BY <1>1, <1>2, FoldExists
  <1>4. f = [t \in SUBSET (1 .. n) |-> IF t = {} THEN r0 ELSE Effect(f[t \ {Max(t)}], s[Max(t)])]
    <2>1. /\ f \in [SUBSET (1 .. n) -> Regs] /\ f[{}] = r0
          /\ \A t \in SUBSET (1 .. n) : t # {} =>
                Max(t) \in 1 .. n /\ f[t \ {Max(t)}] \in Regs /\ f[t] = G[<<f[t \ {Max(t)}], Max(t)>>]
      <3>1. FoldIs(f, Regs, G, r0, n)
        BY <1>1, <1>3, FoldValues
      <3> QED BY <3>1 DEF FoldIs
    <2>2. \A t \in SUBSET (1 .. n) : t # {} => f[t] = Effect(f[t \ {Max(t)}], s[Max(t)])
      BY <2>1, <1>2
    <2> QED BY <2>1, <2>2
  <1>. DEFINE iter == CHOOSE h : h = [t \in SUBSET (1 .. n) |-> IF t = {} THEN r0 ELSE Effect(h[t \ {Max(t)}], s[Max(t)])]
              g == [k \in 0 .. n |-> iter[1 .. k]]
  <1>5. iter = [t \in SUBSET (1 .. n) |-> IF t = {} THEN r0 ELSE Effect(iter[t \ {Max(t)}], s[Max(t)])]
    BY <1>4
  <1>6. FoldLeft(Effect, r0, s) = iter[1 .. n]
    BY <1>1 DEF FoldLeft, MapThenFoldSet
  <1>. HIDE DEF iter
  <1>7. g[0] = r0 /\ g[n] = FoldLeft(Effect, r0, s) /\ \A k \in 1 .. n : g[k] = Effect(g[k - 1], s[k])
    <2>1. /\ 1 .. 0 = {} /\ {} \in SUBSET (1 .. n) /\ 0 \in 0 .. n /\ n \in 0 .. n
          /\ \A k \in 1 .. n : /\ k \in 0 .. n /\ k - 1 \in 0 .. n /\ 1 .. k \in SUBSET (1 .. n) /\ 1 .. k # {}
                               /\ Max(1 .. k) = k /\ (1 .. k) \ {Max(1 .. k)} = 1 .. k - 1
      BY <1>1, FirstOnes
    <2>2. iter[{}] = r0 /\ \A k \in 1 .. n : iter[1 .. k] = Effect(iter[1 .. k - 1], s[k])
      BY <1>5, <2>1
    <2> QED BY <1>6, <2>1, <2>2
  <1> QED BY <1>7 DEF n

\* What a registry is after changes does not depend on those that follow.
LEMMA RegOfPrefix ==
  ASSUME NEW q, NEW t, NEW r, NEW k \in Nat, k <= Len(q), k <= Len(t), Len(q) \in Nat, Len(t) \in Nat,
         \A i \in 1 .. k : t[i] = q[i], RegIsAfter(r, q, k)
  PROVE  RegIsAfter(r, t, k)
  <1>1. ASSUME NEW A, NEW B, \A i \in 1 .. k : i \in A <=> i \in B
        PROVE  LastUpto(A, k) = LastUpto(B, k) /\ LastUpto(A, k) \in 0 .. k
    <2>1. A \intersect (1 .. k) = B \intersect (1 .. k)
      BY <1>1
    <2> QED BY <2>1, LatestIn DEF LastUpto
  <1>2. \A i \in 1 .. k : i \in 1 .. Len(q) /\ i \in 1 .. Len(t) /\ t[i] = q[i]
    OBVIOUS
  <1>3. /\ \A l, i : i \in 1 .. k => (i \in GivingColour(t, l) <=> i \in GivingColour(q, l))
        /\ \A s, i : i \in 1 .. k => (i \in Painting(t, s) <=> i \in Painting(q, s))
        /\ \A i \in 1 .. k : i \in Resetting(t) <=> i \in Resetting(q)
        /\ \A f, i : i \in 1 .. k => (i \in Numbering(t, f) <=> i \in Numbering(q, f))
    BY <1>2 DEF GivingColour, Painting, Resetting, Numbering
  <1>4. /\ \A l : LastUpto(GivingColour(t, l), k) = LastUpto(GivingColour(q, l), k)
                  /\ LastUpto(GivingColour(t, l), k) \in 0 .. k
        /\ \A s : LastUpto(Painting(t, s), k) = LastUpto(Painting(q, s), k) /\ LastUpto(Painting(t, s), k) \in 0 .. k
        /\ LastUpto(Resetting(t), k) = LastUpto(Resetting(q), k) /\ LastUpto(Resetting(t), k) \in 0 .. k
        /\ \A f : LastUpto(Numbering(t, f), k) = LastUpto(Numbering(q, f), k) /\ LastUpto(Numbering(t, f), k) \in 0 .. k
    BY <1>1, <1>3
  <1>5. \A g \in 0 .. k : g = 0 \/ t[g] = q[g]
    OBVIOUS
  <1>6. \A g, p \in 0 .. k : g > p => g # 0
    OBVIOUS
  <1>7. ~(0 > 0) /\ \A g \in 0 .. k : g > 0 => g # 0
    OBVIOUS
  <1>8. SlotsAre(r, t, k)
    <2>. SUFFICES ASSUME NEW l \in InArray
                  PROVE  LET g == LastUpto(GivingColour(t, l), k)
                             p == LastUpto(Painting(t, "default"), k)
                         IN  r.slots[l] = IF l \in Standard
                                          THEN IF g > p THEN t[g].colour
                                               ELSE IF p = 0 THEN "default"
                                               ELSE IF t[p].op = "reset" THEN "default" ELSE t[p].scheme
                                          ELSE IF g > 0 THEN t[g].colour ELSE NoColour
      BY DEF SlotsAre
    <2>. DEFINE g == LastUpto(GivingColour(t, l), k)
                p == LastUpto(Painting(t, "default"), k)
    <2>1. g = LastUpto(GivingColour(q, l), k) /\ p = LastUpto(Painting(q, "default"), k) /\ g \in 0 .. k /\ p \in 0 .. k
      BY <1>4
    <2>2. r.slots[l] = IF l \in Standard
                       THEN IF g > p THEN q[g].colour
                            ELSE IF p = 0 THEN "default"
                            ELSE IF q[p].op = "reset" THEN "default" ELSE q[p].scheme
                       ELSE IF g > 0 THEN q[g].colour ELSE NoColour
      <3>. HIDE DEF g, p
      <3> QED BY <2>1 DEF RegIsAfter, SlotsAre
    <2>. HIDE DEF g, p
    <2>3. /\ g > p => t[g] = q[g]
          /\ p # 0 => t[p] = q[p]
          /\ g > 0 => t[g] = q[g]
      BY <1>5, <1>6, <1>7, <2>1
    <2>4. r.slots[l] = IF l \in Standard
                       THEN IF g > p THEN t[g].colour
                            ELSE IF p = 0 THEN "default"
                            ELSE IF t[p].op = "reset" THEN "default" ELSE t[p].scheme
                       ELSE IF g > 0 THEN t[g].colour ELSE NoColour
      BY <2>2, <2>3
    <2> QED BY <2>4 DEF g, p
  <1>9. Slots256Are(r, t, k)
    <2>. SUFFICES ASSUME NEW l \in InArray
                  PROVE  LET g == LastUpto(GivingColour(t, l), k)
                             p == LastUpto(Painting(t, "dark"), k)
                         IN  r.slots256[l] = IF l \in Standard THEN IF g > p THEN t[g].colour ELSE "dark"
                                             ELSE IF g > 0 THEN t[g].colour ELSE NoColour
      BY DEF Slots256Are
    <2>. DEFINE g == LastUpto(GivingColour(t, l), k)
                p == LastUpto(Painting(t, "dark"), k)
    <2>1. g = LastUpto(GivingColour(q, l), k) /\ p = LastUpto(Painting(q, "dark"), k) /\ g \in 0 .. k /\ p \in 0 .. k
      BY <1>4
    <2>2. r.slots256[l] = IF l \in Standard THEN IF g > p THEN q[g].colour ELSE "dark"
                          ELSE IF g > 0 THEN q[g].colour ELSE NoColour
      <3>. HIDE DEF g, p
      <3> QED BY <2>1 DEF RegIsAfter, Slots256Are
    <2>. HIDE DEF g, p
    <2>3. /\ g > p => t[g] = q[g]
          /\ g > 0 => t[g] = q[g]
      BY <1>5, <1>6, <1>7, <2>1
    <2>4. r.slots256[l] = IF l \in Standard THEN IF g > p THEN t[g].colour ELSE "dark"
                          ELSE IF g > 0 THEN t[g].colour ELSE NoColour
      BY <2>2, <2>3
    <2> QED BY <2>4 DEF g, p
  <1>10. CustomIs(r, t, k)
    <2>. SUFFICES ASSUME NEW l \in ColourLevels, l >= 256
                  PROVE  LET g == LastUpto(GivingColour(t, l), k)
                             p == LastUpto(Resetting(t), k)
                         IN  r.custom[LevelKey(l)] = IF g > p THEN t[g].colour ELSE NoColour
      BY DEF CustomIs
    <2>. DEFINE g == LastUpto(GivingColour(t, l), k)
                p == LastUpto(Resetting(t), k)
    <2>1. g = LastUpto(GivingColour(q, l), k) /\ p = LastUpto(Resetting(q), k) /\ g \in 0 .. k /\ p \in 0 .. k
      BY <1>4
    <2>2. r.custom[LevelKey(l)] = IF g > p THEN q[g].colour ELSE NoColour
      <3>. HIDE DEF g, p
      <3> QED BY <2>1 DEF RegIsAfter, CustomIs
    <2>. HIDE DEF g, p
    <2>3. g > p => t[g] = q[g]
      BY <1>5, <1>6, <2>1
    <2>4. r.custom[LevelKey(l)] = IF g > p THEN t[g].colour ELSE NoColour
      BY <2>2, <2>3
    <2> QED BY <2>4 DEF g, p
  <1>11. IdsAre(r, t, k)
    <2>. SUFFICES ASSUME NEW f \in Fields
                  PROVE  LET g == LastUpto(Numbering(t, f), k)
                         IN  r.byID[f] = IF g > 0 THEN t[g].colour ELSE NoColour
      BY DEF IdsAre
    <2>. DEFINE g == LastUpto(Numbering(t, f), k)
    <2>1. g = LastUpto(Numbering(q, f), k) /\ g \in 0 .. k
      BY <1>4
    <2>2. r.byID[f] = IF g > 0 THEN q[g].colour ELSE NoColour
      <3>. HIDE DEF g
      <3> QED BY <2>1 DEF RegIsAfter, IdsAre
    <2>. HIDE DEF g
    <2>3. g > 0 => t[g] = q[g]
      BY <1>5, <1>7, <2>1
    <2>4. r.byID[f] = IF g > 0 THEN t[g].colour ELSE NoColour
      BY <2>2, <2>3
    <2> QED BY <2>4 DEF g
  <1> QED BY <1>8, <1>9, <1>10, <1>11 DEF RegIsAfter

ColoursInv ==
    /\ changes \in Seq(ChangeSet) /\ Registry \in Regs
    /\ RegIsAfter(Registry, changes, Len(changes))

\* A registry that changes are done to is what it was with them after the others.
LEMMA RegAfterMore ==
  ASSUME NEW r0 \in Regs, NEW q \in Seq(ChangeSet), RegIsAfter(r0, q, Len(q)), NEW s \in Seq(ChangeSet)
  PROVE  /\ FoldLeft(Effect, r0, s) \in Regs /\ q \o s \in Seq(ChangeSet)
         /\ RegIsAfter(FoldLeft(Effect, r0, s), q \o s, Len(q \o s))
  <1>. DEFINE t == q \o s
              n == Len(q)
              m == Len(s)
  <1>1. /\ t \in Seq(ChangeSet) /\ n \in Nat /\ m \in Nat /\ Len(t) = n + m
        /\ (\A i \in 1 .. n : t[i] = q[i]) /\ (\A i \in 1 .. m : t[n + i] = s[i])
    BY ConcatProperties
  <1>2. \A i \in 1 .. m : s[i] \in ChangeSet
    OBVIOUS
  <1>. HIDE DEF t, n, m
  <1>3. PICK g : g[0] = r0 /\ FoldLeft(Effect, r0, s) = g[m] /\ \A k \in 1 .. m : g[k] = Effect(g[k - 1], s[k])
    BY RegistryRuns DEF m
  <1>4. RegIsAfter(r0, t, n)
    <2>1. RegIsAfter(r0, q, n)
      BY DEF n
    <2>2. n <= Len(q) /\ Len(q) \in Nat /\ n <= Len(t) /\ Len(t) \in Nat
      BY <1>1 DEF n
    <2> QED BY <1>1, <2>1, <2>2, RegOfPrefix
  <1>. DEFINE N == {k \in Nat : k <= m => g[k] \in Regs /\ RegIsAfter(g[k], t, n + k)}
  <1>5. 0 \in N
    <2>1. n + 0 = n
      BY <1>1
    <2> QED BY <1>3, <1>4, <2>1
  <1>6. ASSUME NEW k \in Nat, k \in N PROVE k + 1 \in N
    <2>. SUFFICES ASSUME k + 1 <= m PROVE g[k + 1] \in Regs /\ RegIsAfter(g[k + 1], t, n + (k + 1))
      OBVIOUS
    <2>1. k + 1 \in 1 .. m /\ (k + 1) - 1 = k /\ k <= m /\ n + (k + 1) = (n + k) + 1 /\ n + k \in Nat
          /\ (n + k) + 1 \in 1 .. Len(t)
      BY <1>1
    <2>2. g[k] \in Regs /\ RegIsAfter(g[k], t, n + k)
      BY <1>6, <2>1
    <2>3. g[k + 1] = Effect(g[k], s[k + 1]) /\ t[(n + k) + 1] = s[k + 1] /\ s[k + 1] \in ChangeSet
      BY <1>1, <1>2, <1>3, <2>1
    <2>4. EffectIs(g[k + 1], g[k], t[(n + k) + 1])
      BY <2>2, <2>3, EffectIsRight
    <2>5. g[k + 1] \in Regs
      BY <2>4 DEF EffectIs
    <2>6. RegIsAfter(g[k + 1], t, (n + k) + 1)
      BY <2>1, <2>2, <2>4, RegGoesOn
    <2> QED BY <2>1, <2>5, <2>6
  <1>7. N = Nat
    <2>1. N \in SUBSET Nat
      OBVIOUS
    <2>. HIDE DEF N
    <2> QED BY <1>5, <1>6, <2>1, Ind
  <1>8. g[m] \in Regs /\ RegIsAfter(g[m], t, n + m)
    <2>1. m \in Nat /\ m <= m
      BY <1>1
    <2>2. m \in N
      <3>. HIDE DEF N
      <3> QED BY <1>7, <2>1
    <2> QED BY <2>1, <2>2
  <1> QED BY <1>1, <1>3, <1>8 DEF t

LEMMA DoKeeps == ASSUME ColoursInv, NEW s \in Seq(ChangeSet), Do(s) PROVE ColoursInv'
  <1>. DEFINE r == FoldLeft(Effect, Registry, s)
  <1>1. /\ r \in Regs /\ changes \o s \in Seq(ChangeSet)
        /\ RegIsAfter(r, changes \o s, Len(changes \o s))
    BY RegAfterMore DEF ColoursInv
  <1>2. /\ changes' = changes \o s
        /\ slots' = r.slots /\ slots256' = r.slots256 /\ custom' = r.custom /\ byID' = r.byID
        /\ scheme' = r.scheme /\ enabled' = r.enabled
    BY DEF Do
  <1>. HIDE DEF r
  <1>3. Reg(r.slots, r.slots256, r.custom, r.byID, r.scheme, r.enabled) = r
    BY <1>1, RegIs
  <1>4. Registry' = r
    BY <1>2, <1>3 DEF Registry
  <1> QED BY <1>1, <1>2, <1>4 DEF ColoursInv, RegIsAfter, SlotsAre, Slots256Are, CustomIs, IdsAre

\* What there is to do is one change, or those a configuration asks for.
LEMMA OneChange == ASSUME NEW c \in ChangeSet PROVE <<c>> \in Seq(ChangeSet)
  OBVIOUS

LEMMA ConfigChanges ==
  ASSUME NEW cfg \in ColourConfigs, NEW order \in SetToSeqs({x \in cfg.custom : x.level \in Standard})
  PROVE  (IF cfg.enabled = Unset THEN <<>> ELSE <<[op |-> "switch", on |-> cfg.enabled = "true"]>>)
          \o (IF cfg.scheme = Unset THEN <<>> ELSE <<[op |-> "scheme", scheme |-> cfg.scheme]>>)
          \o [i \in DOMAIN order |-> ColourSet(order[i].level, order[i].colour)] \in Seq(ChangeSet)
  <1>. DEFINE S == {x \in cfg.custom : x.level \in Standard}
              a == IF cfg.enabled = Unset THEN <<>> ELSE <<[op |-> "switch", on |-> cfg.enabled = "true"]>>
              b == IF cfg.scheme = Unset THEN <<>> ELSE <<[op |-> "scheme", scheme |-> cfg.scheme]>>
              d == [i \in DOMAIN order |-> ColourSet(order[i].level, order[i].colour)]
  <1>1. IsFiniteSet(S) /\ \A x \in S : x.level \in ColourLevels /\ x.colour \in Ansi
    <2>1. IsFiniteSet(cfg.custom) /\ \A x \in cfg.custom : x.level \in ColourLevels /\ x.colour \in Ansi
      BY ColoursAssumption
    <2> QED BY <2>1, FS_Subset
  <1>2. Cardinality(S) \in Nat
    BY <1>1, FS_CardinalityType
  <1>3. order \in [1 .. Cardinality(S) -> S]
    BY DEF SetToSeqs
  <1>. HIDE DEF S
  <1>4. DOMAIN order = 1 .. Cardinality(S) /\ \A i \in DOMAIN order : ColourSet(order[i].level, order[i].colour) \in ChangeSet
    <2>1. DOMAIN order = 1 .. Cardinality(S) /\ \A i \in DOMAIN order : order[i].level \in ColourLevels /\ order[i].colour \in Ansi
      BY <1>1, <1>3
    <2>2. \A l \in ColourLevels, x \in Ansi : ColourSet(l, x) \in ChangeSet
      <3>1. ASSUME NEW l \in ColourLevels, NEW x \in Ansi PROVE ColourSet(l, x) \in ChangeSet
        <4>1. <<l, x>> \in ColourLevels \X Ansi /\ <<l, x>>[1] = l /\ <<l, x>>[2] = x
          OBVIOUS
        <4>2. ColourSet(l, x) \in {ColourSet(lx[1], lx[2]) : lx \in ColourLevels \X Ansi}
          BY <4>1
        <4> QED BY <4>2 DEF ChangeSet
      <3> QED BY <3>1
    <2> QED BY <2>1, <2>2
  <1>5. d \in Seq(ChangeSet)
    <2>1. ASSUME NEW n \in Nat, NEW f, \A i \in 1 .. n : f[i] \in ChangeSet PROVE [i \in 1 .. n |-> f[i]] \in Seq(ChangeSet)
      BY <2>1
    <2>. DEFINE f == d
    <2>2. d = [i \in 1 .. Cardinality(S) |-> d[i]] /\ \A i \in 1 .. Cardinality(S) : d[i] \in ChangeSet
      BY <1>4
    <2>. HIDE DEF d
    <2> QED BY <1>2, <2>1, <2>2
  <1>6. a \in Seq(ChangeSet)
    <2>1. \A e \in BOOLEAN : [op |-> "switch", on |-> e] \in ChangeSet
      BY DEF ChangeSet
    <2>. DEFINE e == cfg.enabled = "true"
    <2>2. e \in BOOLEAN
      OBVIOUS
    <2>. HIDE DEF e
    <2>3. <<[op |-> "switch", on |-> e]>> \in Seq(ChangeSet)
      BY <2>1, <2>2, OneChange
    <2>4. (IF cfg.enabled = Unset THEN <<>> ELSE <<[op |-> "switch", on |-> e]>>) \in Seq(ChangeSet)
      BY <2>3
    <2> QED BY <2>4 DEF e
  <1>7. b \in Seq(ChangeSet)
    <2>1. cfg.scheme # Unset => [op |-> "scheme", scheme |-> cfg.scheme] \in ChangeSet
      BY ColoursAssumption DEF ChangeSet
    <2>2. cfg.scheme # Unset => <<[op |-> "scheme", scheme |-> cfg.scheme]>> \in Seq(ChangeSet)
      BY <2>1, OneChange
    <2> QED BY <2>2
  <1>. HIDE DEF a, b, d
  <1>8. a \o b \in Seq(ChangeSet)
    BY <1>6, <1>7, ConcatProperties
  <1>9. (a \o b) \o d \in Seq(ChangeSet)
    BY <1>5, <1>8, ConcatProperties
  <1> QED BY <1>9 DEF a, b, d

LEMMA ColoursKeep == ColoursInv /\ ColoursNext => ColoursInv'
  <1>. SUFFICES ASSUME ColoursInv, ColoursNext PROVE ColoursInv'
    OBVIOUS
  <1>1. ASSUME NEW l \in ColourLevels, NEW x \in Ansi, Do(<<ColourSet(l, x)>>) PROVE ColoursInv'
    <2>1. <<l, x>> \in ColourLevels \X Ansi /\ <<l, x>>[1] = l /\ <<l, x>>[2] = x
      OBVIOUS
    <2>2. ColourSet(l, x) \in {ColourSet(lx[1], lx[2]) : lx \in ColourLevels \X Ansi}
      BY <2>1
    <2>3. ColourSet(l, x) \in ChangeSet
      BY <2>2 DEF ChangeSet
    <2>4. <<ColourSet(l, x)>> \in Seq(ChangeSet)
      BY <2>3, OneChange
    <2> QED BY <1>1, <2>4, DoKeeps
  <1>2. ASSUME NEW s \in Schemes, Do(<<[op |-> "scheme", scheme |-> s]>>) PROVE ColoursInv'
    <2>1. [op |-> "scheme", scheme |-> s] \in ChangeSet
      BY DEF ChangeSet
    <2>2. <<[op |-> "scheme", scheme |-> s]>> \in Seq(ChangeSet)
      BY <2>1, OneChange
    <2> QED BY <1>2, <2>2, DoKeeps
  <1>3. ASSUME NEW b \in BOOLEAN, Do(<<[op |-> "switch", on |-> b]>>) PROVE ColoursInv'
    <2>1. [op |-> "switch", on |-> b] \in ChangeSet
      BY DEF ChangeSet
    <2>2. <<[op |-> "switch", on |-> b]>> \in Seq(ChangeSet)
      BY <2>1, OneChange
    <2> QED BY <1>3, <2>2, DoKeeps
  <1>4. ASSUME Do(<<[op |-> "reset"]>>) PROVE ColoursInv'
    <2>1. [op |-> "reset"] \in ChangeSet
      BY DEF ChangeSet
    <2>2. <<[op |-> "reset"]>> \in Seq(ChangeSet)
      BY <2>1, OneChange
    <2> QED BY <1>4, <2>2, DoKeeps
  <1>5. ASSUME NEW cfg \in ColourConfigs, NEW order \in SetToSeqs({x \in cfg.custom : x.level \in Standard}),
               Do((IF cfg.enabled = Unset THEN <<>> ELSE <<[op |-> "switch", on |-> cfg.enabled = "true"]>>)
                  \o (IF cfg.scheme = Unset THEN <<>> ELSE <<[op |-> "scheme", scheme |-> cfg.scheme]>>)
                  \o [i \in DOMAIN order |-> ColourSet(order[i].level, order[i].colour)])
        PROVE  ColoursInv'
    <2>. DEFINE s == (IF cfg.enabled = Unset THEN <<>> ELSE <<[op |-> "switch", on |-> cfg.enabled = "true"]>>)
                     \o (IF cfg.scheme = Unset THEN <<>> ELSE <<[op |-> "scheme", scheme |-> cfg.scheme]>>)
                     \o [i \in DOMAIN order |-> ColourSet(order[i].level, order[i].colour)]
    <2>1. s \in Seq(ChangeSet)
      BY ConfigChanges
    <2>2. Do(s)
      BY <1>5
    <2>. HIDE DEF s
    <2> QED BY <2>1, <2>2, DoKeeps
  <1>6. ASSUME NEW f \in Fields, NEW x \in Ansi \union {NoColour}, NEW by \in {"field", "id"},
               Do(<<[op |-> by, field |-> f, colour |-> x]>>)
        PROVE  ColoursInv'
    <2>1. [op |-> by, field |-> f, colour |-> x] \in ChangeSet
      <3>1. /\ <<f, x, by>> \in Fields \X (Ansi \union {NoColour}) \X {"field", "id"}
            /\ <<f, x, by>>[1] = f /\ <<f, x, by>>[2] = x /\ <<f, x, by>>[3] = by
        OBVIOUS
      <3>2. [op |-> by, field |-> f, colour |-> x] \in
               {[op |-> fxb[3], field |-> fxb[1], colour |-> fxb[2]] : fxb \in Fields \X (Ansi \union {NoColour}) \X {"field", "id"}}
        BY <3>1
      <3> QED BY <3>2 DEF ChangeSet
    <2>2. <<[op |-> by, field |-> f, colour |-> x]>> \in Seq(ChangeSet)
      BY <2>1, OneChange
    <2> QED BY <1>6, <2>2, DoKeeps
  <1>7. CASE SetColor
    BY <1>1, <1>7 DEF SetColor
  <1>8. CASE SetColorScheme
    BY <1>2, <1>8 DEF SetColorScheme
  <1>9. CASE Switch
    BY <1>3, <1>9 DEF Switch
  <1>10. CASE ResetColours
    BY <1>4, <1>10 DEF ResetColours
  <1>11. CASE ConfigureColors
    BY <1>5, <1>11 DEF ConfigureColors
  <1>12. CASE RegisterFieldColours
    BY <1>6, <1>12 DEF RegisterFieldColours
  <1> QED BY <1>7, <1>8, <1>9, <1>10, <1>11, <1>12 DEF ColoursNext

LEMMA ColoursStart == ColoursInit => ColoursInv
  <1>. SUFFICES ASSUME ColoursInit PROVE ColoursInv
    OBVIOUS
  <1>. DEFINE z == [l \in InArray |-> NoColour]
  <1>1. /\ slots = Painted(z, "default") /\ slots256 = Painted(z, "dark")
        /\ custom = [k \in TextKeys |-> NoColour] /\ byID = [f \in Fields |-> NoColour]
        /\ scheme = "default" /\ enabled = TRUE /\ changes = <<>>
    BY DEF ColoursInit
  <1>2. z \in [InArray -> Palette] /\ NoColour \in Palette /\ "default" \in Schemes /\ "dark" \in Schemes
        /\ \A l \in InArray : z[l] = NoColour
    BY DEF Palette, Schemes
  <1>. HIDE DEF z
  <1>3. slots \in [InArray -> Palette] /\ \A l \in InArray : slots[l] = IF l \in Standard THEN "default" ELSE NoColour
    BY <1>1, <1>2, PaintedIs
  <1>4. slots256 \in [InArray -> Palette] /\ \A l \in InArray : slots256[l] = IF l \in Standard THEN "dark" ELSE NoColour
    BY <1>1, <1>2, PaintedIs
  <1>5. custom \in [TextKeys -> Palette] /\ \A k \in TextKeys : custom[k] = NoColour
    BY <1>1, <1>2
  <1>6. byID \in [Fields -> Palette] /\ \A f \in Fields : byID[f] = NoColour
    BY <1>1, <1>2
  <1>7. scheme \in Schemes
    BY <1>1, <1>2
  <1>8. enabled \in BOOLEAN
    BY <1>1
  <1>9. Registry \in Regs
    BY <1>3, <1>4, <1>5, <1>6, <1>7, <1>8, RegIn DEF Registry
  <1>10. Registry.slots = slots /\ Registry.slots256 = slots256 /\ Registry.custom = custom /\ Registry.byID = byID
    BY RegFields DEF Registry
  <1>11. changes \in Seq(ChangeSet) /\ Len(changes) = 0
    BY <1>1
  <1>12. \A W : LastUpto(W, 0) = 0
    BY LatestNone DEF LastUpto
  <1>13. ~(0 > 0)
    OBVIOUS
  <1>14. SlotsAre(Registry, changes, 0)
    BY <1>3, <1>10, <1>12, <1>13 DEF SlotsAre
  <1>15. Slots256Are(Registry, changes, 0)
    BY <1>4, <1>10, <1>12, <1>13 DEF Slots256Are
  <1>16. CustomIs(Registry, changes, 0)
    BY <1>5, <1>10, <1>12, <1>13, ArrayIs DEF CustomIs
  <1>17. IdsAre(Registry, changes, 0)
    BY <1>6, <1>10, <1>12, <1>13 DEF IdsAre
  <1> QED BY <1>9, <1>11, <1>14, <1>15, <1>16, <1>17 DEF ColoursInv, RegIsAfter

\* What GetColor says is what the changes say.
LEMMA ColoursMean == ColoursInv => ColoursAsConfigured
  <1>. SUFFICES ASSUME ColoursInv PROVE ColoursAsConfigured
    OBVIOUS
  <1>. DEFINE t == changes
              n == Len(changes)
  <1>1. t \in Seq(ChangeSet) /\ n \in Nat /\ DOMAIN t = 1 .. n
    BY DEF ColoursInv
  <1>2. Registry.slots = slots /\ Registry.slots256 = slots256 /\ Registry.custom = custom /\ Registry.byID = byID
    BY RegFields DEF Registry
  <1>3. /\ \A l : Latest({i \in DOMAIN changes : Gives(changes[i], l)}) = LastUpto(GivingColour(t, l), n)
        /\ \A s : Latest({i \in DOMAIN changes : Repaints(changes[i], s)}) = LastUpto(Painting(t, s), n)
        /\ Latest({i \in DOMAIN changes : changes[i].op = "reset"}) = LastUpto(Resetting(t), n)
        /\ \A f : Latest({i \in DOMAIN changes :
                            changes[i].op = "id" /\ changes[i].field = f /\ changes[i].colour # NoColour})
                    = LastUpto(Numbering(t, f), n)
    <2>1. ASSUME NEW W, W \subseteq 1 .. n PROVE Latest(W) = LastUpto(W, n)
      <3>1. W = W \intersect (1 .. n)
        BY <2>1
      <3> QED BY <3>1 DEF LastUpto
    <2>2. \A l : {i \in DOMAIN changes : Gives(changes[i], l)} = GivingColour(t, l) /\ GivingColour(t, l) \subseteq 1 .. n
      BY <1>1 DEF GivingColour
    <2>3. \A s : {i \in DOMAIN changes : Repaints(changes[i], s)} = Painting(t, s) /\ Painting(t, s) \subseteq 1 .. n
      BY <1>1 DEF Painting
    <2>4. {i \in DOMAIN changes : changes[i].op = "reset"} = Resetting(t) /\ Resetting(t) \subseteq 1 .. n
      BY <1>1 DEF Resetting
    <2>5. \A f : /\ {i \in DOMAIN changes : changes[i].op = "id" /\ changes[i].field = f /\ changes[i].colour # NoColour}
                      = Numbering(t, f)
                 /\ Numbering(t, f) \subseteq 1 .. n
      BY <1>1 DEF Numbering
    <2> QED BY <2>1, <2>2, <2>3, <2>4, <2>5
  <1>. HIDE DEF t, n
  <1>4. RegIsAfter(Registry, t, n)
    BY DEF ColoursInv, t, n
  <1>5. scheme # "dark" => Painting(t, scheme) = Painting(t, "default")
    BY DEF Painting, Repaints
  <1>6. ASSUME NEW f \in Fields
        PROVE  byID[f] = IF LastUpto(Numbering(t, f), n) > 0 THEN t[LastUpto(Numbering(t, f), n)].colour ELSE NoColour
    BY <1>2, <1>4 DEF RegIsAfter, IdsAre
  <1>7. ASSUME NEW l \in ColourLevels, enabled
        PROVE  LET g == LastUpto(GivingColour(t, l), n)
                   p == LastUpto(Painting(t, scheme), n)
                   z == LastUpto(Resetting(t), n)
               IN  Colour(l) =
                     CASE l \in Standard ->
                            IF g > p THEN t[g].colour
                            ELSE IF scheme = "dark" THEN "dark"
                            ELSE IF p = 0 \/ t[p].op = "reset" THEN "default"
                            ELSE t[p].scheme
                       [] l \notin Standard /\ l < 256 -> IF g > 0 THEN t[g].colour ELSE NoColour
                       [] l >= 256 -> IF g > z THEN t[g].colour ELSE NoColour
    <2>. DEFINE g == LastUpto(GivingColour(t, l), n)
                p == LastUpto(Painting(t, scheme), n)
                z == LastUpto(Resetting(t), n)
    <2>1. CASE l < 256
      <3>1. l \in InArray /\ ~(l >= 256)
        BY <2>1, ArrayIs
      <3>2. Colour(l) = IF scheme = "dark" THEN slots256[l] ELSE slots[l]
        BY <1>7, <2>1, <3>1 DEF Colour
      <3>3. CASE scheme = "dark"
        <4>1. slots256[l] = IF l \in Standard THEN IF g > p THEN t[g].colour ELSE "dark"
                            ELSE IF g > 0 THEN t[g].colour ELSE NoColour
          BY <1>2, <1>4, <3>1, <3>3 DEF RegIsAfter, Slots256Are
        <4>. HIDE DEF g, p, z
        <4>2. CASE l \in Standard
          BY <2>1, <3>1, <3>2, <3>3, <4>1, <4>2 DEF g, p, z
        <4>3. CASE l \notin Standard
          BY <2>1, <3>1, <3>2, <3>3, <4>1, <4>3 DEF g, p, z
        <4> QED BY <4>2, <4>3
      <3>4. CASE scheme # "dark"
        <4>0. p = LastUpto(Painting(t, "default"), n)
          BY <1>5, <3>4
        <4>1. slots[l] = IF l \in Standard
                         THEN IF g > p THEN t[g].colour
                              ELSE IF p = 0 THEN "default"
                              ELSE IF t[p].op = "reset" THEN "default" ELSE t[p].scheme
                         ELSE IF g > 0 THEN t[g].colour ELSE NoColour
          <5>. HIDE DEF p
          <5> QED BY <1>2, <1>4, <3>1, <4>0 DEF RegIsAfter, SlotsAre
        <4>. HIDE DEF g, p, z
        <4>2. CASE l \in Standard
          BY <2>1, <3>1, <3>2, <3>4, <4>1, <4>2 DEF g, p, z
        <4>3. CASE l \notin Standard
          BY <2>1, <3>1, <3>2, <3>4, <4>1, <4>3 DEF g, p, z
        <4> QED BY <4>2, <4>3
      <3> QED BY <3>3, <3>4
    <2>2. CASE ~(l < 256)
      <3>1. l >= 256 /\ l \notin Standard
        BY <2>2, ArrayIs
      <3>2. Colour(l) = custom[LevelKey(l)]
        BY <1>7, <2>2, <3>1 DEF Colour
      <3>3. custom[LevelKey(l)] = IF g > z THEN t[g].colour ELSE NoColour
        BY <1>2, <1>4, <3>1 DEF RegIsAfter, CustomIs
      <3> QED BY <2>2, <3>1, <3>2, <3>3
    <2> QED BY <2>1, <2>2
  <1>8. \A l \in ColourLevels : enabled =>
          LET set == Latest({i \in DOMAIN changes : Gives(changes[i], l)})
              taken == Latest({i \in DOMAIN changes : Repaints(changes[i], scheme)})
              reset == Latest({i \in DOMAIN changes : changes[i].op = "reset"})
          IN  Colour(l) =
                 CASE l \in Standard ->
                        IF set > taken THEN changes[set].colour
                        ELSE IF scheme = "dark" THEN "dark"
                        ELSE IF taken = 0 \/ changes[taken].op = "reset" THEN "default"
                        ELSE changes[taken].scheme
                   [] l \notin Standard /\ l < 256 -> IF set > 0 THEN changes[set].colour ELSE NoColour
                   [] l >= 256 -> IF set > reset THEN changes[set].colour ELSE NoColour
    <2>1. ASSUME NEW l \in ColourLevels, enabled, NEW g, NEW p, NEW z,
                 g = LastUpto(GivingColour(t, l), n), p = LastUpto(Painting(t, scheme), n), z = LastUpto(Resetting(t), n)
          PROVE  Colour(l) =
                     CASE l \in Standard ->
                            IF g > p THEN changes[g].colour
                            ELSE IF scheme = "dark" THEN "dark"
                            ELSE IF p = 0 \/ changes[p].op = "reset" THEN "default"
                            ELSE changes[p].scheme
                       [] l \notin Standard /\ l < 256 -> IF g > 0 THEN changes[g].colour ELSE NoColour
                       [] l >= 256 -> IF g > z THEN changes[g].colour ELSE NoColour
      BY <1>7, <2>1 DEF t
    <2> QED BY <1>3, <2>1
  <1>9. \A f \in Fields :
          LET g == Latest({i \in DOMAIN changes :
                              changes[i].op = "id" /\ changes[i].field = f /\ changes[i].colour # NoColour})
          IN  byID[f] = IF g > 0 THEN changes[g].colour ELSE NoColour
    BY <1>3, <1>6 DEF t
  <1> QED BY <1>8, <1>9 DEF ColoursAsConfigured

LEMMA ColoursUnchanged == ColoursInv /\ UNCHANGED colourVars => ColoursInv'
  <1>. SUFFICES ASSUME ColoursInv, UNCHANGED colourVars PROVE ColoursInv'
    OBVIOUS
  <1>1. /\ slots' = slots /\ slots256' = slots256 /\ custom' = custom /\ byID' = byID
        /\ scheme' = scheme /\ changes' = changes
    BY DEF colourVars
  <1>2. enabled' = enabled
    BY DEF colourVars
  <1>3. Registry' = Registry
    BY <1>1, <1>2 DEF Registry
  <1> QED BY <1>1, <1>3 DEF ColoursInv, RegIsAfter, SlotsAre, Slots256Are, CustomIs, IdsAre

-----------------------------------------------------------------------------
(* slog handlers (slogbridge/).                                               *)

\* What FlattenSeq goes through, one sequence after the other.
FlatGoes(g, X, s) ==
    /\ g \in [0 .. Len(s) -> Seq(X)] /\ g[0] = <<>>
    /\ \A k \in 1 .. Len(s) : g[k] = g[k - 1] \o s[k]
    /\ FlattenSeq(s) = g[Len(s)]

HasRun(X, s, k) ==
    \E h \in [0 .. k -> Seq(X)] : h[0] = <<>> /\ \A i \in 1 .. k : h[i] = h[i - 1] \o s[i]

LEMMA FlattenRuns == ASSUME NEW X, NEW s \in Seq(Seq(X)) PROVE \E g : FlatGoes(g, X, s)
  <1>. DEFINE n == Len(s)
  <1>1. n \in Nat /\ DOMAIN s = 1 .. n /\ \A i \in 1 .. n : s[i] \in Seq(X)
    OBVIOUS
  <1>2. <<>> \in Seq(X) /\ \A a, b \in Seq(X) : a \o b \in Seq(X) /\ <<>> \o a = a
    <2>1. \A a, b \in Seq(X) : a \o b \in Seq(X)
      BY ConcatProperties
    <2>2. \A a \in Seq(X) : <<>> \o a = a
      OBVIOUS
    <2> QED BY <2>1, <2>2
  <1>3. CASE n = 0
    <2>1. FlattenSeq(s) = s /\ s = <<>>
      BY <1>1, <1>3 DEF FlattenSeq
    <2>. DEFINE g == [k \in 0 .. n |-> <<>>]
    <2>2. g \in [0 .. n -> Seq(X)] /\ g[0] = <<>> /\ FlattenSeq(s) = g[n] /\ \A k \in 1 .. n : FALSE
      BY <1>2, <1>3, <2>1
    <2>3. FlatGoes(g, X, s)
      <3>. HIDE DEF g
      <3> QED BY <2>2 DEF FlatGoes
    <2> QED BY <2>3
  <1>4. CASE n # 0
    <2>. HIDE DEF n
    <2>. DEFINE N == {k \in Nat : k <= n => HasRun(X, s, k)}
    <2>1. 0 \in N
      <3>. DEFINE h == [k \in 0 .. 0 |-> <<>>]
      <3>1. h \in [0 .. 0 -> Seq(X)] /\ h[0] = <<>> /\ \A i \in 1 .. 0 : FALSE
        BY <1>2
      <3>. HIDE DEF h
      <3>2. HasRun(X, s, 0)
        BY <3>1 DEF HasRun
      <3> QED BY <3>2
    <2>2. ASSUME NEW k \in Nat, k \in N PROVE k + 1 \in N
      <3>. SUFFICES ASSUME k + 1 <= n PROVE HasRun(X, s, k + 1)
        OBVIOUS
      <3>1. /\ k <= n /\ k + 1 \in 1 .. n /\ (k + 1) - 1 = k /\ 0 \in 0 .. k /\ k \in 0 .. k /\ k + 1 \notin 0 .. k
            /\ \A i \in 0 .. k + 1 : i \in 0 .. k \/ i = k + 1
            /\ \A i \in 1 .. k + 1 : i = k + 1 \/ (i \in 1 .. k /\ i \in 0 .. k /\ i - 1 \in 0 .. k)
            /\ \A i \in 0 .. k : i \in 0 .. k + 1
            /\ k + 1 \in 0 .. k + 1 /\ \A i \in 1 .. k + 1 : i \in 0 .. k + 1 /\ i - 1 \in 0 .. k + 1
        BY <1>1
      <3>2. PICK h \in [0 .. k -> Seq(X)] : h[0] = <<>> /\ \A i \in 1 .. k : h[i] = h[i - 1] \o s[i]
        BY <2>2, <3>1 DEF HasRun
      <3>. DEFINE j == [i \in 0 .. k + 1 |-> IF i \in 0 .. k THEN h[i] ELSE h[k] \o s[k + 1]]
      <3>3. h[k] \o s[k + 1] \in Seq(X)
        BY <1>1, <1>2, <3>1, <3>2
      <3>4. j \in [0 .. k + 1 -> Seq(X)]
        BY <3>1, <3>2, <3>3
      <3>5. j[k + 1] = h[k] \o s[k + 1] /\ \A i \in 0 .. k : j[i] = h[i]
        BY <3>1
      <3>. HIDE DEF j
      <3>6. j[0] = <<>> /\ \A i \in 1 .. k + 1 : j[i] = j[i - 1] \o s[i]
        <4>1. j[k + 1] = j[(k + 1) - 1] \o s[k + 1]
          BY <3>1, <3>5
        <4>2. \A i \in 1 .. k : i \in 0 .. k /\ i - 1 \in 0 .. k
          BY <3>1
        <4>3. \A i \in 1 .. k : j[i] = j[i - 1] \o s[i]
          BY <3>2, <3>5, <4>2
        <4>4. j[0] = <<>>
          BY <3>1, <3>2, <3>5
        <4> QED BY <3>1, <4>1, <4>3, <4>4
      <3> QED BY <3>4, <3>6 DEF HasRun
    <2>3. N = Nat
      <3>1. N \in SUBSET Nat
        OBVIOUS
      <3>. HIDE DEF N
      <3> QED BY <2>1, <2>2, <3>1, Ind
    <2>4. PICK h \in [0 .. n -> Seq(X)] : h[0] = <<>> /\ \A i \in 1 .. n : h[i] = h[i - 1] \o s[i]
      <3>1. n \in N /\ n <= n
        <4>1. n \in Nat /\ n <= n
          BY <1>1
        <4>. HIDE DEF N
        <4> QED BY <2>3, <4>1
      <3>2. HasRun(X, s, n)
        BY <3>1
      <3> QED BY <3>2 DEF HasRun
    <2>5. /\ \A i \in 1 .. n : i \in 0 .. n /\ i - 1 \in 0 .. n /\ (i # 1 => i - 1 \in 1 .. n)
          /\ 1 \in 1 .. n /\ n \in 1 .. n /\ 0 \in 0 .. n /\ n \in 0 .. n /\ 1 - 1 = 0
          /\ \A i \in 0 .. n : i = 0 \/ i \in 1 .. n
          /\ 0 \notin 1 .. n
      BY <1>1, <1>4
    <2>. DEFINE f == [i \in 1 .. n |-> h[i]]
    <2>6. f = [i \in 1 .. n |-> IF i = 1 THEN s[i] ELSE f[i - 1] \o s[i]]
      <3>1. \A i \in 1 .. n : f[i] = h[i]
        OBVIOUS
      <3>2. ASSUME NEW i \in 1 .. n PROVE h[i] = IF i = 1 THEN s[i] ELSE h[i - 1] \o s[i]
        <4>1. CASE i = 1
          <5>1. h[i] = <<>> \o s[i]
            BY <2>4, <2>5, <4>1
          <5> QED BY <1>1, <1>2, <4>1, <5>1
        <4>2. CASE i # 1
          BY <2>4, <4>2
        <4> QED BY <4>1, <4>2
      <3>3. \A i \in 1 .. n : f[i] = IF i = 1 THEN s[i] ELSE f[i - 1] \o s[i]
        BY <2>5, <3>1, <3>2
      <3> QED BY <3>3
    <2>. HIDE DEF f
    <2>. DEFINE c == CHOOSE e : e = [i \in 1 .. n |-> IF i = 1 THEN s[i] ELSE e[i - 1] \o s[i]]
    <2>7. c = [i \in 1 .. n |-> IF i = 1 THEN s[i] ELSE c[i - 1] \o s[i]]
      BY <2>6
    <2>8. FlattenSeq(s) = c[n]
      BY <1>4 DEF FlattenSeq, n
    <2>. HIDE DEF c
    <2>. DEFINE g == [k \in 0 .. n |-> IF k = 0 THEN <<>> ELSE c[k]]
    <2>9. g[0] = <<>> /\ \A k \in 1 .. n : g[k] = c[k]
      BY <2>5
    <2>10. \A k \in 1 .. n : g[k] = g[k - 1] \o s[k]
      <3>1. ASSUME NEW k \in 1 .. n PROVE g[k] = g[k - 1] \o s[k]
        <4>1. CASE k = 1
          <5>1. c[k] = s[k]
            BY <2>7, <4>1
          <5>2. g[k - 1] = <<>>
            BY <2>5, <2>9, <4>1
          <5> QED BY <1>1, <1>2, <2>9, <5>1, <5>2
        <4>2. CASE k # 1
          <5>1. c[k] = c[k - 1] \o s[k]
            BY <2>7, <4>2
          <5>2. g[k - 1] = c[k - 1]
            BY <2>5, <2>9, <4>2
          <5> QED BY <2>9, <5>1, <5>2
        <4> QED BY <4>1, <4>2
      <3> QED BY <3>1
    <2>11. g \in [0 .. n -> Seq(X)]
      <3>1. DOMAIN g = 0 .. n /\ g = [k \in 0 .. n |-> g[k]]
        OBVIOUS
      <3>. HIDE DEF g
      <3>. DEFINE M == {k \in Nat : k <= n => g[k] \in Seq(X)}
      <3>2. 0 \in M
        BY <1>2, <2>9
      <3>3. ASSUME NEW k \in Nat, k \in M PROVE k + 1 \in M
        <4>. SUFFICES ASSUME k + 1 <= n PROVE g[k + 1] \in Seq(X)
          OBVIOUS
        <4>1. k <= n /\ k + 1 \in 1 .. n /\ (k + 1) - 1 = k
          BY <1>1
        <4>2. g[k] \in Seq(X)
          BY <3>3, <4>1
        <4>. DEFINE j == k + 1
        <4>3. g[j] = g[j - 1] \o s[j] /\ s[j] \in Seq(X) /\ j - 1 = k
          BY <1>1, <1>2, <2>10, <4>1
        <4>. HIDE DEF j
        <4>4. g[j] \in Seq(X)
          BY <4>2, <4>3
        <4> QED BY <4>4 DEF j
      <3>4. M = Nat
        <4>1. M \in SUBSET Nat
          OBVIOUS
        <4>. HIDE DEF M
        <4> QED BY <3>2, <3>3, <4>1, Ind
      <3>5. \A k \in 0 .. n : k \in Nat /\ k <= n
        BY <1>1
      <3>6. \A k \in 0 .. n : g[k] \in Seq(X)
        BY <3>4, <3>5
      <3> QED BY <3>1, <3>6
    <2>12. g[n] = FlattenSeq(s)
      BY <2>5, <2>8, <2>9
    <2>13. FlatGoes(g, X, s)
      <3>. HIDE DEF g
      <3> QED BY <2>9, <2>10, <2>11, <2>12 DEF FlatGoes, n
    <2> QED BY <2>13
  <1> QED BY <1>3, <1>4

\* Two runs agree as long as their sequences do.
LEMMA FlattenAgree ==
  ASSUME NEW X, NEW s, NEW t, NEW g, NEW h, FlatGoes(g, X, s), FlatGoes(h, X, t), Len(s) \in Nat, Len(t) \in Nat,
         NEW n \in Nat, n <= Len(s), n <= Len(t), \A i \in 1 .. n : s[i] = t[i]
  PROVE  g[n] = h[n]
  <1>. DEFINE N == {k \in Nat : k <= n => g[k] = h[k]}
  <1>1. 0 \in N
    BY DEF FlatGoes
  <1>2. ASSUME NEW k \in Nat, k \in N PROVE k + 1 \in N
    <2>. SUFFICES ASSUME k + 1 <= n PROVE g[k + 1] = h[k + 1]
      OBVIOUS
    <2>1. k <= n /\ k + 1 \in 1 .. n /\ (k + 1) - 1 = k /\ k + 1 \in 1 .. Len(s) /\ k + 1 \in 1 .. Len(t)
      OBVIOUS
    <2>2. g[k + 1] = g[k] \o s[k + 1] /\ h[k + 1] = h[k] \o t[k + 1]
      BY <2>1 DEF FlatGoes
    <2> QED BY <1>2, <2>1, <2>2
  <1>3. N = Nat
    <2>1. N \in SUBSET Nat
      OBVIOUS
    <2>. HIDE DEF N
    <2> QED BY <1>1, <1>2, <2>1, Ind
  <1>4. n \in N /\ n <= n
    <2>. HIDE DEF N
    <2> QED BY <1>3
  <1> QED BY <1>4

\* FlattenSeq is of the elements' elements, and one more sequence is appended.
LEMMA FlattenIn == ASSUME NEW X, NEW n \in Nat, NEW F \in [1 .. n -> Seq(X)] PROVE FlattenSeq(F) \in Seq(X)
  <1>1. F \in Seq(Seq(X)) /\ Len(F) = n
    OBVIOUS
  <1>2. PICK g : FlatGoes(g, X, F)
    BY <1>1, FlattenRuns
  <1>3. n \in 0 .. n
    OBVIOUS
  <1> QED BY <1>1, <1>2, <1>3 DEF FlatGoes

LEMMA FlattenNone == ASSUME NEW F, DOMAIN F = 1 .. 0 PROVE FlattenSeq([i \in 1 .. 0 |-> F[i]]) = <<>>
  <1>1. [i \in 1 .. 0 |-> F[i]] = <<>>
    OBVIOUS
  <1> QED BY <1>1 DEF FlattenSeq

LEMMA FlattenMore ==
  ASSUME NEW X, NEW n \in Nat, NEW F \in [1 .. n + 1 -> Seq(X)]
  PROVE  FlattenSeq(F) = FlattenSeq([i \in 1 .. n |-> F[i]]) \o F[n + 1]
  <1>. DEFINE P == [i \in 1 .. n |-> F[i]]
  <1>1. n + 1 \in Nat /\ n + 1 \in 1 .. n + 1 /\ (n + 1) - 1 = n /\ n <= n + 1 /\ \A i \in 1 .. n : i \in 1 .. n + 1
    OBVIOUS
  <1>2. P \in [1 .. n -> Seq(X)] /\ \A i \in 1 .. n : P[i] = F[i]
    BY <1>1
  <1>. HIDE DEF P
  <1>3. F \in Seq(Seq(X)) /\ Len(F) = n + 1 /\ P \in Seq(Seq(X)) /\ Len(P) = n
    BY <1>1, <1>2
  <1>4. PICK g : FlatGoes(g, X, F)
    BY <1>3, FlattenRuns
  <1>5. PICK h : FlatGoes(h, X, P)
    BY <1>3, FlattenRuns
  <1>6. g[n] = h[n]
    <2>1. Len(F) \in Nat /\ Len(P) \in Nat /\ n <= Len(F) /\ n <= Len(P) /\ \A i \in 1 .. n : F[i] = P[i]
      BY <1>1, <1>2, <1>3
    <2> QED BY <1>4, <1>5, <2>1, FlattenAgree
  <1>7. FlattenSeq(F) = g[n] \o F[n + 1] /\ FlattenSeq(P) = h[n]
    BY <1>1, <1>3, <1>4, <1>5 DEF FlatGoes
  <1> QED BY <1>6, <1>7 DEF P

-----------------------------------------------------------------------------
\* Names, values, fields, derivations and handlers.
NameSet == GroupNames \union {a.key : a \in Attrs}
SVals == {a.val : a \in Attrs}
SFields == [key : Seq(NameSet), val : SVals]
Derivs == {[attr |-> a] : a \in Attrs} \union {[group |-> g] : g \in GroupNames}
BoundSet == [prefix : Seq(NameSet), attr : Attrs]
HandlerSet == [prefix : Seq(NameSet), bound : Seq(BoundSet)]

ValuesOf(fs) == [i \in DOMAIN fs |-> fs[i].val]
Grouped(a) == a # EmptyAttr /\ "group" \in DOMAIN a

LEMMA ConcatIs ==
  ASSUME NEW S, NEW a \in Seq(S), NEW b \in Seq(S)
  PROVE  /\ a \o b \in Seq(S) /\ Len(a \o b) = Len(a) + Len(b)
         /\ (\A i \in 1 .. Len(a) : (a \o b)[i] = a[i]) /\ (\A i \in 1 .. Len(b) : (a \o b)[Len(a) + i] = b[i])
  BY ConcatProperties

LEMMA ValuesOfConcat ==
  ASSUME NEW a \in Seq(SFields), NEW b \in Seq(SFields)
  PROVE  ValuesOf(a \o b) = ValuesOf(a) \o ValuesOf(b) /\ ValuesOf(a) \in Seq(SVals)
  <1>. DEFINE c == a \o b
              u == ValuesOf(a)
              v == ValuesOf(b)
  <1>1. /\ c \in Seq(SFields) /\ Len(c) = Len(a) + Len(b)
        /\ (\A i \in 1 .. Len(a) : c[i] = a[i]) /\ (\A i \in 1 .. Len(b) : c[Len(a) + i] = b[i])
    BY ConcatProperties
  <1>2. \A f \in SFields : f.val \in SVals
    BY DEF SFields
  <1>3. /\ u \in Seq(SVals) /\ Len(u) = Len(a) /\ \A i \in 1 .. Len(a) : u[i] = a[i].val
    BY <1>2 DEF ValuesOf
  <1>4. /\ v \in Seq(SVals) /\ Len(v) = Len(b) /\ \A i \in 1 .. Len(b) : v[i] = b[i].val
    BY <1>2 DEF ValuesOf
  <1>. HIDE DEF c
  <1>5. ValuesOf(c) \in Seq(SVals) /\ Len(ValuesOf(c)) = Len(c) /\ \A i \in 1 .. Len(c) : ValuesOf(c)[i] = c[i].val
    BY <1>1, <1>2 DEF ValuesOf
  <1>. HIDE DEF u, v
  <1>6. /\ u \o v \in Seq(SVals) /\ Len(u \o v) = Len(u) + Len(v)
        /\ (\A i \in 1 .. Len(u) : (u \o v)[i] = u[i]) /\ (\A i \in 1 .. Len(v) : (u \o v)[Len(u) + i] = v[i])
    <2>1. u \in Seq(SVals) /\ v \in Seq(SVals)
      BY <1>3, <1>4
    <2> QED BY <2>1, ConcatIs
  <1>7. ASSUME NEW i \in 1 .. Len(c) PROVE ValuesOf(c)[i] = (u \o v)[i]
    <2>1. CASE i \in 1 .. Len(a)
      <3>1. ValuesOf(c)[i] = c[i].val /\ c[i] = a[i]
        BY <1>1, <1>5, <2>1
      <3>2. (u \o v)[i] = u[i] /\ u[i] = a[i].val
        BY <1>3, <1>6, <2>1
      <3> QED BY <3>1, <3>2
    <2>2. CASE i \notin 1 .. Len(a)
      <3>1. i - Len(a) \in 1 .. Len(b) /\ Len(a) + (i - Len(a)) = i
        BY <1>1, <2>2
      <3>2. c[i] = b[i - Len(a)]
        BY <1>1, <3>1
      <3>3. (u \o v)[i] = v[i - Len(a)]
        BY <1>3, <1>4, <1>6, <3>1
      <3> QED BY <1>4, <1>5, <3>1, <3>2, <3>3
    <2> QED BY <2>1, <2>2
  <1>8. ValuesOf(c) = u \o v
    <2>. DEFINE x == ValuesOf(c)
                y == u \o v
    <2>1. x \in Seq(SVals) /\ y \in Seq(SVals) /\ Len(x) = Len(y) /\ \A i \in 1 .. Len(x) : x[i] = y[i]
      BY <1>1, <1>3, <1>4, <1>5, <1>6, <1>7
    <2>. HIDE DEF x, y
    <2>2. x = y
      BY <2>1, SeqEqual
    <2> QED BY <2>2 DEF x, y
  <1> QED BY <1>3, <1>8 DEF c, u, v

LEMMA ValuesOfFlat ==
  ASSUME NEW n \in Nat, NEW F \in [1 .. n -> Seq(SFields)]
  PROVE  ValuesOf(FlattenSeq(F)) = FlattenSeq([i \in 1 .. n |-> ValuesOf(F[i])])
  <1>. DEFINE V == [i \in 1 .. n |-> ValuesOf(F[i])]
  <1>1. \A i \in 1 .. n : F[i] \in Seq(SFields) /\ ValuesOf(F[i]) \in Seq(SVals)
    BY ValuesOfConcat
  <1>2. V \in [1 .. n -> Seq(SVals)] /\ \A i \in 1 .. n : V[i] = ValuesOf(F[i])
    BY <1>1
  <1>. HIDE DEF V
  <1>3. F \in Seq(Seq(SFields)) /\ Len(F) = n /\ V \in Seq(Seq(SVals)) /\ Len(V) = n
    BY <1>2
  <1>4. PICK g : FlatGoes(g, SFields, F)
    BY <1>3, FlattenRuns
  <1>5. PICK h : FlatGoes(h, SVals, V)
    BY <1>3, FlattenRuns
  <1>. DEFINE N == {k \in Nat : k <= n => ValuesOf(g[k]) = h[k]}
  <1>6. 0 \in N
    <2>1. ValuesOf(<<>>) = <<>>
      BY DEF ValuesOf
    <2> QED BY <1>4, <1>5, <2>1 DEF FlatGoes
  <1>7. ASSUME NEW k \in Nat, k \in N PROVE k + 1 \in N
    <2>. SUFFICES ASSUME k + 1 <= n PROVE ValuesOf(g[k + 1]) = h[k + 1]
      OBVIOUS
    <2>1. k <= n /\ k + 1 \in 1 .. n /\ (k + 1) - 1 = k /\ k \in 0 .. n
      OBVIOUS
    <2>2. g[k + 1] = g[k] \o F[k + 1] /\ h[k + 1] = h[k] \o V[k + 1] /\ g[k] \in Seq(SFields)
      BY <1>3, <1>4, <1>5, <2>1 DEF FlatGoes
    <2>3. F[k + 1] \in Seq(SFields) /\ V[k + 1] = ValuesOf(F[k + 1])
      BY <1>1, <1>2, <2>1
    <2>4. ValuesOf(g[k] \o F[k + 1]) = ValuesOf(g[k]) \o ValuesOf(F[k + 1])
      BY <2>2, <2>3, ValuesOfConcat
    <2> QED BY <1>7, <2>1, <2>2, <2>3, <2>4
  <1>8. N = Nat
    <2>1. N \in SUBSET Nat
      OBVIOUS
    <2>. HIDE DEF N
    <2> QED BY <1>6, <1>7, <2>1, Ind
  <1>9. n \in N /\ n <= n
    <2>. HIDE DEF N
    <2> QED BY <1>8
  <1>10. ValuesOf(g[n]) = h[n] /\ FlattenSeq(F) = g[n] /\ FlattenSeq(V) = h[n]
    BY <1>3, <1>4, <1>5, <1>9 DEF FlatGoes
  <1> QED BY <1>10 DEF V

LEMMA UnderIn ==
  ASSUME NEW p \in Seq(NameSet), NEW fs \in Seq(SFields)
  PROVE  Under(p, fs) \in Seq(SFields) /\ ValuesOf(Under(p, fs)) = ValuesOf(fs)
  <1>1. \A f \in SFields : f.key \in Seq(NameSet) /\ f.val \in SVals
    BY DEF SFields
  <1>2. \A q \in Seq(NameSet) : p \o q \in Seq(NameSet)
    BY ConcatProperties
  <1>3. \A k \in Seq(NameSet), v \in SVals : [key |-> k, val |-> v] \in SFields /\ [key |-> k, val |-> v].val = v
    BY DEF SFields
  <1>4. DOMAIN fs = 1 .. Len(fs) /\ \A i \in DOMAIN fs : fs[i] \in SFields
    OBVIOUS
  <1>5. \A i \in DOMAIN fs : /\ [key |-> p \o fs[i].key, val |-> fs[i].val] \in SFields
                             /\ [key |-> p \o fs[i].key, val |-> fs[i].val].val = fs[i].val
    BY <1>1, <1>2, <1>3, <1>4
  <1>6. Under(p, fs) \in Seq(SFields)
    BY <1>4, <1>5 DEF Under
  <1>7. DOMAIN Under(p, fs) = DOMAIN fs /\ \A i \in DOMAIN fs : Under(p, fs)[i].val = fs[i].val
    BY <1>5 DEF Under
  <1> QED BY <1>6, <1>7 DEF ValuesOf


\* What an attribute's depth in groups is induced over.
DepthOf(depth) ==
    /\ depth \in [Attrs -> 0 .. MaxNesting]
    /\ \A a \in Attrs : "group" \in DOMAIN a => \A i \in DOMAIN a.group : depth[a.group[i]] < depth[a]

LEMMA DepthExists == \E depth : DepthOf(depth)
  BY AttrsAssumption DEF DepthOf

\* A group's attributes are attributes, less deep.
LEMMA InGroup ==
  ASSUME NEW depth, DepthOf(depth), NEW a \in Attrs, "group" \in DOMAIN a
  PROVE  /\ a.group \in Seq(Attrs) /\ DOMAIN a.group = 1 .. Len(a.group) /\ Len(a.group) \in Nat
         /\ \A i \in DOMAIN a.group : a.group[i] \in Attrs /\ depth[a.group[i]] < depth[a] /\ depth[a.group[i]] \in Nat
         /\ depth[a] \in Nat /\ depth[a] <= MaxNesting
  <1>1. a.group \in Seq(Attrs)
    BY AttrsAssumption
  <1>2. DOMAIN a.group = 1 .. Len(a.group) /\ Len(a.group) \in Nat /\ \A i \in DOMAIN a.group : a.group[i] \in Attrs
    BY <1>1
  <1>3. MaxNesting \in Nat /\ depth \in [Attrs -> 0 .. MaxNesting]
    BY AttrsAssumption DEF DepthOf
  <1>4. \A b \in Attrs : depth[b] \in Nat /\ depth[b] <= MaxNesting
    BY <1>3
  <1>5. \A i \in DOMAIN a.group : depth[a.group[i]] < depth[a]
    BY DEF DepthOf
  <1> QED BY <1>1, <1>2, <1>4, <1>5

\* An attribute's recursion: what B says of one that is no group, what G says of a
\* group and of what is said of its attributes.
AttrValue(F, B, G, a) == IF Grouped(a) THEN G[<<a, [i \in DOMAIN a.group |-> F[a.group[i]]]>>] ELSE B[a]
Recursed(F, S, D, B, G) == F \in [S -> D] /\ \A a \in S : F[a] = AttrValue(F, B, G, a)
HasRecursion(depth, k, D, B, G) == \E F : Recursed(F, {a \in Attrs : depth[a] < k}, D, B, G)

LEMMA AttrStep ==
  ASSUME NEW depth, DepthOf(depth), NEW D, NEW B \in [Attrs -> D], NEW G \in [Attrs \X Seq(D) -> D],
         NEW k \in Nat, HasRecursion(depth, k, D, B, G)
  PROVE  HasRecursion(depth, k + 1, D, B, G)
  <1>. DEFINE S == {a \in Attrs : depth[a] < k}
              T == {a \in Attrs : depth[a] < k + 1}
  <1>1. PICK F : Recursed(F, S, D, B, G)
    BY DEF HasRecursion
  <1>2. F \in [S -> D] /\ \A a \in S : F[a] = AttrValue(F, B, G, a)
    BY <1>1 DEF Recursed
  <1>3. ASSUME NEW a \in T, Grouped(a)
        PROVE  /\ DOMAIN a.group = 1 .. Len(a.group) /\ Len(a.group) \in Nat
               /\ \A i \in DOMAIN a.group : a.group[i] \in S
    <2>1. a \in Attrs /\ "group" \in DOMAIN a /\ depth[a] < k + 1
      BY <1>3 DEF Grouped
    <2>2. /\ DOMAIN a.group = 1 .. Len(a.group) /\ Len(a.group) \in Nat /\ depth[a] \in Nat
          /\ \A i \in DOMAIN a.group : a.group[i] \in Attrs /\ depth[a.group[i]] < depth[a] /\ depth[a.group[i]] \in Nat
      BY <2>1, InGroup
    <2>3. \A i \in DOMAIN a.group : depth[a.group[i]] < k
      <3>1. ASSUME NEW x \in Nat, NEW y \in Nat, x < y, y < k + 1 PROVE x < k
        BY <3>1
      <3> QED BY <2>1, <2>2, <3>1
    <2> QED BY <2>2, <2>3
  <1>4. \A a \in S : a \in T
    <2>1. \A b \in Attrs : depth[b] \in Nat
      BY AttrsAssumption DEF DepthOf
    <2>2. ASSUME NEW x \in Nat, x < k PROVE x < k + 1
      BY <2>2
    <2> QED BY <2>1, <2>2
  <1>5. \A a \in T : a \in Attrs
    OBVIOUS
  <1>. HIDE DEF S, T
  <1>6. ASSUME NEW a \in T PROVE AttrValue(F, B, G, a) \in D
    <2>1. CASE Grouped(a)
      <3>. DEFINE q == [i \in DOMAIN a.group |-> F[a.group[i]]]
      <3>1. DOMAIN a.group = 1 .. Len(a.group) /\ Len(a.group) \in Nat /\ \A i \in DOMAIN a.group : F[a.group[i]] \in D
        BY <1>2, <1>3, <2>1
      <3>2. q \in Seq(D)
        BY <3>1
      <3>. HIDE DEF q
      <3>3. G[<<a, q>>] \in D
        BY <1>5, <3>2
      <3>4. AttrValue(F, B, G, a) = G[<<a, q>>]
        BY <2>1 DEF AttrValue, q
      <3> QED BY <3>3, <3>4
    <2>2. CASE ~Grouped(a)
      BY <1>5, <2>2 DEF AttrValue
    <2> QED BY <2>1, <2>2
  <1>. DEFINE H == [a \in T |-> AttrValue(F, B, G, a)]
  <1>7. H \in [T -> D] /\ \A a \in T : H[a] = AttrValue(F, B, G, a)
    BY <1>6
  <1>. HIDE DEF H
  <1>8. \A a \in S : H[a] = F[a]
    BY <1>2, <1>4, <1>7
  <1>9. ASSUME NEW a \in T PROVE AttrValue(H, B, G, a) = AttrValue(F, B, G, a)
    <2>1. CASE Grouped(a)
      <3>1. [i \in DOMAIN a.group |-> H[a.group[i]]] = [i \in DOMAIN a.group |-> F[a.group[i]]]
        BY <1>3, <1>8, <2>1
      <3> QED BY <2>1, <3>1 DEF AttrValue
    <2>2. CASE ~Grouped(a)
      BY <2>2 DEF AttrValue
    <2> QED BY <2>1, <2>2
  <1>10. Recursed(H, T, D, B, G)
    BY <1>7, <1>9 DEF Recursed
  <1> QED BY <1>10 DEF HasRecursion, T

LEMMA AttrRecursion ==
  ASSUME NEW D, NEW B \in [Attrs -> D], NEW G \in [Attrs \X Seq(D) -> D]
  PROVE  \E F : Recursed(F, Attrs, D, B, G)
  <1>1. PICK depth : DepthOf(depth)
    BY DepthExists
  <1>2. MaxNesting \in Nat /\ depth \in [Attrs -> 0 .. MaxNesting]
    BY <1>1, AttrsAssumption DEF DepthOf
  <1>. DEFINE N == {k \in Nat : HasRecursion(depth, k, D, B, G)}
  <1>3. 0 \in N
    <2>1. {a \in Attrs : depth[a] < 0} = {}
      BY <1>2
    <2>. DEFINE F == [a \in {} |-> D]
    <2>2. F \in [{} -> D]
      OBVIOUS
    <2>3. Recursed(F, {}, D, B, G)
      BY <2>2 DEF Recursed
    <2>4. HasRecursion(depth, 0, D, B, G)
      BY <2>1, <2>3 DEF HasRecursion
    <2> QED BY <2>4
  <1>4. ASSUME NEW k \in Nat, k \in N PROVE k + 1 \in N
    <2>1. HasRecursion(depth, k, D, B, G)
      BY <1>4
    <2>2. HasRecursion(depth, k + 1, D, B, G)
      <3>. HIDE DEF N
      <3> QED BY <1>1, <2>1, AttrStep
    <2> QED BY <2>2
  <1>5. N = Nat
    <2>1. N \in SUBSET Nat
      OBVIOUS
    <2>. HIDE DEF N
    <2> QED BY <1>3, <1>4, <2>1, Ind
  <1>6. HasRecursion(depth, MaxNesting + 1, D, B, G)
    <2>1. MaxNesting + 1 \in Nat
      BY <1>2
    <2>2. MaxNesting + 1 \in N
      <3>. HIDE DEF N
      <3> QED BY <1>5, <2>1
    <2> QED BY <2>2
  <1>7. {a \in Attrs : depth[a] < MaxNesting + 1} = Attrs
    <2>1. \A a \in Attrs : depth[a] \in 0 .. MaxNesting
      BY <1>2
    <2>2. \A x \in 0 .. MaxNesting : x < MaxNesting + 1
      BY <1>2
    <2> QED BY <2>1, <2>2
  <1> QED BY <1>6, <1>7 DEF HasRecursion

\* Induction over the groups in groups.
LEMMA DepthInduction ==
  ASSUME NEW S, \A a \in Attrs : (Grouped(a) => \A i \in DOMAIN a.group : a.group[i] \in S) => a \in S
  PROVE  \A a \in Attrs : a \in S
  <1>1. PICK depth : DepthOf(depth)
    BY DepthExists
  <1>2. MaxNesting \in Nat /\ depth \in [Attrs -> 0 .. MaxNesting]
    BY <1>1, AttrsAssumption DEF DepthOf
  <1>. DEFINE N == {k \in Nat : \A a \in Attrs : depth[a] < k => a \in S}
  <1>3. 0 \in N
    <2>1. \A a \in Attrs : ~(depth[a] < 0)
      BY <1>2
    <2> QED BY <2>1
  <1>4. ASSUME NEW k \in Nat, k \in N PROVE k + 1 \in N
    <2>1. \A a \in Attrs : depth[a] < k => a \in S
      BY <1>4
    <2>2. ASSUME NEW a \in Attrs, depth[a] < k + 1, Grouped(a) PROVE \A i \in DOMAIN a.group : a.group[i] \in S
      <3>1. /\ depth[a] \in Nat
            /\ \A i \in DOMAIN a.group : a.group[i] \in Attrs /\ depth[a.group[i]] < depth[a] /\ depth[a.group[i]] \in Nat
        BY <1>1, <2>2, InGroup DEF Grouped
      <3>2. ASSUME NEW x \in Nat, NEW y \in Nat, x < y, y < k + 1 PROVE x < k
        BY <3>2
      <3>3. \A i \in DOMAIN a.group : depth[a.group[i]] < k
        BY <2>2, <3>1, <3>2
      <3> QED BY <2>1, <3>1, <3>3
    <2> QED BY <2>2
  <1>5. N = Nat
    <2>1. N \in SUBSET Nat
      OBVIOUS
    <2>. HIDE DEF N
    <2> QED BY <1>3, <1>4, <2>1, Ind
  <1>6. MaxNesting + 1 \in Nat /\ \A a \in Attrs : depth[a] < MaxNesting + 1
    <2>1. \A a \in Attrs : depth[a] \in 0 .. MaxNesting
      BY <1>2
    <2>2. \A x \in 0 .. MaxNesting : x < MaxNesting + 1
      BY <1>2
    <2> QED BY <1>2, <2>1, <2>2
  <1> QED BY <1>5, <1>6

\* Flattened and Leaves are what their recursions say.
KeyPrefix(a) == IF a.key = "" THEN <<>> ELSE <<a.key>>

LEMMA KeysIn ==
  ASSUME NEW a \in Attrs
  PROVE  /\ KeyPrefix(a) \in Seq(NameSet)
         /\ <<[key |-> <<a.key>>, val |-> a.val]>> \in Seq(SFields) /\ <<a.val>> \in Seq(SVals)
         /\ ValuesOf(<<[key |-> <<a.key>>, val |-> a.val]>>) = <<a.val>>
  <1>1. a.key \in NameSet /\ a.val \in SVals
    BY DEF NameSet, SVals
  <1>2. ASSUME NEW X, NEW x \in X PROVE <<x>> \in Seq(X) /\ <<>> \in Seq(X)
    OBVIOUS
  <1>3. <<a.key>> \in Seq(NameSet) /\ <<>> \in Seq(NameSet) /\ <<a.val>> \in Seq(SVals)
    BY <1>1, <1>2
  <1>4. KeyPrefix(a) \in Seq(NameSet)
    BY <1>3 DEF KeyPrefix
  <1>. DEFINE f == [key |-> <<a.key>>, val |-> a.val]
  <1>5. f \in SFields /\ f.val = a.val
    BY <1>1, <1>3 DEF SFields
  <1>. HIDE DEF f
  <1>6. <<f>> \in Seq(SFields)
    BY <1>2, <1>5
  <1>7. ValuesOf(<<f>>) = <<f.val>>
    <2>1. ASSUME NEW x PROVE [i \in DOMAIN <<x>> |-> <<x>>[i].val] = <<x.val>>
      OBVIOUS
    <2> QED BY <2>1 DEF ValuesOf
  <1> QED BY <1>3, <1>4, <1>5, <1>6, <1>7 DEF f

LEMMA FlattenedIs ==
  /\ Flattened \in [Attrs -> Seq(SFields)]
  /\ \A a \in Attrs : Flattened[a] =
        IF a = EmptyAttr THEN <<>>
        ELSE IF "group" \in DOMAIN a THEN Under(KeyPrefix(a), FlattenSeq([i \in DOMAIN a.group |-> Flattened[a.group[i]]]))
        ELSE <<[key |-> <<a.key>>, val |-> a.val]>>
  <1>. DEFINE D == Seq(SFields)
              B == [a \in Attrs |-> IF a = EmptyAttr THEN <<>> ELSE <<[key |-> <<a.key>>, val |-> a.val]>>]
              G == [p \in Attrs \X Seq(D) |-> Under(KeyPrefix(p[1]), FlattenSeq(p[2]))]
  <1>1. B \in [Attrs -> D] /\ \A a \in Attrs : B[a] = IF a = EmptyAttr THEN <<>> ELSE <<[key |-> <<a.key>>, val |-> a.val]>>
    <2>1. ASSUME NEW a \in Attrs PROVE (IF a = EmptyAttr THEN <<>> ELSE <<[key |-> <<a.key>>, val |-> a.val]>>) \in Seq(SFields)
      <3>1. <<[key |-> <<a.key>>, val |-> a.val]>> \in Seq(SFields)
        BY KeysIn
      <3>2. <<>> \in Seq(SFields)
        OBVIOUS
      <3> QED BY <3>1, <3>2
    <2> QED BY <2>1
  <1>2. \A a \in Attrs, q \in Seq(D) : Under(KeyPrefix(a), FlattenSeq(q)) \in D
    <2>1. ASSUME NEW a \in Attrs, NEW q \in Seq(D) PROVE Under(KeyPrefix(a), FlattenSeq(q)) \in D
      <3>1. q \in [1 .. Len(q) -> Seq(SFields)] /\ Len(q) \in Nat
        OBVIOUS
      <3>2. FlattenSeq(q) \in Seq(SFields)
        BY <3>1, FlattenIn
      <3> QED BY <3>2, KeysIn, UnderIn
    <2> QED BY <2>1
  <1>3. G \in [Attrs \X Seq(D) -> D] /\ \A a \in Attrs, q \in Seq(D) : G[<<a, q>>] = Under(KeyPrefix(a), FlattenSeq(q))
    BY <1>2
  <1>. HIDE DEF D, B, G
  <1>4. PICK F : Recursed(F, Attrs, D, B, G)
    BY <1>1, <1>3, AttrRecursion
  <1>5. F \in [Attrs -> D] /\ \A a \in Attrs : F[a] = AttrValue(F, B, G, a)
    BY <1>4 DEF Recursed
  <1>6. ASSUME NEW a \in Attrs
        PROVE  F[a] = IF a = EmptyAttr THEN <<>>
                      ELSE IF "group" \in DOMAIN a
                      THEN Under(IF a.key = "" THEN <<>> ELSE <<a.key>>, FlattenSeq([i \in DOMAIN a.group |-> F[a.group[i]]]))
                      ELSE <<[key |-> <<a.key>>, val |-> a.val]>>
    <2>. DEFINE q == [i \in DOMAIN a.group |-> F[a.group[i]]]
    <2>1. CASE a # EmptyAttr /\ "group" \in DOMAIN a
      <3>1. PICK depth : DepthOf(depth)
        BY DepthExists
      <3>2. DOMAIN a.group = 1 .. Len(a.group) /\ Len(a.group) \in Nat /\ \A i \in DOMAIN a.group : a.group[i] \in Attrs
        BY <2>1, <3>1, InGroup
      <3>3. q \in Seq(D)
        BY <1>5, <3>2
      <3>4. F[a] = G[<<a, q>>]
        BY <1>5, <2>1 DEF AttrValue, Grouped
      <3>. HIDE DEF q
      <3>5. F[a] = Under(KeyPrefix(a), FlattenSeq(q))
        BY <1>3, <3>3, <3>4
      <3> QED BY <2>1, <3>5 DEF q, KeyPrefix
    <2>2. CASE a = EmptyAttr \/ "group" \notin DOMAIN a
      BY <1>1, <1>5, <2>2 DEF AttrValue, Grouped
    <2> QED BY <2>1, <2>2
  <1>7. F = [a \in Attrs |->
               IF a = EmptyAttr THEN <<>>
               ELSE IF "group" \in DOMAIN a
               THEN Under(IF a.key = "" THEN <<>> ELSE <<a.key>>, FlattenSeq([i \in DOMAIN a.group |-> F[a.group[i]]]))
               ELSE <<[key |-> <<a.key>>, val |-> a.val]>>]
    BY <1>5, <1>6
  <1>8. Flattened = [a \in Attrs |->
               IF a = EmptyAttr THEN <<>>
               ELSE IF "group" \in DOMAIN a
               THEN Under(IF a.key = "" THEN <<>> ELSE <<a.key>>, FlattenSeq([i \in DOMAIN a.group |-> Flattened[a.group[i]]]))
               ELSE <<[key |-> <<a.key>>, val |-> a.val]>>]
    BY <1>7 DEF Flattened
  <1>9. \A a \in Attrs : Flattened[a] =
           IF a = EmptyAttr THEN <<>>
           ELSE IF "group" \in DOMAIN a
           THEN Under(KeyPrefix(a), FlattenSeq([i \in DOMAIN a.group |-> Flattened[a.group[i]]]))
           ELSE <<[key |-> <<a.key>>, val |-> a.val]>>
    BY <1>8 DEF KeyPrefix
  <1>. DEFINE S == {a \in Attrs : Flattened[a] \in D}
  <1>10. ASSUME NEW a \in Attrs, Grouped(a) => \A i \in DOMAIN a.group : a.group[i] \in S PROVE a \in S
    <2>1. CASE Grouped(a)
      <3>1. PICK depth : DepthOf(depth)
        BY DepthExists
      <3>2. DOMAIN a.group = 1 .. Len(a.group) /\ Len(a.group) \in Nat
        BY <2>1, <3>1, InGroup DEF Grouped
      <3>. DEFINE q == [i \in DOMAIN a.group |-> Flattened[a.group[i]]]
      <3>3. q \in Seq(D)
        BY <1>10, <2>1, <3>2
      <3>. HIDE DEF q
      <3>4. Under(KeyPrefix(a), FlattenSeq(q)) \in D
        BY <1>2, <3>3
      <3>5. Flattened[a] = Under(KeyPrefix(a), FlattenSeq(q))
        BY <1>9, <2>1 DEF Grouped, q
      <3> QED BY <3>4, <3>5
    <2>2. CASE ~Grouped(a)
      <3>1. Flattened[a] = B[a]
        BY <1>1, <1>9, <2>2 DEF Grouped
      <3> QED BY <1>1, <3>1
    <2> QED BY <2>1, <2>2
  <1>11. \A a \in Attrs : Flattened[a] \in D
    <2>1. \A a \in Attrs : a \in S
      <3>. HIDE DEF S
      <3> QED BY <1>10, DepthInduction
    <2> QED BY <2>1
  <1>12. DOMAIN Flattened = Attrs /\ Flattened = [a \in Attrs |-> Flattened[a]]
    BY <1>8
  <1>13. Flattened \in [Attrs -> D]
    BY <1>11, <1>12
  <1> QED BY <1>9, <1>13 DEF D

LEMMA LeavesIs ==
  /\ Leaves \in [Attrs -> Seq(SVals)]
  /\ \A a \in Attrs : Leaves[a] =
        IF a = EmptyAttr THEN <<>>
        ELSE IF "group" \in DOMAIN a THEN FlattenSeq([i \in DOMAIN a.group |-> Leaves[a.group[i]]])
        ELSE <<a.val>>
  <1>. DEFINE D == Seq(SVals)
              B == [a \in Attrs |-> IF a = EmptyAttr THEN <<>> ELSE <<a.val>>]
              G == [p \in Attrs \X Seq(D) |-> FlattenSeq(p[2])]
  <1>1. B \in [Attrs -> D] /\ \A a \in Attrs : B[a] = IF a = EmptyAttr THEN <<>> ELSE <<a.val>>
    <2>1. ASSUME NEW a \in Attrs PROVE (IF a = EmptyAttr THEN <<>> ELSE <<a.val>>) \in Seq(SVals)
      <3>1. <<a.val>> \in Seq(SVals)
        BY KeysIn
      <3>2. <<>> \in Seq(SVals)
        OBVIOUS
      <3> QED BY <3>1, <3>2
    <2> QED BY <2>1
  <1>2. \A q \in Seq(D) : FlattenSeq(q) \in D
    <2>1. ASSUME NEW q \in Seq(D) PROVE FlattenSeq(q) \in D
      <3>1. q \in [1 .. Len(q) -> Seq(SVals)] /\ Len(q) \in Nat
        OBVIOUS
      <3> QED BY <3>1, FlattenIn
    <2> QED BY <2>1
  <1>3. G \in [Attrs \X Seq(D) -> D] /\ \A a \in Attrs, q \in Seq(D) : G[<<a, q>>] = FlattenSeq(q)
    BY <1>2
  <1>. HIDE DEF D, B, G
  <1>4. PICK F : Recursed(F, Attrs, D, B, G)
    BY <1>1, <1>3, AttrRecursion
  <1>5. F \in [Attrs -> D] /\ \A a \in Attrs : F[a] = AttrValue(F, B, G, a)
    BY <1>4 DEF Recursed
  <1>6. ASSUME NEW a \in Attrs
        PROVE  F[a] = IF a = EmptyAttr THEN <<>>
                      ELSE IF "group" \in DOMAIN a THEN FlattenSeq([i \in DOMAIN a.group |-> F[a.group[i]]])
                      ELSE <<a.val>>
    <2>. DEFINE q == [i \in DOMAIN a.group |-> F[a.group[i]]]
    <2>1. CASE a # EmptyAttr /\ "group" \in DOMAIN a
      <3>1. PICK depth : DepthOf(depth)
        BY DepthExists
      <3>2. DOMAIN a.group = 1 .. Len(a.group) /\ Len(a.group) \in Nat /\ \A i \in DOMAIN a.group : a.group[i] \in Attrs
        BY <2>1, <3>1, InGroup
      <3>3. q \in Seq(D)
        BY <1>5, <3>2
      <3>4. F[a] = G[<<a, q>>]
        BY <1>5, <2>1 DEF AttrValue, Grouped
      <3>. HIDE DEF q
      <3>5. F[a] = FlattenSeq(q)
        BY <1>3, <3>3, <3>4
      <3> QED BY <2>1, <3>5 DEF q
    <2>2. CASE a = EmptyAttr \/ "group" \notin DOMAIN a
      BY <1>1, <1>5, <2>2 DEF AttrValue, Grouped
    <2> QED BY <2>1, <2>2
  <1>7. F = [a \in Attrs |->
               IF a = EmptyAttr THEN <<>>
               ELSE IF "group" \in DOMAIN a THEN FlattenSeq([i \in DOMAIN a.group |-> F[a.group[i]]])
               ELSE <<a.val>>]
    BY <1>5, <1>6
  <1>8. Leaves = [a \in Attrs |->
               IF a = EmptyAttr THEN <<>>
               ELSE IF "group" \in DOMAIN a THEN FlattenSeq([i \in DOMAIN a.group |-> Leaves[a.group[i]]])
               ELSE <<a.val>>]
    BY <1>7 DEF Leaves
  <1>9. \A a \in Attrs : Leaves[a] =
           IF a = EmptyAttr THEN <<>>
           ELSE IF "group" \in DOMAIN a THEN FlattenSeq([i \in DOMAIN a.group |-> Leaves[a.group[i]]])
           ELSE <<a.val>>
    BY <1>8
  <1>. DEFINE S == {a \in Attrs : Leaves[a] \in D}
  <1>10. ASSUME NEW a \in Attrs, Grouped(a) => \A i \in DOMAIN a.group : a.group[i] \in S PROVE a \in S
    <2>1. CASE Grouped(a)
      <3>1. PICK depth : DepthOf(depth)
        BY DepthExists
      <3>2. DOMAIN a.group = 1 .. Len(a.group) /\ Len(a.group) \in Nat
        BY <2>1, <3>1, InGroup DEF Grouped
      <3>. DEFINE q == [i \in DOMAIN a.group |-> Leaves[a.group[i]]]
      <3>3. q \in Seq(D)
        BY <1>10, <2>1, <3>2
      <3>. HIDE DEF q
      <3>4. FlattenSeq(q) \in D
        BY <1>2, <3>3
      <3>5. Leaves[a] = FlattenSeq(q)
        BY <1>9, <2>1 DEF Grouped, q
      <3> QED BY <3>4, <3>5
    <2>2. CASE ~Grouped(a)
      <3>1. Leaves[a] = B[a]
        BY <1>1, <1>9, <2>2 DEF Grouped
      <3> QED BY <1>1, <3>1
    <2> QED BY <2>1, <2>2
  <1>11. \A a \in Attrs : Leaves[a] \in D
    <2>1. \A a \in Attrs : a \in S
      <3>. HIDE DEF S
      <3> QED BY <1>10, DepthInduction
    <2> QED BY <2>1
  <1>12. DOMAIN Leaves = Attrs /\ Leaves = [a \in Attrs |-> Leaves[a]]
    BY <1>8
  <1>13. Leaves \in [Attrs -> D]
    BY <1>11, <1>12
  <1> QED BY <1>9, <1>13 DEF D

\* The values of an attribute's fields are its leaves.
LEMMA SameValues == \A a \in Attrs : ValuesOf(Flattened[a]) = Leaves[a]
  <1>. DEFINE S == {a \in Attrs : ValuesOf(Flattened[a]) = Leaves[a]}
  <1>1. ASSUME NEW a \in Attrs, Grouped(a) => \A i \in DOMAIN a.group : a.group[i] \in S PROVE a \in S
    <2>1. CASE Grouped(a)
      <3>1. PICK depth : DepthOf(depth)
        BY DepthExists
      <3>. DEFINE n == Len(a.group)
                  q == [i \in 1 .. n |-> Flattened[a.group[i]]]
      <3>2. DOMAIN a.group = 1 .. n /\ n \in Nat /\ \A i \in 1 .. n : a.group[i] \in Attrs
        BY <2>1, <3>1, InGroup DEF Grouped
      <3>3. \A i \in 1 .. n : ValuesOf(Flattened[a.group[i]]) = Leaves[a.group[i]]
        BY <1>1, <2>1, <3>2
      <3>4. q \in [1 .. n -> Seq(SFields)] /\ \A i \in 1 .. n : q[i] = Flattened[a.group[i]]
        BY <3>2, FlattenedIs
      <3>5. Flattened[a] = Under(KeyPrefix(a), FlattenSeq(q))
        BY <2>1, <3>2, FlattenedIs DEF Grouped
      <3>6. Leaves[a] = FlattenSeq([i \in 1 .. n |-> Leaves[a.group[i]]])
        BY <2>1, <3>2, LeavesIs DEF Grouped
      <3>. HIDE DEF q, n
      <3>7. [i \in 1 .. n |-> ValuesOf(q[i])] = [i \in 1 .. n |-> Leaves[a.group[i]]]
        BY <3>3, <3>4
      <3>8. FlattenSeq(q) \in Seq(SFields)
        BY <3>2, <3>4, FlattenIn
      <3>9. ValuesOf(FlattenSeq(q)) = FlattenSeq([i \in 1 .. n |-> ValuesOf(q[i])])
        BY <3>2, <3>4, ValuesOfFlat
      <3>10. ValuesOf(Under(KeyPrefix(a), FlattenSeq(q))) = ValuesOf(FlattenSeq(q))
        BY <3>8, KeysIn, UnderIn
      <3> QED BY <3>5, <3>6, <3>7, <3>9, <3>10
    <2>2. CASE ~Grouped(a)
      <3>1. CASE a = EmptyAttr
        <4>1. Flattened[a] = <<>> /\ Leaves[a] = <<>>
          BY <3>1, FlattenedIs, LeavesIs
        <4>2. ValuesOf(<<>>) = <<>>
          BY DEF ValuesOf
        <4> QED BY <4>1, <4>2
      <3>2. CASE a # EmptyAttr
        <4>1. Flattened[a] = <<[key |-> <<a.key>>, val |-> a.val]>> /\ Leaves[a] = <<a.val>>
          BY <2>2, <3>2, FlattenedIs, LeavesIs DEF Grouped
        <4> QED BY <4>1, KeysIn
      <3> QED BY <3>1, <3>2
    <2> QED BY <2>1, <2>2
  <1>2. \A a \in Attrs : a \in S
    <2>. HIDE DEF S
    <2> QED BY <1>1, DepthInduction
  <1> QED BY <1>2

\* The fields of an attribute under a prefix.
LEMMA AppendAttrIn ==
  ASSUME NEW p \in Seq(NameSet), NEW a \in Attrs
  PROVE  AppendAttr(p, a) \in Seq(SFields) /\ ValuesOf(AppendAttr(p, a)) = Leaves[a]
  <1>1. Flattened[a] \in Seq(SFields)
    BY FlattenedIs
  <1> QED BY <1>1, UnderIn, SameValues DEF AppendAttr

\* A derivation is of an attribute or of a group, and not of both.
LEMMA DerivIs ==
  ASSUME NEW d \in Derivs
  PROVE  \/ "attr" \in DOMAIN d /\ "group" \notin DOMAIN d /\ d.attr \in Attrs
         \/ "attr" \notin DOMAIN d /\ "group" \in DOMAIN d /\ d.group \in GroupNames
  BY DEF Derivs

LEMMA DerivOfAttr ==
  ASSUME NEW a \in Attrs, NEW d, d = [attr |-> a]
  PROVE  d \in Derivs /\ "attr" \in DOMAIN d /\ "group" \notin DOMAIN d /\ d.attr = a
  BY DEF Derivs

LEMMA DerivOfGroup ==
  ASSUME NEW g \in GroupNames, NEW d, d = [group |-> g]
  PROVE  d \in Derivs /\ "attr" \notin DOMAIN d /\ "group" \in DOMAIN d /\ d.group = g
  BY DEF Derivs

\* The group that a derivation opens, if any.
OpenIn(d) == IF "group" \in DOMAIN d THEN <<d.group>> ELSE <<>>

LEMMA OpensIn == ASSUME NEW d \in Derivs PROVE OpenIn(d) \in Seq(NameSet)
  <1>1. ASSUME NEW X, NEW x \in X PROVE <<x>> \in Seq(X) /\ <<>> \in Seq(X)
    OBVIOUS
  <1>2. \A g \in GroupNames : g \in NameSet
    BY DEF NameSet
  <1>3. CASE "group" \in DOMAIN d
    <2>1. d.group \in NameSet
      BY <1>2, <1>3, DerivIs
    <2> QED BY <1>1, <1>3, <2>1 DEF OpenIn
  <1>4. CASE "group" \notin DOMAIN d
    <2>1. OpenIn(d) = <<>>
      BY <1>4 DEF OpenIn
    <2>2. <<>> \in Seq(NameSet)
      OBVIOUS
    <2> QED BY <2>1, <2>2
  <1> QED BY <1>3, <1>4

\* The open groups are names, and depend on the derivations until then only.
LEMMA OpenAfterIn ==
  ASSUME NEW path \in Seq(Derivs), NEW n \in Nat, n <= Len(path)
  PROVE  OpenAfter(path, n) \in Seq(NameSet)
  <1>. DEFINE F == [i \in 1 .. n |-> OpenIn(path[i])]
  <1>1. \A i \in 1 .. n : path[i] \in Derivs
    OBVIOUS
  <1>2. F \in [1 .. n -> Seq(NameSet)]
    BY <1>1, OpensIn
  <1>3. OpenAfter(path, n) = FlattenSeq(F)
    BY DEF OpenAfter, OpenIn
  <1>. HIDE DEF F
  <1> QED BY <1>2, <1>3, FlattenIn

LEMMA OpenAfterSame ==
  ASSUME NEW p, NEW q, NEW n \in Nat, \A i \in 1 .. n : p[i] = q[i]
  PROVE  OpenAfter(p, n) = OpenAfter(q, n)
  <1>1. [i \in 1 .. n |-> OpenIn(p[i])] = [i \in 1 .. n |-> OpenIn(q[i])]
    OBVIOUS
  <1>2. OpenAfter(p, n) = FlattenSeq([i \in 1 .. n |-> OpenIn(p[i])]) /\ OpenAfter(q, n) = FlattenSeq([i \in 1 .. n |-> OpenIn(q[i])])
    BY DEF OpenAfter, OpenIn
  <1> QED BY <1>1, <1>2

LEMMA OpenAfterMore ==
  ASSUME NEW path \in Seq(Derivs), NEW n \in Nat, n + 1 <= Len(path)
  PROVE  OpenAfter(path, n + 1) = OpenAfter(path, n) \o OpenIn(path[n + 1])
  <1>. DEFINE F == [i \in 1 .. n + 1 |-> OpenIn(path[i])]
  <1>1. \A i \in 1 .. n + 1 : path[i] \in Derivs
    OBVIOUS
  <1>2. F \in [1 .. n + 1 -> Seq(NameSet)] /\ n + 1 \in 1 .. n + 1 /\ \A i \in 1 .. n : i \in 1 .. n + 1
    BY <1>1, OpensIn
  <1>3. OpenAfter(path, n + 1) = FlattenSeq(F)
    BY DEF OpenAfter, OpenIn
  <1>4. F[n + 1] = OpenIn(path[n + 1]) /\ [i \in 1 .. n |-> F[i]] = [i \in 1 .. n |-> OpenIn(path[i])]
    BY <1>2
  <1>5. OpenAfter(path, n) = FlattenSeq([i \in 1 .. n |-> OpenIn(path[i])])
    BY DEF OpenAfter, OpenIn
  <1>. HIDE DEF F
  <1>6. FlattenSeq(F) = FlattenSeq([i \in 1 .. n |-> F[i]]) \o F[n + 1]
    BY <1>2, FlattenMore
  <1> QED BY <1>3, <1>4, <1>5, <1>6

\* The fields of a derivation, and of all of them.
FieldsOfAll(path) == FlattenSeq([i \in DOMAIN path |-> FieldsBy(path, i)])

LEMMA FieldsByIn ==
  ASSUME NEW path \in Seq(Derivs), NEW i \in 1 .. Len(path)
  PROVE  /\ FieldsBy(path, i) \in Seq(SFields)
         /\ ValuesOf(FieldsBy(path, i)) = Leaves[AttrBy(path, i)]
  <1>1. path[i] \in Derivs /\ i \in Nat /\ i <= Len(path)
    OBVIOUS
  <1>2. OpenAfter(path, i) \in Seq(NameSet)
    BY <1>1, OpenAfterIn
  <1>3. CASE "attr" \in DOMAIN path[i]
    <2>1. path[i].attr \in Attrs
      BY <1>1, <1>3, DerivIs
    <2>2. FieldsBy(path, i) = AppendAttr(OpenAfter(path, i), path[i].attr) /\ AttrBy(path, i) = path[i].attr
      BY <1>3 DEF FieldsBy, AttrBy
    <2> QED BY <1>2, <2>1, <2>2, AppendAttrIn
  <1>4. CASE "attr" \notin DOMAIN path[i]
    <2>1. FieldsBy(path, i) = <<>> /\ AttrBy(path, i) = EmptyAttr
      BY <1>4 DEF FieldsBy, AttrBy
    <2>2. Leaves[EmptyAttr] = <<>>
      BY AttrsAssumption, LeavesIs
    <2>3. ValuesOf(<<>>) = <<>>
      BY DEF ValuesOf
    <2>4. <<>> \in Seq(SFields)
      OBVIOUS
    <2> QED BY <2>1, <2>2, <2>3, <2>4
  <1> QED BY <1>3, <1>4

LEMMA FieldsOfAllIn ==
  ASSUME NEW path \in Seq(Derivs)
  PROVE  /\ FieldsOfAll(path) \in Seq(SFields)
         /\ ValuesOf(FieldsOfAll(path)) = FlattenSeq([i \in DOMAIN path |-> Leaves[AttrBy(path, i)]])
  <1>. DEFINE n == Len(path)
              F == [i \in 1 .. n |-> FieldsBy(path, i)]
  <1>1. n \in Nat /\ DOMAIN path = 1 .. n
    OBVIOUS
  <1>2. F \in [1 .. n -> Seq(SFields)]
    BY FieldsByIn
  <1>3. FieldsOfAll(path) = FlattenSeq(F)
    BY <1>1 DEF FieldsOfAll
  <1>4. [i \in 1 .. n |-> ValuesOf(F[i])] = [i \in DOMAIN path |-> Leaves[AttrBy(path, i)]]
    BY <1>1, FieldsByIn
  <1>. HIDE DEF F
  <1>5. FlattenSeq(F) \in Seq(SFields)
    BY <1>1, <1>2, FlattenIn
  <1>6. ValuesOf(FlattenSeq(F)) = FlattenSeq([i \in 1 .. n |-> ValuesOf(F[i])])
    BY <1>1, <1>2, ValuesOfFlat
  <1> QED BY <1>3, <1>4, <1>5, <1>6

\* One derivation more opens its group, if any, and adds its attribute's fields.
LEMMA PathMore ==
  ASSUME NEW path \in Seq(Derivs), NEW d \in Derivs, NEW q, q = Append(path, d)
  PROVE  /\ q \in Seq(Derivs)
         /\ OpenAfter(path, Len(path)) \in Seq(NameSet)
         /\ OpenAfter(q, Len(q)) = OpenAfter(path, Len(path)) \o OpenIn(d)
         /\ FieldsOfAll(q) = FieldsOfAll(path) \o
               (IF "attr" \in DOMAIN d THEN AppendAttr(OpenAfter(q, Len(q)), d.attr) ELSE <<>>)
  <1>. DEFINE n == Len(path)
  <1>1. n \in Nat /\ DOMAIN path = 1 .. n /\ n <= n
    OBVIOUS
  <1>2. q \in Seq(Derivs) /\ Len(q) = n + 1 /\ DOMAIN q = 1 .. n + 1 /\ q[n + 1] = d /\ \A i \in 1 .. n : q[i] = path[i]
    BY AppendProperties
  <1>. HIDE DEF n
  <1>3. n + 1 \in 1 .. n + 1 /\ n + 1 <= Len(q) /\ n + 1 \in 1 .. Len(q) /\ \A i \in 1 .. n : i \in 1 .. n + 1 /\ i \in 1 .. Len(q)
    BY <1>1, <1>2
  <1>4. OpenAfter(path, n) \in Seq(NameSet)
    <2>1. n \in Nat /\ n <= Len(path)
      BY <1>1 DEF n
    <2> QED BY <2>1, OpenAfterIn
  <1>5. OpenAfter(q, n + 1) = OpenAfter(q, n) \o OpenIn(d)
    BY <1>1, <1>2, <1>3, OpenAfterMore
  <1>6. OpenAfter(q, n) = OpenAfter(path, n)
    BY <1>1, <1>2, OpenAfterSame
  <1>. DEFINE F == [i \in 1 .. n + 1 |-> FieldsBy(q, i)]
  <1>7. F \in [1 .. n + 1 -> Seq(SFields)] /\ F[n + 1] = FieldsBy(q, n + 1) /\ \A i \in 1 .. n : F[i] = FieldsBy(q, i)
    BY <1>2, <1>3, FieldsByIn
  <1>8. FieldsOfAll(q) = FlattenSeq(F)
    BY <1>2 DEF FieldsOfAll
  <1>9. ASSUME NEW i \in 1 .. n PROVE FieldsBy(q, i) = FieldsBy(path, i)
    <2>1. OpenAfter(q, i) = OpenAfter(path, i)
      <3>1. i \in Nat /\ \A j \in 1 .. i : j \in 1 .. n
        BY <1>1
      <3>2. \A j \in 1 .. i : q[j] = path[j]
        BY <1>2, <3>1
      <3> QED BY <3>1, <3>2, OpenAfterSame
    <2> QED BY <1>2, <2>1 DEF FieldsBy
  <1>10. FieldsOfAll(path) = FlattenSeq([i \in 1 .. n |-> F[i]])
    <2>1. [i \in 1 .. n |-> F[i]] = [i \in DOMAIN path |-> FieldsBy(path, i)]
      BY <1>1, <1>7, <1>9
    <2> QED BY <2>1 DEF FieldsOfAll
  <1>. HIDE DEF F
  <1>11. FlattenSeq(F) = FlattenSeq([i \in 1 .. n |-> F[i]]) \o F[n + 1]
    BY <1>1, <1>7, FlattenMore
  <1>12. FieldsBy(q, n + 1) = IF "attr" \in DOMAIN d THEN AppendAttr(OpenAfter(q, n + 1), d.attr) ELSE <<>>
    BY <1>2 DEF FieldsBy
  <1>13. FieldsOfAll(q) = FieldsOfAll(path) \o (IF "attr" \in DOMAIN d THEN AppendAttr(OpenAfter(q, n + 1), d.attr) ELSE <<>>)
    BY <1>7, <1>8, <1>10, <1>11, <1>12
  <1>14. Len(q) = n + 1
    BY <1>2
  <1> QED BY <1>2, <1>4, <1>5, <1>6, <1>13, <1>14 DEF n

\* One more attribute bound adds its fields.
LEMMA BoundMore ==
  ASSUME NEW bound \in Seq(BoundSet), NEW b \in BoundSet
  PROVE  /\ Append(bound, b) \in Seq(BoundSet)
         /\ BoundFields(Append(bound, b)) = BoundFields(bound) \o AppendAttr(b.prefix, b.attr)
  <1>. DEFINE n == Len(bound)
              q == Append(bound, b)
              F == [i \in 1 .. n + 1 |-> AppendAttr(q[i].prefix, q[i].attr)]
  <1>1. n \in Nat /\ DOMAIN bound = 1 .. n
    OBVIOUS
  <1>2. q \in Seq(BoundSet) /\ Len(q) = n + 1 /\ DOMAIN q = 1 .. n + 1 /\ q[n + 1] = b /\ \A i \in 1 .. n : q[i] = bound[i]
    BY AppendProperties
  <1>. HIDE DEF n, q
  <1>3. n + 1 \in 1 .. n + 1 /\ \A i \in 1 .. n : i \in 1 .. n + 1
    BY <1>1
  <1>4. \A i \in 1 .. n + 1 : q[i] \in BoundSet
    BY <1>2
  <1>5. \A c \in BoundSet : AppendAttr(c.prefix, c.attr) \in Seq(SFields)
    <2>1. \A c \in BoundSet : c.prefix \in Seq(NameSet) /\ c.attr \in Attrs
      BY DEF BoundSet
    <2> QED BY <2>1, AppendAttrIn
  <1>6. F \in [1 .. n + 1 -> Seq(SFields)]
    BY <1>4, <1>5
  <1>7. F[n + 1] = AppendAttr(b.prefix, b.attr)
    BY <1>2, <1>3
  <1>8. [i \in 1 .. n |-> F[i]] = [i \in DOMAIN bound |-> AppendAttr(bound[i].prefix, bound[i].attr)]
    BY <1>1, <1>2, <1>3
  <1>9. BoundFields(q) = FlattenSeq(F)
    BY <1>2 DEF BoundFields
  <1>. HIDE DEF F
  <1>10. FlattenSeq(F) = FlattenSeq([i \in 1 .. n |-> F[i]]) \o F[n + 1]
    BY <1>1, <1>6, FlattenMore
  <1>11. BoundFields(bound) = FlattenSeq([i \in 1 .. n |-> F[i]])
    BY <1>8 DEF BoundFields
  <1> QED BY <1>2, <1>7, <1>9, <1>10, <1>11 DEF q

-----------------------------------------------------------------------------
\* What a handler has bound and has open is what it was derived by, and a line is
\* of the handler that wrote it.
HandlerAs(h, path) ==
    /\ h.prefix = OpenAfter(path, Len(path))
    /\ BoundFields(h.bound) = FieldsOfAll(path)

LineAs(line, ways) ==
    /\ line.by \in 1 .. Len(ways) /\ line.attr \in Attrs
    /\ line.fields = FieldsOfAll(ways[line.by]) \o AppendAttr(OpenAfter(ways[line.by], Len(ways[line.by])), line.attr)
    /\ Rank[line.level] >= Rank[MinLevel]

Derivable ==
    /\ handlers \in Seq(HandlerSet) /\ origin \in Seq(Seq(Derivs)) /\ Len(handlers) = Len(origin)
    /\ \A h \in 1 .. Len(handlers) : HandlerAs(handlers[h], origin[h])

SlogInv == Derivable /\ \A n \in DOMAIN sline : LineAs(sline[n], origin)

LEMMA SlogMeans == SlogInv => LinesByDerivation
  <1>. SUFFICES ASSUME SlogInv, NEW n \in DOMAIN sline
       PROVE  LET line == sline[n]
                  path == origin[line.by]
              IN  /\ line.fields = FlattenSeq([i \in DOMAIN path |-> FieldsBy(path, i)])
                                    \o AppendAttr(OpenAfter(path, Len(path)), line.attr)
                  /\ [i \in DOMAIN line.fields |-> line.fields[i].val]
                        = FlattenSeq([i \in DOMAIN path |-> Leaves[AttrBy(path, i)]]) \o Leaves[line.attr]
                  /\ Rank[line.level] >= Rank[MinLevel]
    BY DEF LinesByDerivation
  <1>. DEFINE line == sline[n]
              path == origin[line.by]
              tail == AppendAttr(OpenAfter(path, Len(path)), line.attr)
  <1>1. /\ line.by \in 1 .. Len(origin) /\ line.attr \in Attrs
        /\ line.fields = FieldsOfAll(path) \o tail
        /\ Rank[line.level] >= Rank[MinLevel]
    BY DEF SlogInv, LineAs
  <1>2. path \in Seq(Derivs)
    BY <1>1 DEF SlogInv, Derivable
  <1>. HIDE DEF path, line
  <1>3. OpenAfter(path, Len(path)) \in Seq(NameSet)
    <2>1. Len(path) \in Nat /\ Len(path) <= Len(path)
      BY <1>2
    <2> QED BY <1>2, <2>1, OpenAfterIn
  <1>4. tail \in Seq(SFields) /\ ValuesOf(tail) = Leaves[line.attr]
    BY <1>1, <1>3, AppendAttrIn
  <1>5. /\ FieldsOfAll(path) \in Seq(SFields)
        /\ ValuesOf(FieldsOfAll(path)) = FlattenSeq([i \in DOMAIN path |-> Leaves[AttrBy(path, i)]])
    BY <1>2, FieldsOfAllIn
  <1>. HIDE DEF tail
  <1>6. ValuesOf(line.fields) = FlattenSeq([i \in DOMAIN path |-> Leaves[AttrBy(path, i)]]) \o Leaves[line.attr]
    <2>1. ValuesOf(FieldsOfAll(path) \o tail) = ValuesOf(FieldsOfAll(path)) \o ValuesOf(tail)
      BY <1>4, <1>5, ValuesOfConcat
    <2> QED BY <1>1, <1>4, <1>5, <2>1
  <1>7. line.fields = FlattenSeq([i \in DOMAIN path |-> FieldsBy(path, i)])
                        \o AppendAttr(OpenAfter(path, Len(path)), line.attr)
    BY <1>1 DEF FieldsOfAll, tail
  <1>8. [i \in DOMAIN line.fields |-> line.fields[i].val]
           = FlattenSeq([i \in DOMAIN path |-> Leaves[AttrBy(path, i)]]) \o Leaves[line.attr]
    BY <1>6 DEF ValuesOf
  <1> QED BY <1>1, <1>7, <1>8 DEF path, line

LEMMA SlogStart == SlogInit => SlogInv
  <1>. SUFFICES ASSUME SlogInit PROVE SlogInv
    OBVIOUS
  <1>. DEFINE h == [prefix |-> <<>>, bound |-> <<>>]
  <1>1. handlers = <<h>> /\ origin = <<<<>>>> /\ sline = <<>>
    BY DEF SlogInit
  <1>2. ASSUME NEW X PROVE <<>> \in Seq(X)
    OBVIOUS
  <1>3. ASSUME NEW X, NEW x \in X PROVE <<x>> \in Seq(X) /\ Len(<<x>>) = 1 /\ <<x>>[1] = x
    OBVIOUS
  <1>4. h \in HandlerSet
    BY <1>2 DEF HandlerSet
  <1>5. handlers \in Seq(HandlerSet) /\ origin \in Seq(Seq(Derivs)) /\ Len(handlers) = 1 /\ Len(origin) = 1
        /\ handlers[1] = h /\ origin[1] = <<>>
    <2>1. <<>> \in Seq(Derivs)
      BY <1>2
    <2>. HIDE DEF h
    <2> QED BY <1>1, <1>3, <1>4, <2>1
  <1>6. HandlerAs(h, <<>>)
    <2>1. OpenAfter(<<>>, 0) = <<>>
      <3>. DEFINE p == <<>>
      <3>1. [i \in 1 .. 0 |-> IF "group" \in DOMAIN p[i] THEN <<p[i].group>> ELSE <<>>] = <<>>
        OBVIOUS
      <3>2. FlattenSeq(<<>>) = <<>>
        BY DEF FlattenSeq
      <3> QED BY <3>1, <3>2 DEF OpenAfter
    <2>2. FieldsOfAll(<<>>) = <<>>
      <3>. DEFINE p == <<>>
      <3>1. [i \in DOMAIN p |-> FieldsBy(p, i)] = <<>>
        OBVIOUS
      <3>2. FlattenSeq(<<>>) = <<>>
        BY DEF FlattenSeq
      <3> QED BY <3>1, <3>2 DEF FieldsOfAll
    <2>3. BoundFields(<<>>) = <<>>
      <3>. DEFINE p == <<>>
      <3>1. [i \in DOMAIN p |-> AppendAttr(p[i].prefix, p[i].attr)] = <<>>
        OBVIOUS
      <3>2. FlattenSeq(<<>>) = <<>>
        BY DEF FlattenSeq
      <3> QED BY <3>1, <3>2 DEF BoundFields
    <2>4. h.prefix = <<>> /\ h.bound = <<>> /\ Len(<<>>) = 0
      OBVIOUS
    <2> QED BY <2>1, <2>2, <2>3, <2>4 DEF HandlerAs
  <1>. HIDE DEF h
  <1>7. \A i \in 1 .. Len(handlers) : HandlerAs(handlers[i], origin[i])
    <2>1. \A i \in 1 .. 1 : i = 1
      OBVIOUS
    <2> QED BY <1>5, <1>6, <2>1
  <1>8. DOMAIN sline = {}
    BY <1>1
  <1> QED BY <1>5, <1>7, <1>8 DEF SlogInv, Derivable

LEMMA AppendGives ==
  ASSUME NEW S, NEW q \in Seq(S), NEW x \in S
  PROVE  /\ Append(q, x) \in Seq(S) /\ Len(Append(q, x)) = Len(q) + 1 /\ Append(q, x)[Len(q) + 1] = x
         /\ \A i \in 1 .. Len(q) : Append(q, x)[i] = q[i]
  OBVIOUS

\* One more handler that is as it was derived, and the lines stay the handlers' that
\* wrote them.
LEMMA OneMoreHandler ==
  ASSUME SlogInv, NEW h \in HandlerSet, NEW path \in Seq(Derivs), HandlerAs(h, path),
         handlers' = Append(handlers, h), origin' = Append(origin, path), sline' = sline
  PROVE  SlogInv'
  <1>. DEFINE n == Len(handlers)
  <1>1. /\ handlers \in Seq(HandlerSet) /\ origin \in Seq(Seq(Derivs)) /\ n \in Nat /\ Len(origin) = n
        /\ \A i \in 1 .. n : HandlerAs(handlers[i], origin[i])
    <2>1. Derivable
      BY DEF SlogInv
    <2>2. /\ handlers \in Seq(HandlerSet) /\ origin \in Seq(Seq(Derivs)) /\ Len(handlers) = Len(origin)
          /\ \A i \in 1 .. Len(handlers) : HandlerAs(handlers[i], origin[i])
      BY <2>1 DEF Derivable
    <2>3. n \in Nat
      BY <2>2
    <2> QED BY <2>2, <2>3
  <1>2. /\ handlers' \in Seq(HandlerSet) /\ Len(handlers') = n + 1 /\ handlers'[n + 1] = h
        /\ \A i \in 1 .. n : handlers'[i] = handlers[i]
    <2>1. /\ Append(handlers, h) \in Seq(HandlerSet) /\ Len(Append(handlers, h)) = Len(handlers) + 1
          /\ Append(handlers, h)[Len(handlers) + 1] = h
          /\ \A i \in 1 .. Len(handlers) : Append(handlers, h)[i] = handlers[i]
      BY <1>1, AppendGives
    <2> QED BY <1>1, <2>1
  <1>3. /\ origin' \in Seq(Seq(Derivs)) /\ Len(origin') = n + 1 /\ origin'[n + 1] = path
        /\ \A i \in 1 .. n : origin'[i] = origin[i]
    <2>1. /\ Append(origin, path) \in Seq(Seq(Derivs)) /\ Len(Append(origin, path)) = Len(origin) + 1
          /\ Append(origin, path)[Len(origin) + 1] = path
          /\ \A i \in 1 .. Len(origin) : Append(origin, path)[i] = origin[i]
      BY <1>1, AppendGives
    <2> QED BY <1>1, <2>1
  <1>. HIDE DEF n
  <1>4. \A i \in 1 .. n + 1 : i \in 1 .. n \/ i = n + 1
    BY <1>1
  <1>5. \A i \in 1 .. n + 1 : HandlerAs(handlers'[i], origin'[i])
    BY <1>1, <1>2, <1>3, <1>4
  <1>6. \A i \in 1 .. n : i \in 1 .. n + 1
    BY <1>1
  <1>7. ASSUME NEW l, LineAs(l, origin) PROVE LineAs(l, origin')
    <2>1. l.by \in 1 .. n
      BY <1>1, <1>7 DEF LineAs
    <2> QED BY <1>3, <1>6, <1>7, <2>1 DEF LineAs
  <1>8. \A i \in DOMAIN sline' : LineAs(sline'[i], origin')
    BY <1>7 DEF SlogInv
  <1> QED BY <1>2, <1>3, <1>5, <1>8 DEF SlogInv, Derivable, HandlerAs

LEMMA ConcatNone == ASSUME NEW S, NEW a \in Seq(S) PROVE a \o <<>> = a
  OBVIOUS

LEMMA AppendIs == ASSUME NEW S, NEW a \in Seq(S), NEW x \in S PROVE Append(a, x) \in Seq(S) /\ Append(a, x) = a \o <<x>>
  OBVIOUS

LEMMA OfHandler ==
  ASSUME SlogInv, NEW h \in DOMAIN handlers
  PROVE  handlers[h] \in HandlerSet /\ origin[h] \in Seq(Derivs) /\ HandlerAs(handlers[h], origin[h])
  <1>1. h \in 1 .. Len(handlers) /\ h \in 1 .. Len(origin)
    BY DEF SlogInv, Derivable
  <1> QED BY <1>1 DEF SlogInv, Derivable

LEMMA WithAttrsKeeps == ASSUME SlogInv, NEW h \in DOMAIN handlers, WithAttrs(h) PROVE SlogInv'
  <1>1. PICK a \in Attrs :
          /\ handlers' = Append(handlers,
                [prefix |-> handlers[h].prefix,
                 bound |-> Append(handlers[h].bound, [prefix |-> handlers[h].prefix, attr |-> a])])
          /\ origin' = Append(origin, Append(origin[h], [attr |-> a]))
    BY DEF WithAttrs
  <1>2. sline' = sline
    BY DEF WithAttrs
  <1>. DEFINE p == handlers[h].prefix
              old == handlers[h].bound
              b == [prefix |-> p, attr |-> a]
              new == [prefix |-> p, bound |-> Append(old, b)]
              d == [attr |-> a]
              path == origin[h]
              q == Append(path, d)
  <1>3. handlers[h] \in HandlerSet /\ path \in Seq(Derivs) /\ HandlerAs(handlers[h], path)
    BY OfHandler
  <1>4. p \in Seq(NameSet) /\ old \in Seq(BoundSet)
    BY <1>3 DEF HandlerSet
  <1>5. p = OpenAfter(path, Len(path)) /\ BoundFields(old) = FieldsOfAll(path)
    BY <1>3 DEF HandlerAs
  <1>6. handlers' = Append(handlers, new) /\ origin' = Append(origin, q)
    BY <1>1
  <1>7. d \in Derivs /\ "attr" \in DOMAIN d /\ "group" \notin DOMAIN d /\ d.attr = a
    BY DerivOfAttr
  <1>. HIDE DEF p, old, d, path
  <1>8. b \in BoundSet /\ b.prefix = p /\ b.attr = a
    BY <1>4 DEF BoundSet
  <1>. HIDE DEF b
  <1>9. Append(old, b) \in Seq(BoundSet) /\ BoundFields(Append(old, b)) = BoundFields(old) \o AppendAttr(p, a)
    BY <1>4, <1>8, BoundMore
  <1>10. new \in HandlerSet /\ new.prefix = p /\ new.bound = Append(old, b)
    BY <1>4, <1>9 DEF HandlerSet
  <1>. HIDE DEF new
  <1>11. /\ q \in Seq(Derivs)
         /\ OpenAfter(q, Len(q)) = OpenAfter(path, Len(path)) \o OpenIn(d)
         /\ FieldsOfAll(q) = FieldsOfAll(path) \o
               (IF "attr" \in DOMAIN d THEN AppendAttr(OpenAfter(q, Len(q)), d.attr) ELSE <<>>)
    BY <1>3, <1>7, PathMore
  <1>. HIDE DEF q
  <1>12. p \o <<>> = p
    BY <1>4, ConcatNone
  <1>13. OpenAfter(q, Len(q)) = p
    BY <1>5, <1>7, <1>11, <1>12 DEF OpenIn
  <1>14. HandlerAs(new, q)
    BY <1>5, <1>7, <1>9, <1>10, <1>11, <1>13 DEF HandlerAs
  <1> QED BY <1>2, <1>6, <1>10, <1>11, <1>14, OneMoreHandler

LEMMA WithGroupKeeps == ASSUME SlogInv, NEW h \in DOMAIN handlers, WithGroup(h) PROVE SlogInv'
  <1>1. PICK g \in GroupNames \ {""} :
          /\ handlers' = Append(handlers, [prefix |-> Append(handlers[h].prefix, g), bound |-> handlers[h].bound])
          /\ origin' = Append(origin, Append(origin[h], [group |-> g]))
    BY DEF WithGroup
  <1>2. sline' = sline
    BY DEF WithGroup
  <1>. DEFINE p == handlers[h].prefix
              old == handlers[h].bound
              new == [prefix |-> Append(p, g), bound |-> old]
              d == [group |-> g]
              path == origin[h]
              q == Append(path, d)
  <1>3. handlers[h] \in HandlerSet /\ path \in Seq(Derivs) /\ HandlerAs(handlers[h], path)
    BY OfHandler
  <1>4. p \in Seq(NameSet) /\ old \in Seq(BoundSet)
    BY <1>3 DEF HandlerSet
  <1>5. p = OpenAfter(path, Len(path)) /\ BoundFields(old) = FieldsOfAll(path)
    BY <1>3 DEF HandlerAs
  <1>6. handlers' = Append(handlers, new) /\ origin' = Append(origin, q)
    BY <1>1
  <1>7. d \in Derivs /\ "attr" \notin DOMAIN d /\ "group" \in DOMAIN d /\ d.group = g
    BY DerivOfGroup
  <1>. HIDE DEF p, old, d, path
  <1>8. g \in NameSet
    BY DEF NameSet
  <1>9. Append(p, g) \in Seq(NameSet) /\ Append(p, g) = p \o <<g>>
    BY <1>4, <1>8, AppendIs
  <1>10. new \in HandlerSet /\ new.prefix = Append(p, g) /\ new.bound = old
    BY <1>4, <1>9 DEF HandlerSet
  <1>. HIDE DEF new
  <1>11. /\ q \in Seq(Derivs)
         /\ OpenAfter(q, Len(q)) = OpenAfter(path, Len(path)) \o OpenIn(d)
         /\ FieldsOfAll(q) = FieldsOfAll(path) \o
               (IF "attr" \in DOMAIN d THEN AppendAttr(OpenAfter(q, Len(q)), d.attr) ELSE <<>>)
         /\ FieldsOfAll(path) \in Seq(SFields)
    BY <1>3, <1>7, PathMore, FieldsOfAllIn
  <1>. HIDE DEF q
  <1>12. FieldsOfAll(path) \o <<>> = FieldsOfAll(path)
    BY <1>11, ConcatNone
  <1>13. OpenAfter(q, Len(q)) = Append(p, g)
    BY <1>5, <1>7, <1>9, <1>11 DEF OpenIn
  <1>14. HandlerAs(new, q)
    BY <1>5, <1>7, <1>10, <1>11, <1>12, <1>13 DEF HandlerAs
  <1> QED BY <1>2, <1>6, <1>10, <1>11, <1>14, OneMoreHandler

LEMMA HandleKeeps == ASSUME SlogInv, NEW h \in DOMAIN handlers, Handle(h) PROVE SlogInv'
  <1>1. PICK l \in SlogLevels, a \in Attrs :
          sline' = IF ~Enabled(l) THEN sline
                   ELSE <<[by |-> h, attr |-> a, level |-> MapLevel(l),
                         fields |-> BoundFields(handlers[h].bound) \o AppendAttr(handlers[h].prefix, a)]>>
    BY DEF Handle
  <1>2. handlers' = handlers /\ origin' = origin
    BY DEF Handle
  <1>3. HandlerAs(handlers[h], origin[h]) /\ h \in 1 .. Len(origin)
    BY DEF SlogInv, Derivable
  <1>4. CASE Enabled(l)
    <2>. DEFINE fs == BoundFields(handlers[h].bound) \o AppendAttr(handlers[h].prefix, a)
                lv == MapLevel(l)
                line == [by |-> h, attr |-> a, level |-> lv, fields |-> fs]
    <2>1. sline' = <<line>>
      BY <1>1, <1>4
    <2>2. fs = FieldsOfAll(origin[h]) \o AppendAttr(OpenAfter(origin[h], Len(origin[h])), a)
      BY <1>3 DEF HandlerAs
    <2>3. Rank[lv] >= Rank[MinLevel]
      BY <1>4 DEF Enabled
    <2>. HIDE DEF fs, lv
    <2>4. line.by = h /\ line.attr = a /\ line.level = lv /\ line.fields = fs
      OBVIOUS
    <2>. HIDE DEF line
    <2>5. LineAs(line, origin)
      BY <1>3, <2>2, <2>3, <2>4 DEF LineAs
    <2>6. DOMAIN sline' = {1} /\ sline'[1] = line
      BY <2>1
    <2>7. \A n \in DOMAIN sline' : LineAs(sline'[n], origin')
      BY <1>2, <2>5, <2>6
    <2> QED BY <1>2, <2>7 DEF SlogInv, Derivable
  <1>5. CASE ~Enabled(l)
    <2>1. sline' = sline
      BY <1>1, <1>5
    <2> QED BY <1>2, <2>1 DEF SlogInv, Derivable
  <1> QED BY <1>4, <1>5

LEMMA SlogKeeps == SlogInv /\ SlogNext => SlogInv'
  BY WithAttrsKeeps, WithGroupKeeps, HandleKeeps DEF SlogNext

LEMMA SlogUnchanged == SlogInv /\ UNCHANGED slogVars => SlogInv'
  BY DEF SlogInv, Derivable, slogVars


-----------------------------------------------------------------------------
(* Samplers (sampling/).                                                      *)

SamplerKinds == {"count", "time", "level", "adaptive", "backpressure"}
Positive == Nat \ {0}
IsSampler(c) ==
    /\ c = [kind |-> c.kind, denom |-> c.denom, max |-> c.max, byLevel |-> c.byLevel, base |-> c.base,
            min |-> c.min, top |-> c.top, boost |-> c.boost]
    /\ c.kind \in SamplerKinds /\ c.denom \in Positive /\ c.max \in Positive /\ c.base \in Positive
    /\ c.min \in Positive /\ c.top \in Positive /\ c.boost \in Positive
    /\ \A l \in DOMAIN c.byLevel : c.byLevel[l] \in Int
TallyState == [kept : [Levels -> Nat], errors : Nat, errorsKept : Nat, sampled : Nat, dropped : Nat,
               tuned : BOOLEAN, adjusted : BOOLEAN]
Deciding == {t \in SampleCallers : deciding[t] # "none"}
\* The least rate that an adjustment can lead to.
LeastRate == IF scfg.min <= scfg.top THEN scfg.min ELSE scfg.top
OneIn(l) == IF scfg.kind = "backpressure" THEN KeepOneIn(fill) ELSE Denominator(l)

SamplingTypes ==
    /\ IsSampler(scfg) /\ counters \in [Levels -> Nat] /\ window \in Nat
    /\ recent \in [at : 0 .. Recent - 1, rates : [0 .. Recent - 1 -> Nat]]
    /\ fill \in Int /\ samples \in Nat /\ tally \in TallyState
    /\ deciding \in [SampleCallers -> Levels \union {"none"}]
ShareIsKept == ~tally.tuned /\ scfg.kind \in {"count", "level", "backpressure"} =>
                \A l \in Levels \ {"error"} : tally.kept[l] = counters[l] \div OneIn(l)
ErrorsPass == tally.errorsKept = tally.errors
WindowHolds == scfg.kind = "time" /\ ~tally.tuned => window <= scfg.max
RatesBounded ==
    /\ \A i \in 0 .. Recent - 1 : recent.rates[i] # 0 => LeastRate <= recent.rates[i] /\ recent.rates[i] <= scfg.top
    /\ tally.adjusted => LeastRate <= arate /\ arate <= scfg.top
DecisionsCounted ==
    /\ scfg.kind # "adaptive" => Deciding = {}
    /\ scfg.kind = "adaptive" /\ ~tally.tuned => tally.sampled + tally.dropped + Cardinality(Deciding) = samples

SamplingInv == /\ SamplingTypes /\ ShareIsKept /\ ErrorsPass /\ WindowHolds /\ RatesBounded /\ DecisionsCounted
LEMMA SamplingMeans == SamplingInv => SamplersKeepTheirWord
  <1>. SUFFICES ASSUME SamplingInv PROVE SamplersKeepTheirWord
    OBVIOUS
  <1>1. tally.adjusted => arate <= scfg.top /\ (scfg.min <= scfg.top => scfg.min <= arate)
    BY DEF SamplingInv, RatesBounded, LeastRate
  <1>2. scfg.kind = "adaptive" /\ ~tally.tuned => tally.sampled + tally.dropped + Cardinality(Deciding) = samples
    BY DEF SamplingInv, DecisionsCounted
  <1>3. ~tally.tuned =>
         \A l \in Levels \ {"error"} :
            LET n == IF scfg.kind = "backpressure" THEN KeepOneIn(fill) ELSE Denominator(l)
            IN  scfg.kind \in {"count", "level", "backpressure"} => tally.kept[l] = counters[l] \div n
    BY DEF SamplingInv, ShareIsKept, OneIn
  <1>4. tally.errorsKept = tally.errors /\ (scfg.kind = "time" /\ ~tally.tuned => window <= scfg.max)
    BY DEF SamplingInv, ErrorsPass, WindowHolds
  <1> QED BY <1>1, <1>2, <1>3, <1>4 DEF SamplersKeepTheirWord, Deciding

LEMMA ZeroShare == ASSUME NEW n \in Positive PROVE 0 \div n = 0
  <1>1. 0 = n * (0 \div n) + (0 % n) /\ 0 % n \in 0 .. n - 1 /\ 0 \div n \in Int
    BY DEF Positive
  <1>. DEFINE q == 0 \div n
              r == 0 % n
  <1>. HIDE DEF q, r
  <1>2. n * q + r = 0 /\ r \in 0 .. n - 1 /\ q \in Int /\ n \in Nat /\ n > 0
    BY <1>1 DEF q, r, Positive
  <1>3. ASSUME q >= 1 PROVE FALSE
    <2>1. n * q >= n
      BY <1>2, <1>3
    <2> QED BY <1>2, <2>1
  <1>4. ASSUME q <= -1 PROVE FALSE
    <2>1. n * q <= -n
      BY <1>2, <1>4
    <2> QED BY <1>2, <2>1
  <1> QED BY <1>2, <1>3, <1>4 DEF q

LEMMA OneInPositive ==
  ASSUME IsSampler(scfg), fill \in Int, NEW l
  PROVE  OneIn(l) \in Positive
  <1>1. KeepOneIn(fill) \in Positive
    <2>. DEFINE left == HighWater - fill
                n == (2 * (HighWater - LowWater) + left) \div (2 * left)
    <2>1. CASE fill >= HighWater
      BY <2>1, SamplingAssumption DEF KeepOneIn, Positive
    <2>2. CASE fill < HighWater
      <3>1. left \in Nat /\ left > 0
        BY <2>2 DEF HighWater
      <3>2. n \in Int
        BY <3>1 DEF HighWater, LowWater
      <3>3. KeepOneIn(fill) = IF n < 1 THEN 1 ELSE IF n > FloorKeep THEN FloorKeep ELSE n
        BY <2>2, <3>1 DEF KeepOneIn, HighWater
      <3>. HIDE DEF n
      <3> QED BY <3>2, <3>3, SamplingAssumption DEF Positive
    <2>3. fill < HighWater \/ fill >= HighWater
      BY DEF HighWater
    <2> QED BY <2>1, <2>2, <2>3
  <1>2. Denominator(l) \in Positive
    BY DEF Denominator, IsSampler, Positive
  <1> QED BY <1>1, <1>2 DEF OneIn

LEMMA SamplingStart == SamplingInit => SamplingInv
  <1>. SUFFICES ASSUME SamplingInit PROVE SamplingInv
    OBVIOUS
  <1>1. PICK c \in SamplerConfigs : scfg = WithDefaults(c)
    BY DEF SamplingInit
  <1>2. /\ c.kind \in SamplerKinds /\ \A l \in DOMAIN c.byLevel : c.byLevel[l] \in Int
        /\ c.denom \in Int /\ c.max \in Int /\ c.base \in Int /\ c.min \in Int /\ c.top \in Int /\ c.boost \in Int
    BY SamplingAssumption DEF SamplerKinds
  <1>3. \A x \in Int : Or(x, 10) \in Positive /\ Or(x, 100) \in Positive /\ Or(x, 1) \in Positive
    BY DEF Or, Positive
  <1>4. IsSampler(scfg)
    <2>1. /\ scfg.kind = c.kind /\ scfg.byLevel = c.byLevel /\ scfg.denom = Or(c.denom, 10) /\ scfg.max = Or(c.max, 100)
          /\ scfg.base = Or(c.base, 10) /\ scfg.min = Or(c.min, 1) /\ scfg.top = Or(c.top, 100)
          /\ scfg.boost = Or(c.boost, 10)
          /\ scfg = [kind |-> scfg.kind, denom |-> scfg.denom, max |-> scfg.max, byLevel |-> scfg.byLevel,
                     base |-> scfg.base, min |-> scfg.min, top |-> scfg.top, boost |-> scfg.boost]
      BY <1>1 DEF WithDefaults
    <2> QED BY <1>2, <1>3, <2>1 DEF IsSampler
  <1>5. /\ recent \in [at : 0 .. Recent - 1, rates : [0 .. Recent - 1 -> Nat]]
        /\ \A i \in 0 .. Recent - 1 : recent.rates[i] = 0
    BY SamplingAssumption DEF SamplingInit
  <1>6. fill \in Int
    BY SamplingAssumption DEF SamplingInit
  <1>7. tally \in TallyState /\ ~tally.tuned /\ ~tally.adjusted /\ tally.errors = tally.errorsKept
        /\ tally.sampled = 0 /\ tally.dropped = 0 /\ \A l \in Levels : tally.kept[l] = 0
    BY DEF SamplingInit, NoTally, TallyState
  <1>8. SamplingTypes
    BY <1>4, <1>5, <1>6, <1>7 DEF SamplingTypes, SamplingInit
  <1>9. ShareIsKept
    <2>1. \A l \in Levels : counters[l] = 0 /\ OneIn(l) \in Positive
      BY <1>4, <1>6, OneInPositive DEF SamplingInit
    <2> QED BY <1>7, <2>1, ZeroShare DEF ShareIsKept
  <1>10. WindowHolds
    BY <1>4 DEF WindowHolds, SamplingInit, IsSampler, Positive
  <1>11. Deciding = {} /\ Cardinality(Deciding) = 0
    BY FS_EmptySet DEF SamplingInit, Deciding
  <1> QED BY <1>5, <1>7, <1>8, <1>9, <1>10, <1>11
          DEF SamplingInv, ErrorsPass, RatesBounded, DecisionsCounted, SamplingInit

LEMMA TallyFields ==
  ASSUME tally \in TallyState
  PROVE  /\ tally = [kept |-> tally.kept, errors |-> tally.errors, errorsKept |-> tally.errorsKept,
                     sampled |-> tally.sampled, dropped |-> tally.dropped, tuned |-> tally.tuned,
                     adjusted |-> tally.adjusted]
         /\ tally.kept \in [Levels -> Nat] /\ tally.errors \in Nat /\ tally.errorsKept \in Nat
         /\ tally.sampled \in Nat /\ tally.dropped \in Nat /\ tally.tuned \in BOOLEAN /\ tally.adjusted \in BOOLEAN
  BY DEF TallyState

\* A line counted by a counter at its own share.
LEMMA CountedKeeps ==
  ASSUME SamplingInv, NEW ctr \in Levels, NEW n, n = OneIn(ctr), CountedBy(ctr, n), scfg' = scfg, fill' = fill
  PROVE  /\ counters' \in [Levels -> Nat] /\ tally' \in TallyState /\ ShareIsKept'
         /\ tally'.errors = tally.errors /\ tally'.errorsKept = tally.errorsKept /\ tally'.sampled = tally.sampled
         /\ tally'.dropped = tally.dropped /\ tally'.tuned = tally.tuned /\ tally'.adjusted = tally.adjusted
  <1>0. /\ tally \in TallyState /\ counters \in [Levels -> Nat] /\ IsSampler(scfg) /\ fill \in Int
    BY DEF SamplingInv, SamplingTypes
  <1>1. n \in Positive
    BY <1>0, OneInPositive
  <1>2. /\ counters' = [counters EXCEPT ![ctr] = counters[ctr] + 1]
        /\ counters' \in [Levels -> Nat] /\ counters'[ctr] = counters[ctr] + 1
        /\ \A l \in Levels : l # ctr => counters'[l] = counters[l]
    BY <1>0 DEF CountedBy
  <1>. DEFINE k == IF Keeps(counters'[ctr], n) THEN tally.kept[ctr] + 1 ELSE tally.kept[ctr]
              kept == [tally.kept EXCEPT ![ctr] = k]
  <1>3. tally.kept \in [Levels -> Nat] /\ tally.kept[ctr] \in Nat
    BY <1>0, TallyFields
  <1>4. k \in Nat
    BY <1>3
  <1>5. kept \in [Levels -> Nat] /\ kept[ctr] = k /\ \A l \in Levels : l # ctr => kept[l] = tally.kept[l]
    BY <1>3, <1>4
  <1>6. tally' = [tally EXCEPT !.kept = kept]
    BY <1>0, <1>3 DEF CountedBy, TallyState
  <1>. HIDE DEF k, kept
  <1>7. /\ tally' = [kept |-> kept, errors |-> tally.errors, errorsKept |-> tally.errorsKept,
                     sampled |-> tally.sampled, dropped |-> tally.dropped, tuned |-> tally.tuned,
                     adjusted |-> tally.adjusted]
    BY <1>0, <1>6 DEF TallyState
  <1>8. tally' \in TallyState /\ tally'.kept = kept
    <2>1. tally.errors \in Nat /\ tally.errorsKept \in Nat
         /\ tally.sampled \in Nat /\ tally.dropped \in Nat /\ tally.tuned \in BOOLEAN /\ tally.adjusted \in BOOLEAN
      BY <1>0, TallyFields
    <2> QED BY <1>5, <1>7, <2>1 DEF TallyState
  <1>9. tally'.tuned = tally.tuned
    BY <1>7
  <1>10. ShareIsKept'
    <2>. SUFFICES ASSUME ~tally.tuned, scfg.kind \in {"count", "level", "backpressure"},
                         NEW l \in Levels \ {"error"}
                  PROVE  kept[l] = counters'[l] \div OneIn(l)
      BY <1>8, <1>9 DEF ShareIsKept, OneIn, Denominator
    <2>1. tally.kept[l] = counters[l] \div OneIn(l)
      BY DEF SamplingInv, ShareIsKept
    <2>2. CASE l = ctr
      <3>1. counters[ctr] \in Nat /\ n \in Nat \ {0}
        BY <1>0, <1>1 DEF Positive
      <3>2. (counters[ctr] + 1) \div n = IF (counters[ctr] + 1) % n = 0 THEN counters[ctr] \div n + 1
                                          ELSE counters[ctr] \div n
        BY <3>1, DivStep
      <3>3. tally.kept[ctr] = counters[ctr] \div n
        BY <2>1, <2>2
      <3>4. k = IF (counters[ctr] + 1) % n = 0 THEN tally.kept[ctr] + 1 ELSE tally.kept[ctr]
        BY <1>2 DEF k, Keeps
      <3>5. kept[l] = k /\ counters'[l] = counters[ctr] + 1 /\ OneIn(l) = n
        BY <1>2, <1>5, <2>2
      <3> QED BY <3>2, <3>3, <3>4, <3>5
    <2>3. CASE l # ctr
      BY <1>2, <1>5, <2>1, <2>3
    <2> QED BY <2>2, <2>3
  <1> QED BY <1>2, <1>7, <1>8, <1>10

\* An error passes.
LEMMA PassingKeeps ==
  ASSUME SamplingInv, ErrorPasses, scfg' = scfg, fill' = fill
  PROVE  /\ tally' \in TallyState /\ ShareIsKept' /\ ErrorsPass' /\ counters' = counters /\ window' = window
         /\ tally'.sampled = tally.sampled
         /\ tally'.dropped = tally.dropped /\ tally'.tuned = tally.tuned /\ tally'.adjusted = tally.adjusted
  <1>0. tally \in TallyState
    BY DEF SamplingInv, SamplingTypes
  <1>1. tally' = [kept |-> tally.kept, errors |-> tally.errors + 1, errorsKept |-> tally.errorsKept + 1,
                  sampled |-> tally.sampled, dropped |-> tally.dropped, tuned |-> tally.tuned,
                  adjusted |-> tally.adjusted]
    BY <1>0 DEF ErrorPasses, TallyState
  <1>2. tally.errors + 1 \in Nat /\ tally.errorsKept + 1 \in Nat
    BY <1>0, TallyFields
  <1>3. tally' \in TallyState
    <2>1. tally.kept \in [Levels -> Nat]
         /\ tally.sampled \in Nat /\ tally.dropped \in Nat /\ tally.tuned \in BOOLEAN /\ tally.adjusted \in BOOLEAN
      BY <1>0, TallyFields
    <2> QED BY <1>1, <1>2, <2>1 DEF TallyState
  <1>4. counters' = counters /\ window' = window
    BY DEF ErrorPasses
  <1>5. tally'.tuned = tally.tuned /\ tally'.kept = tally.kept
    BY <1>1
  <1>6. ShareIsKept'
    <2>1. ShareIsKept
      BY DEF SamplingInv
    <2> QED BY <2>1, <1>4, <1>5 DEF ShareIsKept, OneIn, Denominator
  <1>7. ErrorsPass'
    BY <1>1 DEF SamplingInv, ErrorsPass
  <1> QED BY <1>1, <1>3, <1>4, <1>6, <1>7

\* What a call that decides one line at once leaves to be shown.
LEMMA LineKeeps ==
  ASSUME SamplingInv, SampleCall, scfg.kind # "adaptive",
         UNCHANGED <<scfg, arate, recent, fill, deciding, tunes>>,
         counters' \in [Levels -> Nat], window' \in Nat, tally' \in TallyState, ShareIsKept', ErrorsPass', WindowHolds',
         tally'.adjusted = tally.adjusted
  PROVE  SamplingInv'
  <1>1. SamplingTypes'
    BY DEF SamplingInv, SamplingTypes, SampleCall, IsSampler
  <1>2. RatesBounded'
    BY DEF SamplingInv, RatesBounded, LeastRate
  <1>3. DecisionsCounted'
    BY DEF SamplingInv, DecisionsCounted, Deciding
  <1> QED BY <1>1, <1>2, <1>3 DEF SamplingInv

LEMMA CountKeeps == ASSUME SamplingInv, NEW l \in Levels, SampleByCount(l) PROVE SamplingInv'
  <1>1. /\ scfg.kind \in {"count", "level"} /\ SampleCall
        /\ UNCHANGED <<scfg, arate, recent, fill, deciding, tunes>>
    BY DEF SampleByCount
  <1>2. counters \in [Levels -> Nat] /\ window \in Nat
    BY DEF SamplingInv, SamplingTypes
  <1>3. CASE l = "error"
    <2>1. ErrorPasses
      BY <1>3 DEF SampleByCount
    <2>2. /\ tally' \in TallyState /\ ShareIsKept' /\ ErrorsPass' /\ counters' = counters /\ window' = window
          /\ tally'.adjusted = tally.adjusted
      BY <1>1, <2>1, PassingKeeps
    <2>3. WindowHolds'
      BY <1>1 DEF WindowHolds
    <2> QED BY <1>1, <1>2, <2>2, <2>3, LineKeeps
  <1>4. CASE l # "error"
    <2>1. CountedBy(CounterOf(l), Denominator(l)) /\ window' = window
      BY <1>4 DEF SampleByCount
    <2>2. CounterOf(l) \in Levels /\ Denominator(l) = OneIn(CounterOf(l))
      BY <1>1 DEF CounterOf, Denominator, OneIn, Levels
    <2>3. /\ counters' \in [Levels -> Nat] /\ tally' \in TallyState /\ ShareIsKept' /\ tally'.adjusted = tally.adjusted
          /\ tally'.errors = tally.errors /\ tally'.errorsKept = tally.errorsKept
      BY <1>1, <2>1, <2>2, CountedKeeps
    <2>4. WindowHolds' /\ ErrorsPass'
      BY <1>1, <2>3 DEF WindowHolds, ErrorsPass, SamplingInv
    <2> QED BY <1>1, <1>2, <2>1, <2>3, <2>4, LineKeeps
  <1> QED BY <1>3, <1>4

LEMMA PressureKeeps == ASSUME SamplingInv, NEW l \in Levels, SampleByPressure(l) PROVE SamplingInv'
  <1>1. /\ scfg.kind = "backpressure" /\ SampleCall
        /\ UNCHANGED <<scfg, arate, recent, fill, deciding, tunes>>
    BY DEF SampleByPressure
  <1>2. counters \in [Levels -> Nat] /\ window \in Nat /\ tally \in TallyState
    BY DEF SamplingInv, SamplingTypes
  <1>3. CASE l = "error"
    <2>1. ErrorPasses
      BY <1>3 DEF SampleByPressure
    <2>2. /\ tally' \in TallyState /\ ShareIsKept' /\ ErrorsPass' /\ counters' = counters /\ window' = window
          /\ tally'.adjusted = tally.adjusted
      BY <1>1, <2>1, PassingKeeps
    <2>3. WindowHolds'
      BY <1>1 DEF WindowHolds
    <2> QED BY <1>1, <1>2, <2>2, <2>3, LineKeeps
  <1>4. CASE l # "error" /\ fill <= LowWater
    <2>1. counters' = counters /\ tally' = tally /\ window' = window
      BY <1>4 DEF SampleByPressure
    <2>2. WindowHolds' /\ ErrorsPass' /\ ShareIsKept'
      BY <1>1, <2>1 DEF WindowHolds, ErrorsPass, ShareIsKept, OneIn, SamplingInv
    <2> QED BY <1>1, <1>2, <2>1, <2>2, LineKeeps
  <1>5. CASE l # "error" /\ ~(fill <= LowWater)
    <2>1. CountedBy("info", KeepOneIn(fill)) /\ window' = window
      BY <1>5 DEF SampleByPressure
    <2>2. "info" \in Levels /\ KeepOneIn(fill) = OneIn("info")
      BY <1>1 DEF OneIn, Levels
    <2>3. /\ counters' \in [Levels -> Nat] /\ tally' \in TallyState /\ ShareIsKept' /\ tally'.adjusted = tally.adjusted
          /\ tally'.errors = tally.errors /\ tally'.errorsKept = tally.errorsKept
      BY <1>1, <2>1, <2>2, CountedKeeps
    <2>4. WindowHolds' /\ ErrorsPass'
      BY <1>1, <2>3 DEF WindowHolds, ErrorsPass, SamplingInv
    <2> QED BY <1>1, <1>2, <2>1, <2>3, <2>4, LineKeeps
  <1> QED BY <1>3, <1>4, <1>5

LEMMA TimeKeeps ==
  ASSUME SamplingInv, NEW l \in Levels, NEW e \in BOOLEAN, SampleByTime(l, e) PROVE SamplingInv'
  <1>1. /\ scfg.kind = "time" /\ SampleCall
        /\ UNCHANGED <<scfg, arate, recent, fill, deciding, tunes>>
    BY DEF SampleByTime
  <1>2. counters \in [Levels -> Nat] /\ window \in Nat /\ tally \in TallyState
    BY DEF SamplingInv, SamplingTypes
  <1>3. CASE l = "error"
    <2>1. ErrorPasses
      BY <1>3 DEF SampleByTime
    <2>2. /\ tally' \in TallyState /\ ShareIsKept' /\ ErrorsPass' /\ counters' = counters /\ window' = window
          /\ tally'.adjusted = tally.adjusted /\ tally'.tuned = tally.tuned
      BY <1>1, <2>1, PassingKeeps
    <2>3. WindowHolds'
      BY <1>1, <2>2 DEF WindowHolds, SamplingInv
    <2> QED BY <1>1, <1>2, <2>2, <2>3, LineKeeps
  <1>4. CASE l # "error"
    <2>. DEFINE w == IF e THEN 0 ELSE window
    <2>1. counters' = counters /\ tally' = tally /\ window' = IF w >= scfg.max THEN w ELSE w + 1
      BY <1>4 DEF SampleByTime
    <2>2. ErrorsPass' /\ ShareIsKept'
      BY <1>1, <2>1 DEF ErrorsPass, ShareIsKept, SamplingInv
    <2>3. scfg.max \in Nat /\ scfg.max > 0
      BY DEF SamplingInv, SamplingTypes, IsSampler, Positive
    <2>4. w \in Nat /\ (~tally.tuned => w <= scfg.max)
      BY <1>1, <1>2, <2>3 DEF SamplingInv, WindowHolds
    <2>. HIDE DEF w
    <2>5. window' \in Nat /\ (~tally.tuned => window' <= scfg.max)
      BY <2>1, <2>3, <2>4
    <2>6. WindowHolds'
      BY <1>1, <2>1, <2>5 DEF WindowHolds
    <2> QED BY <1>1, <1>2, <2>1, <2>2, <2>5, <2>6, LineKeeps
  <1> QED BY <1>3, <1>4

\* A setting changes: what was kept before says nothing of the new share.
LEMMA TunedKeeps ==
  ASSUME SamplingInv, tally' = [tally EXCEPT !.tuned = TRUE]
  PROVE  tally' \in TallyState /\ tally'.tuned /\ ErrorsPass' /\ ShareIsKept' /\ WindowHolds'
         /\ tally'.adjusted = tally.adjusted
  <1>0. tally \in TallyState
    BY DEF SamplingInv, SamplingTypes
  <1>1. tally' = [kept |-> tally.kept, errors |-> tally.errors, errorsKept |-> tally.errorsKept,
                  sampled |-> tally.sampled, dropped |-> tally.dropped, tuned |-> TRUE,
                  adjusted |-> tally.adjusted]
    BY <1>0 DEF TallyState
  <1>2. tally' \in TallyState
    <2>1. tally.kept \in [Levels -> Nat] /\ tally.errors \in Nat /\ tally.errorsKept \in Nat
         /\ tally.sampled \in Nat /\ tally.dropped \in Nat /\ tally.adjusted \in BOOLEAN
      BY <1>0, TallyFields
    <2> QED BY <1>1, <2>1 DEF TallyState
  <1>3. ErrorsPass'
    BY <1>1 DEF SamplingInv, ErrorsPass
  <1>4. tally'.tuned /\ tally'.adjusted = tally.adjusted
    BY <1>1
  <1> QED BY <1>2, <1>3, <1>4 DEF ShareIsKept, WindowHolds

\* A hundred lines at one in r, for a rate r of 1 to 100 percent.
LEMMA Percent == ASSUME NEW r \in 1 .. 100 PROVE 100 \div r \in Positive
  <1>. DEFINE q == 100 \div r
              m == 100 % r
  <1>1. 100 = r * q + m /\ m \in 0 .. r - 1 /\ q \in Int
    OBVIOUS
  <1>. HIDE DEF q, m
  <1>2. ASSUME q <= 0 PROVE FALSE
    <2>1. r * q <= 0
      BY <1>1, <1>2
    <2> QED BY <1>1, <2>1
  <1> QED BY <1>1, <1>2 DEF q, Positive

LEMMA SetRateKeeps == ASSUME SamplingInv, NEW pct \in NewRates, SetRate(pct) PROVE SamplingInv'
  <1>. DEFINE r == IF pct <= 0 THEN 1 ELSE IF pct > 100 THEN 100 ELSE pct
  <1>0. r \in 1 .. 100
    BY SamplingAssumption
  <1>1. /\ scfg.kind \in {"count", "time", "level"} /\ tally' = [tally EXCEPT !.tuned = TRUE]
        /\ UNCHANGED <<counters, window, arate, recent, fill, deciding, samples>>
        /\ scfg' = CASE scfg.kind = "count" -> [scfg EXCEPT !.denom = 100 \div r]
                     [] scfg.kind = "time" -> [scfg EXCEPT !.max = r]
                     [] OTHER -> [scfg EXCEPT !.byLevel =
                                    [l \in DOMAIN @ |-> IF @[l] > 0 THEN 100 \div r ELSE @[l]]]
    BY DEF SetRate
  <1>2. tally' \in TallyState /\ tally'.tuned /\ ErrorsPass' /\ ShareIsKept' /\ WindowHolds'
        /\ tally'.adjusted = tally.adjusted
    BY <1>1, TunedKeeps
  <1>3. IsSampler(scfg)
    BY DEF SamplingInv, SamplingTypes
  <1>. HIDE DEF r
  <1>4. 100 \div r \in Positive /\ r \in Positive
    BY <1>0, Percent DEF Positive
  <1>5. IsSampler(scfg') /\ scfg'.kind = scfg.kind /\ scfg'.min = scfg.min /\ scfg'.top = scfg.top
    <2>1. CASE scfg.kind = "count"
      <3>1. scfg' = [scfg EXCEPT !.denom = 100 \div r]
        BY <1>1, <2>1
      <3>2. scfg' = [kind |-> scfg.kind, denom |-> 100 \div r, max |-> scfg.max, byLevel |-> scfg.byLevel,
                     base |-> scfg.base, min |-> scfg.min, top |-> scfg.top, boost |-> scfg.boost]
        BY <1>3, <3>1 DEF IsSampler
      <3> QED BY <1>3, <1>4, <3>2 DEF IsSampler
    <2>2. CASE scfg.kind = "time"
      <3>1. scfg' = [scfg EXCEPT !.max = r]
        BY <1>1, <2>2
      <3>2. scfg' = [kind |-> scfg.kind, denom |-> scfg.denom, max |-> r, byLevel |-> scfg.byLevel,
                     base |-> scfg.base, min |-> scfg.min, top |-> scfg.top, boost |-> scfg.boost]
        BY <1>3, <3>1 DEF IsSampler
      <3> QED BY <1>3, <1>4, <3>2 DEF IsSampler
    <2>3. CASE scfg.kind = "level"
      <3>. DEFINE b == [l \in DOMAIN scfg.byLevel |-> IF scfg.byLevel[l] > 0 THEN 100 \div r ELSE scfg.byLevel[l]]
      <3>1. scfg' = [scfg EXCEPT !.byLevel = b]
        BY <1>1, <1>3, <2>3 DEF IsSampler
      <3>2. \A l \in DOMAIN b : b[l] \in Int
        BY <1>3, <1>4 DEF IsSampler, Positive
      <3>. HIDE DEF b
      <3>3. scfg' = [kind |-> scfg.kind, denom |-> scfg.denom, max |-> scfg.max, byLevel |-> b,
                     base |-> scfg.base, min |-> scfg.min, top |-> scfg.top, boost |-> scfg.boost]
        BY <1>3, <3>1 DEF IsSampler
      <3> QED BY <1>3, <3>2, <3>3 DEF IsSampler
    <2> QED BY <1>1, <2>1, <2>2, <2>3
  <1>6. SamplingTypes'
    BY <1>1, <1>2, <1>5 DEF SamplingInv, SamplingTypes
  <1>7. RatesBounded'
    BY <1>1, <1>2, <1>5 DEF SamplingInv, RatesBounded, LeastRate
  <1>8. DecisionsCounted'
    BY <1>1, <1>5, <1>2 DEF SamplingInv, DecisionsCounted, Deciding
  <1> QED BY <1>2, <1>6, <1>7, <1>8 DEF SamplingInv

LEMMA OccupancyKeeps == ASSUME SamplingInv, NEW f \in Fills, OccupancyChanges(f) PROVE SamplingInv'
  <1>1. /\ scfg.kind = "backpressure" /\ tally' = [tally EXCEPT !.tuned = TRUE] /\ fill' = f
        /\ UNCHANGED <<scfg, counters, window, arate, recent, deciding, samples>>
    BY DEF OccupancyChanges
  <1>2. tally' \in TallyState /\ tally'.tuned /\ ErrorsPass' /\ ShareIsKept' /\ WindowHolds'
        /\ tally'.adjusted = tally.adjusted
    BY <1>1, TunedKeeps
  <1>3. SamplingTypes'
    BY <1>1, <1>2, SamplingAssumption DEF SamplingInv, SamplingTypes, IsSampler
  <1>4. RatesBounded'
    BY <1>1, <1>2 DEF SamplingInv, RatesBounded, LeastRate
  <1>5. DecisionsCounted'
    BY <1>1, <1>2 DEF SamplingInv, DecisionsCounted, Deciding
  <1> QED BY <1>2, <1>3, <1>4, <1>5 DEF SamplingInv

LEMMA ResetKeeps == ASSUME SamplingInv, AdaptiveReset PROVE SamplingInv'
  <1>1. /\ scfg.kind = "adaptive" /\ tally' = [NoTally EXCEPT !.tuned = TRUE] /\ counters' = [l \in Levels |-> 0]
        /\ recent' = [at |-> 0, rates |-> [i \in 0 .. Recent - 1 |-> 0]]
        /\ UNCHANGED <<scfg, window, fill, deciding, samples>>
    BY DEF AdaptiveReset
  <1>2. tally' \in TallyState /\ tally'.tuned /\ ~tally'.adjusted /\ tally'.errors = 0 /\ tally'.errorsKept = 0
    BY <1>1 DEF NoTally, TallyState
  <1>3. /\ recent' \in [at : 0 .. Recent - 1, rates : [0 .. Recent - 1 -> Nat]]
        /\ \A i \in 0 .. Recent - 1 : recent'.rates[i] = 0
    BY <1>1, SamplingAssumption
  <1>4. SamplingTypes'
    BY <1>1, <1>2, <1>3 DEF SamplingInv, SamplingTypes, IsSampler
  <1>5. RatesBounded'
    BY <1>1, <1>2, <1>3 DEF RatesBounded
  <1>6. DecisionsCounted'
    BY <1>1, <1>2 DEF SamplingInv, DecisionsCounted, Deciding
  <1> QED BY <1>1, <1>2, <1>4, <1>5, <1>6 DEF SamplingInv, ErrorsPass, ShareIsKept, WindowHolds

\* The clamp, whichever way the bounds lie.
LEMMA ClampHolds ==
  ASSUME IsSampler(scfg), NEW r \in Int
  PROVE  Clamped(r) \in Positive /\ LeastRate <= Clamped(r) /\ Clamped(r) <= scfg.top
  BY DEF IsSampler, Clamped, LeastRate, Positive

\* A mean of values within bounds is within them.
LEMMA MeanWithin ==
  ASSUME NEW s \in Int, NEW c \in Nat, c > 0, NEW lo \in Int, NEW hi \in Int, lo * c <= s, s <= hi * c
  PROVE  lo <= s \div c /\ s \div c <= hi
  <1>. DEFINE q == s \div c
              m == s % c
  <1>1. s = c * q + m /\ m \in 0 .. c - 1 /\ q \in Int
    OBVIOUS
  <1>. HIDE DEF q, m
  <1>2. ASSUME q <= lo - 1 PROVE FALSE
    <2>1. c * q <= c * (lo - 1)
      BY <1>1, <1>2
    <2>2. c * (lo - 1) = lo * c - c
      OBVIOUS
    <2> QED BY <1>1, <2>1, <2>2
  <1>3. ASSUME q >= hi + 1 PROVE FALSE
    <2>1. c * q >= c * (hi + 1)
      BY <1>1, <1>3
    <2>2. c * (hi + 1) = hi * c + c
      OBVIOUS
    <2> QED BY <1>1, <2>1, <2>2
  <1> QED BY <1>1, <1>2, <1>3 DEF q

\* The rate after an adjustment, and the rates it is smoothed over, are within bounds.
LEMMA AdjustedWithin ==
  ASSUME SamplingInv, AdjustRate
  PROVE  /\ recent' \in [at : 0 .. Recent - 1, rates : [0 .. Recent - 1 -> Nat]]
         /\ \A i \in 0 .. Recent - 1 : recent'.rates[i] # 0 => LeastRate <= recent'.rates[i] /\ recent'.rates[i] <= scfg.top
         /\ LeastRate <= arate' /\ arate' <= scfg.top
  <1>1. PICK raw \in RawRates :
           LET kept == [recent.rates EXCEPT ![recent.at] = Clamped(raw)]
               some == {i \in DOMAIN kept : kept[i] > 0}
           IN  /\ recent' = [at |-> (recent.at + 1) % Recent, rates |-> kept]
               /\ arate' = MapThenSumSet(LAMBDA i : kept[i], some) \div Cardinality(some)
    BY DEF AdjustRate
  <1>. DEFINE kept == [recent.rates EXCEPT ![recent.at] = Clamped(raw)]
              some == {i \in DOMAIN kept : kept[i] > 0}
  <1>2. /\ recent' = [at |-> (recent.at + 1) % Recent, rates |-> kept]
        /\ arate' = MapThenSumSet(LAMBDA i : kept[i], some) \div Cardinality(some)
    BY <1>1
  <1>3. IsSampler(scfg) /\ recent.at \in 0 .. Recent - 1 /\ recent.rates \in [0 .. Recent - 1 -> Nat]
    BY DEF SamplingInv, SamplingTypes
  <1>4. Clamped(raw) \in Positive /\ LeastRate <= Clamped(raw) /\ Clamped(raw) <= scfg.top
    BY <1>3, ClampHolds, SamplingAssumption
  <1>5. /\ kept \in [0 .. Recent - 1 -> Nat] /\ kept[recent.at] = Clamped(raw)
        /\ \A i \in 0 .. Recent - 1 : i # recent.at => kept[i] = recent.rates[i]
    BY <1>3, <1>4 DEF Positive
  <1>6. \A i \in 0 .. Recent - 1 : kept[i] # 0 => LeastRate <= kept[i] /\ kept[i] <= scfg.top
    <2>1. \A i \in 0 .. Recent - 1 : recent.rates[i] # 0 => LeastRate <= recent.rates[i] /\ recent.rates[i] <= scfg.top
      BY DEF SamplingInv, RatesBounded
    <2>. HIDE DEF kept
    <2> QED BY <2>1, <1>4, <1>5
  <1>7. ((recent.at + 1) % Recent) \in 0 .. Recent - 1
    BY <1>3, SamplingAssumption
  <1>. HIDE DEF kept
  <1>8. /\ some \subseteq 0 .. Recent - 1 /\ recent.at \in some
        /\ \A i \in some : kept[i] \in Int /\ LeastRate <= kept[i] /\ kept[i] <= scfg.top
    BY <1>3, <1>4, <1>5, <1>6 DEF Positive
  <1>. HIDE DEF some
  <1>9. IsFiniteSet(some) /\ Cardinality(some) \in Nat /\ Cardinality(some) > 0
    <2>1. IsFiniteSet(0 .. Recent - 1)
      BY FS_Interval, SamplingAssumption
    <2>2. IsFiniteSet(some)
      BY <1>8, <2>1, FS_Subset
    <2>3. Cardinality(some) \in Nat /\ Cardinality(some) # 0
      BY <1>8, <2>2, FS_CardinalityType, FS_EmptySet
    <2> QED BY <2>2, <2>3
  <1>10. LeastRate \in Int /\ scfg.top \in Int
    BY <1>3 DEF IsSampler, Positive, LeastRate
  <1>11. /\ Total(kept, some) \in Int /\ LeastRate * Cardinality(some) <= Total(kept, some)
         /\ Total(kept, some) <= scfg.top * Cardinality(some)
    BY <1>8, <1>9, <1>10, TotalWithin
  <1>12. arate' = Total(kept, some) \div Cardinality(some)
    BY <1>2, TotalIs
  <1>13. LeastRate <= arate' /\ arate' <= scfg.top
    BY <1>9, <1>10, <1>11, <1>12, MeanWithin
  <1>14. recent'.at = ((recent.at + 1) % Recent) /\ recent'.rates = kept
         /\ recent' = [at |-> ((recent.at + 1) % Recent), rates |-> kept]
    BY <1>2
  <1> QED BY <1>5, <1>6, <1>7, <1>13, <1>14

LEMMA TrackKeeps ==
  ASSUME SamplingInv, NEW t \in SampleCallers, NEW l \in Levels, TrackEntry(t, l) PROVE SamplingInv'
  <1>1. /\ scfg.kind = "adaptive" /\ deciding[t] = "none" /\ SampleCall /\ deciding' = [deciding EXCEPT ![t] = l]
        /\ UNCHANGED <<scfg, counters, window, fill, tunes>>
    BY DEF TrackEntry
  <1>0. tally \in TallyState /\ samples \in Nat /\ deciding \in [SampleCallers -> Levels \union {"none"}]
    BY DEF SamplingInv, SamplingTypes
  <1>2. /\ recent' \in [at : 0 .. Recent - 1, rates : [0 .. Recent - 1 -> Nat]]
        /\ RatesBounded' /\ tally' \in TallyState /\ ErrorsPass'
        /\ tally'.tuned = tally.tuned /\ tally'.sampled = tally.sampled /\ tally'.dropped = tally.dropped
    <2>1. CASE UNCHANGED <<arate, recent, tally>>
      BY <2>1, <1>1 DEF SamplingInv, SamplingTypes, RatesBounded, LeastRate, ErrorsPass
    <2>2. CASE AdjustRate /\ tally' = [tally EXCEPT !.adjusted = TRUE]
      <3>1. tally' = [kept |-> tally.kept, errors |-> tally.errors, errorsKept |-> tally.errorsKept,
                      sampled |-> tally.sampled, dropped |-> tally.dropped, tuned |-> tally.tuned,
                      adjusted |-> TRUE]
        BY <2>2, <1>0 DEF TallyState
      <3>2. tally' \in TallyState
        <4>1. tally.kept \in [Levels -> Nat] /\ tally.errors \in Nat /\ tally.errorsKept \in Nat
             /\ tally.sampled \in Nat /\ tally.dropped \in Nat /\ tally.tuned \in BOOLEAN
          BY <1>0, TallyFields
        <4> QED BY <3>1, <4>1 DEF TallyState
      <3>3. ErrorsPass' /\ tally'.tuned = tally.tuned /\ tally'.sampled = tally.sampled /\ tally'.dropped = tally.dropped
        BY <3>1 DEF SamplingInv, ErrorsPass
      <3>4. /\ recent' \in [at : 0 .. Recent - 1, rates : [0 .. Recent - 1 -> Nat]]
            /\ \A i \in 0 .. Recent - 1 :
                  recent'.rates[i] # 0 => LeastRate <= recent'.rates[i] /\ recent'.rates[i] <= scfg.top
            /\ LeastRate <= arate' /\ arate' <= scfg.top
        BY <2>2, AdjustedWithin
      <3>5. RatesBounded'
        BY <1>1, <3>4 DEF RatesBounded, LeastRate
      <3> QED BY <3>2, <3>3, <3>4, <3>5
    <2> QED BY <2>1, <2>2 DEF TrackEntry
  <1>3. deciding' \in [SampleCallers -> Levels \union {"none"}] /\ samples' \in Nat /\ samples' = samples + 1
    BY <1>0, <1>1 DEF SampleCall
  <1>4. SamplingTypes'
    BY <1>1, <1>2, <1>3 DEF SamplingInv, SamplingTypes, IsSampler
  <1>5. DecisionsCounted'
    <2>1. Deciding' = Deciding \union {t} /\ t \notin Deciding
      <3>1. l # "none"
        BY DEF Levels
      <3> QED BY <1>0, <1>1, <3>1 DEF Deciding
    <2>2. IsFiniteSet(Deciding)
      BY FS_Subset, SamplingAssumption DEF Deciding
    <2>3. Cardinality(Deciding') = Cardinality(Deciding) + 1 /\ Cardinality(Deciding) \in Nat
      BY <2>1, <2>2, FS_AddElement, FS_CardinalityType
    <2>4. ~tally.tuned => tally.sampled + tally.dropped + Cardinality(Deciding) = samples
      BY <1>1 DEF SamplingInv, DecisionsCounted
    <2>5. tally.sampled \in Nat /\ tally.dropped \in Nat
      BY <1>0, TallyFields
    <2>6. ~tally'.tuned => tally'.sampled + tally'.dropped + Cardinality(Deciding') = samples'
      BY <1>0, <1>2, <1>3, <2>3, <2>4, <2>5
    <2> QED BY <1>1, <2>6 DEF DecisionsCounted
  <1>6. ShareIsKept' /\ WindowHolds'
    BY <1>1 DEF ShareIsKept, WindowHolds
  <1> QED BY <1>2, <1>4, <1>5, <1>6 DEF SamplingInv

LEMMA DecideKeeps == ASSUME SamplingInv, NEW t \in SampleCallers, DecideWithRate(t) PROVE SamplingInv'
  <1>0. /\ tally \in TallyState /\ samples \in Nat /\ deciding \in [SampleCallers -> Levels \union {"none"}]
        /\ counters \in [Levels -> Nat]
    BY DEF SamplingInv, SamplingTypes
  <1>. DEFINE r == IF deciding[t] = "error" THEN ErrorRate ELSE arate
              counted == r > 0 /\ r < 100
              keep == r >= 100 \/ (counted /\ Keeps(counters["info"] + 1, 100 \div r))
  <1>1. /\ deciding[t] # "none" /\ deciding' = [deciding EXCEPT ![t] = "none"]
        /\ counters' = IF counted THEN [counters EXCEPT !["info"] = @ + 1] ELSE counters
        /\ tally' = [tally EXCEPT !.sampled = IF keep THEN @ + 1 ELSE @, !.dropped = IF keep THEN @ ELSE @ + 1]
        /\ UNCHANGED <<scfg, window, arate, recent, fill, samples, tunes>>
    BY DEF DecideWithRate
  <1>. HIDE DEF keep, counted, r
  <1>2. scfg.kind = "adaptive"
    BY <1>1 DEF SamplingInv, DecisionsCounted, Deciding
  <1>3. counters' \in [Levels -> Nat]
    BY <1>0, <1>1 DEF Levels
  <1>. DEFINE s == IF keep THEN tally.sampled + 1 ELSE tally.sampled
              d == IF keep THEN tally.dropped ELSE tally.dropped + 1
  <1>4. tally.sampled \in Nat /\ tally.dropped \in Nat
    BY <1>0, TallyFields
  <1>5. s \in Nat /\ d \in Nat /\ s + d = tally.sampled + tally.dropped + 1
    BY <1>4
  <1>6. tally' = [kept |-> tally.kept, errors |-> tally.errors, errorsKept |-> tally.errorsKept,
                  sampled |-> s, dropped |-> d, tuned |-> tally.tuned, adjusted |-> tally.adjusted]
    BY <1>0, <1>1 DEF TallyState
  <1>. HIDE DEF s, d
  <1>7. tally' \in TallyState
    <2>1. tally.kept \in [Levels -> Nat] /\ tally.errors \in Nat /\ tally.errorsKept \in Nat
          /\ tally.tuned \in BOOLEAN /\ tally.adjusted \in BOOLEAN
      BY <1>0, TallyFields
    <2> QED BY <1>5, <1>6, <2>1 DEF TallyState
  <1>8. /\ tally'.sampled = s /\ tally'.dropped = d /\ tally'.tuned = tally.tuned /\ tally'.adjusted = tally.adjusted
        /\ ErrorsPass'
    BY <1>6 DEF SamplingInv, ErrorsPass
  <1>9. deciding' \in [SampleCallers -> Levels \union {"none"}]
    BY <1>0, <1>1
  <1>10. SamplingTypes'
    BY <1>1, <1>3, <1>7, <1>9 DEF SamplingInv, SamplingTypes, IsSampler
  <1>11. RatesBounded'
    BY <1>1, <1>8 DEF SamplingInv, RatesBounded, LeastRate
  <1>12. DecisionsCounted'
    <2>1. Deciding' = Deciding \ {t} /\ t \in Deciding
      BY <1>0, <1>1 DEF Deciding
    <2>2. IsFiniteSet(Deciding)
      BY FS_Subset, SamplingAssumption DEF Deciding
    <2>3. Cardinality(Deciding') = Cardinality(Deciding) - 1 /\ Cardinality(Deciding) \in Nat
      BY <2>1, <2>2, FS_RemoveElement, FS_CardinalityType
    <2>4. ~tally.tuned => tally.sampled + tally.dropped + Cardinality(Deciding) = samples
      BY <1>2 DEF SamplingInv, DecisionsCounted
    <2>5. ~tally'.tuned => tally'.sampled + tally'.dropped + Cardinality(Deciding') = samples'
      BY <1>0, <1>1, <1>4, <1>5, <1>8, <2>3, <2>4
    <2> QED BY <1>1, <1>2, <2>5 DEF DecisionsCounted
  <1>13. ShareIsKept' /\ WindowHolds'
    BY <1>1, <1>2 DEF ShareIsKept, WindowHolds
  <1> QED BY <1>8, <1>10, <1>11, <1>12, <1>13 DEF SamplingInv

LEMMA SamplingKeeps == SamplingInv /\ SamplingNext => SamplingInv'
  BY CountKeeps, PressureKeeps, TimeKeeps, TrackKeeps, DecideKeeps, SetRateKeeps, ResetKeeps, OccupancyKeeps
     DEF SamplingNext

-----------------------------------------------------------------------------
(* Alert senders and the token bucket (alerts.go, resilience.go).             *)

\* The turns taken are in order and a rate apart, and the last one is remembered.
AlertInv ==
    /\ sender.rate \in Nat /\ lastSent \in Int /\ alertNow \in Nat
    /\ turns \in Seq(Nat)
    /\ \A i \in 1 .. Len(turns) : turns[i] <= lastSent
    /\ AlertsRateLimited

LEMMA AlertStart == AlertsInit => AlertInv
  <1>. SUFFICES ASSUME AlertsInit PROVE AlertInv
    OBVIOUS
  <1>1. PICK c \in Senders : sender = AlertDefaults(c)
    BY DEF AlertsInit
  <1>2. sender.rate \in Nat
    <2>1. c.rate \in Nat /\ DefaultRate \in Nat
      BY AlertsAssumption
    <2>2. sender.rate = c.rate \/ sender.rate = DefaultRate
      BY <1>1 DEF AlertDefaults
    <2> QED BY <2>1, <2>2
  <1>3. /\ alertNow = 0 /\ lastSent = 0 - sender.rate /\ turns = <<>> /\ outcomes = {}
    BY DEF AlertsInit, LongAgo
  <1> QED BY <1>2, <1>3 DEF AlertInv, AlertsRateLimited

LEMMA AlertTurns ==
  ASSUME AlertInv, NEW t \in Alerters, NEW plain \in BOOLEAN, AlertTurn(t, plain) PROVE AlertInv'
  <1>1. CASE Limited
    <2>1. /\ UNCHANGED <<sender, alertNow, lastSent, turns>>
          /\ outcomes' = outcomes \union {[said |-> "limited", posted |-> FALSE, answered |-> FALSE]}
      BY <1>1 DEF AlertTurn, AlertEnds
    <2> QED BY <2>1 DEF AlertInv, AlertsRateLimited
  <1>2. CASE ~Limited
    <2>1. /\ UNCHANGED <<sender, alertNow, outcomes>> /\ lastSent' = alertNow /\ turns' = Append(turns, alertNow)
      BY <1>2 DEF AlertTurn
    <2>2. alertNow - lastSent >= sender.rate
      BY <1>2 DEF Limited, AlertInv
    <2>3. /\ turns' \in Seq(Nat) /\ Len(turns') = Len(turns) + 1 /\ Len(turns) \in Nat
          /\ turns'[Len(turns) + 1] = alertNow /\ \A i \in 1 .. Len(turns) : turns'[i] = turns[i]
      BY <2>1, AppendProperties, LenProperties DEF AlertInv
    <2>4. \A i \in 1 .. Len(turns) : turns[i] \in Nat
      BY ElementOfSeq DEF AlertInv
    <2>5. \A i \in 1 .. Len(turns') : turns'[i] <= lastSent'
      BY <2>1, <2>2, <2>3, <2>4 DEF AlertInv
    <2>6. ASSUME NEW i \in 1 .. Len(turns'), NEW j \in 1 .. Len(turns'), i < j
          PROVE  turns'[j] - turns'[i] >= sender.rate
      <3>1. i \in 1 .. Len(turns)
        BY <2>3, <2>6
      <3>2. CASE j = Len(turns) + 1
        <4>1. turns'[j] = alertNow /\ turns'[i] = turns[i] /\ turns[i] \in Nat /\ turns[i] <= lastSent
          BY <3>1, <3>2, <2>3, <2>4 DEF AlertInv
        <4>2. alertNow \in Nat /\ lastSent \in Int /\ sender.rate \in Nat
          BY DEF AlertInv
        <4> QED BY <4>1, <4>2, <2>2
      <3>3. CASE j # Len(turns) + 1
        <4>1. j \in 1 .. Len(turns)
          BY <3>3, <2>3
        <4>2. turns[j] - turns[i] >= sender.rate
          BY <4>1, <3>1, <2>6 DEF AlertInv, AlertsRateLimited
        <4> QED BY <4>1, <4>2, <3>1, <2>3
      <3> QED BY <3>2, <3>3
    <2>7. DOMAIN turns' = 1 .. Len(turns')
      BY <2>3
    <2>8. AlertsRateLimited'
      BY <2>1, <2>6, <2>7 DEF AlertInv, AlertsRateLimited
    <2> QED BY <2>1, <2>3, <2>5, <2>8 DEF AlertInv
  <1> QED BY <1>1, <1>2

LEMMA AlertGoesOn ==
  ASSUME AlertInv, (\E t \in Alerters : AlertBuild(t) \/ AlertPost(t)) \/ AlertTick PROVE AlertInv'
  <1>1. UNCHANGED <<sender, lastSent, turns>> /\ alertNow' \in Nat
    <2>1. CASE \E t \in Alerters : AlertBuild(t) \/ AlertPost(t)
      BY <2>1 DEF AlertBuild, AlertPost, AlertInv
    <2>2. CASE AlertTick
      BY <2>2 DEF AlertTick, AlertInv
    <2> QED BY <2>1, <2>2
  <1>2. \A o \in outcomes' : o.said = "ok" => o.posted /\ o.answered
    BY DEF AlertBuild, AlertPost, AlertTick, AlertEnds, AlertInv, AlertsRateLimited
  <1> QED BY <1>1, <1>2 DEF AlertInv, AlertsRateLimited

LEMMA AlertKeeps == AlertInv /\ AlertsNext => AlertInv'
  BY AlertTurns, AlertGoesOn DEF AlertsNext

-----------------------------------------------------------------------------
(* The token bucket.                                                         *)

AskState == [at : {"idle", "load", "take", "now", "last", "swap", "store"}, seen : Nat, now : Nat, last : Nat]
Storing == {t \in Askers : asking[t].at = "store"}
\* The seconds for which the bucket was filled.
SecondsFilled == lastRefill \div Second

\* Every refill that was decided is of a later second than the one before: what was
\* allowed, what is in the bucket and what is about to be stored stay within one
\* bucket for every second filled.
LimiterInv ==
    /\ tokens \in 0 .. PerSecond /\ lastRefill \in Nat /\ clock \in Nat /\ granted \in Nat
    /\ asking \in [Askers -> AskState]
    /\ lastRefill <= clock
    /\ \A t \in Askers : asking[t].now <= clock
    /\ \A t \in Askers : asking[t].at = "take" => asking[t].seen > 0
    /\ \A t \in Askers : asking[t].at \in {"swap", "store"} => asking[t].now - asking[t].last >= Second
    /\ IsFiniteSet(Storing)
    /\ granted + tokens + PerSecond * Cardinality(Storing) <= PerSecond * (1 + SecondsFilled)

LEMMA DivGrows ==
  ASSUME NEW m \in Nat \ {0}, NEW a \in Nat, NEW b \in Nat
  PROVE  /\ a \div m \in Nat
         /\ a <= b => a \div m <= b \div m
         /\ b - a >= m => b \div m >= a \div m + 1
  <1>. DEFINE q == a \div m
              r == a % m
              u == b \div m
              v == b % m
  <1>1. a = m * q + r /\ r \in 0 .. m - 1 /\ q \in Nat
    OBVIOUS
  <1>2. b = m * u + v /\ v \in 0 .. m - 1 /\ u \in Nat
    OBVIOUS
  <1>. HIDE DEF q, r, u, v
  <1>3. ASSUME u < q PROVE b < a
    <2>1. u + 1 <= q
      BY <1>1, <1>2, <1>3
    <2>2. m * (u + 1) <= m * q
      BY <2>1, <1>1, <1>2
    <2>3. m * (u + 1) = m * u + m
      BY <1>2
    <2> QED BY <2>2, <2>3, <1>1, <1>2
  <1>4. ASSUME u <= q PROVE b - a < m
    <2>1. m * u <= m * q
      BY <1>4, <1>1, <1>2
    <2> QED BY <2>1, <1>1, <1>2
  <1>5. (a <= b => q <= u) /\ (b - a >= m => u >= q + 1)
    BY <1>1, <1>2, <1>3, <1>4
  <1> QED BY <1>1, <1>5 DEF q, u

LEMMA LimiterMeans == LimiterInv => NeverAboveRate
  <1>. SUFFICES ASSUME LimiterInv PROVE NeverAboveRate
    OBVIOUS
  <1>. DEFINE c == Cardinality(Storing)
              u == clock \div Second
  <1>1. c \in Nat /\ PerSecond \in Nat /\ SecondsFilled \in Nat /\ u \in Nat /\ SecondsFilled <= u
    BY RateLimiterAssumption, DivGrows, FS_CardinalityType DEF LimiterInv, SecondsFilled
  <1>2. granted + tokens + PerSecond * c <= PerSecond * (1 + SecondsFilled) /\ granted \in Nat /\ tokens \in 0 .. PerSecond
    BY DEF LimiterInv
  <1>. HIDE DEF c, u
  <1>3. PerSecond * (1 + SecondsFilled) <= PerSecond * (1 + u) /\ PerSecond * c \in Nat
    BY <1>1
  <1>4. PerSecond * (1 + SecondsFilled) \in Nat /\ PerSecond * (1 + u) \in Nat
    BY <1>1
  <1>5. granted <= PerSecond * (1 + u)
    BY <1>2, <1>3, <1>4
  <1> QED BY <1>2, <1>5 DEF NeverAboveRate, u

LEMMA LimiterStart == LimiterInit => LimiterInv
  <1>. SUFFICES ASSUME LimiterInit PROVE LimiterInv
    OBVIOUS
  <1>1. /\ tokens = PerSecond /\ lastRefill = 0 /\ clock = 0 /\ granted = 0 /\ PerSecond \in Nat
        /\ asking = [t \in Askers |-> [at |-> "idle", seen |-> 0, now |-> 0, last |-> 0]]
    BY RateLimiterAssumption DEF LimiterInit
  <1>2. Storing = {} /\ IsFiniteSet(Storing) /\ Cardinality(Storing) = 0
    BY <1>1, FS_EmptySet DEF Storing
  <1>3. SecondsFilled = 0
    BY <1>1, RateLimiterAssumption DEF SecondsFilled
  <1>4. asking \in [Askers -> AskState]
    BY <1>1 DEF AskState
  <1>5. granted + tokens + PerSecond * Cardinality(Storing) <= PerSecond * (1 + SecondsFilled)
    BY <1>1, <1>2, <1>3
  <1> QED BY <1>1, <1>2, <1>4, <1>5 DEF LimiterInv

\* A caller moves that neither takes a token nor stores one.
LEMMA LimiterMoves ==
  ASSUME LimiterInv, NEW t \in Askers, AskBegins(t) \/ LoadTokens(t) \/ ReadClock(t) \/ LoadLast(t)
  PROVE  LimiterInv'
  <1>1. UNCHANGED <<tokens, lastRefill, clock, granted>> /\ \A u \in Askers : u # t => asking'[u] = asking[u]
    BY DEF AskBegins, LoadTokens, ReadClock, LoadLast, LimiterInv
  <1>2. /\ asking[t].at # "store" /\ asking'[t].at # "store" /\ asking' \in [Askers -> AskState]
        /\ asking'[t].now <= clock /\ (asking'[t].at = "take" => asking'[t].seen > 0)
        /\ (asking'[t].at = "swap" => asking'[t].now - asking'[t].last >= Second)
    <2>1. asking[t] \in AskState /\ asking[t].now <= clock
      BY DEF LimiterInv
    <2>2. CASE AskBegins(t)
      <3>1. asking[t].at = "idle" /\ asking' = [asking EXCEPT ![t] = [asking[t] EXCEPT !.at = "load"]]
        BY <2>2 DEF AskBegins
      <3>2. [asking[t] EXCEPT !.at = "load"] \in AskState
        BY <2>1 DEF AskState
      <3> QED BY <3>1, <3>2, <2>1 DEF LimiterInv, AskState
    <2>3. CASE LoadTokens(t)
      <3>. DEFINE r == [asking[t] EXCEPT !.at = IF tokens > 0 THEN "take" ELSE "now", !.seen = tokens]
      <3>1. asking[t].at = "load" /\ asking' = [asking EXCEPT ![t] = r]
        BY <2>3 DEF LoadTokens, LimiterInv
      <3>2. r \in AskState
        <4>1. tokens \in Nat
          BY RateLimiterAssumption DEF LimiterInv
        <4>2. [asking[t] EXCEPT !.at = "take", !.seen = tokens] \in AskState
          BY <4>1, <2>1 DEF AskState
        <4>3. [asking[t] EXCEPT !.at = "now", !.seen = tokens] \in AskState
          BY <4>1, <2>1 DEF AskState
        <4> QED BY <4>2, <4>3
      <3>3. asking'[t] = r
        BY <3>1 DEF LimiterInv
      <3>4. r.at \in {"take", "now"} /\ r.now = asking[t].now /\ (r.at = "take" => r.seen > 0)
        BY <2>1 DEF AskState
      <3>. HIDE DEF r
      <3> QED BY <3>1, <3>2, <3>3, <3>4, <2>1 DEF LimiterInv
    <2>4. CASE ReadClock(t)
      <3>. DEFINE r == [asking[t] EXCEPT !.at = "last", !.now = clock]
      <3>1. asking[t].at = "now" /\ asking' = [asking EXCEPT ![t] = r]
        BY <2>4 DEF ReadClock, LimiterInv
      <3>2. r \in AskState
        BY <2>1 DEF AskState, LimiterInv
      <3>3. asking'[t] = r
        BY <3>1 DEF LimiterInv
      <3>4. r.at = "last" /\ r.now = clock /\ clock \in Nat
        BY <2>1 DEF AskState, LimiterInv
      <3>. HIDE DEF r
      <3> QED BY <3>1, <3>2, <3>3, <3>4, <2>1 DEF LimiterInv
    <2>5. CASE LoadLast(t)
      <3>. DEFINE r == [asking[t] EXCEPT !.at = IF asking[t].now - lastRefill >= Second THEN "swap" ELSE "idle", !.last = lastRefill]
      <3>1. asking[t].at = "last" /\ asking' = [asking EXCEPT ![t] = r]
        BY <2>5 DEF LoadLast, LimiterInv
      <3>2. r \in AskState
        BY <2>1 DEF AskState, LimiterInv
      <3>3. asking'[t] = r
        BY <3>1 DEF LimiterInv
      <3>4. /\ r.at \in {"swap", "idle"} /\ r.now = asking[t].now /\ r.last = lastRefill
            /\ r.at = "swap" => asking[t].now - lastRefill >= Second
        BY <2>1 DEF AskState
      <3>. HIDE DEF r
      <3> QED BY <3>1, <3>2, <3>3, <3>4, <2>1 DEF LimiterInv
    <2> QED BY <2>2, <2>3, <2>4, <2>5
  <1>3. Storing' = Storing /\ SecondsFilled' = SecondsFilled
    BY <1>1, <1>2 DEF Storing, SecondsFilled
  <1>4. \A u \in Askers : asking'[u].at \in {"swap", "store"} => asking'[u].now - asking'[u].last >= Second
    BY <1>1, <1>2 DEF LimiterInv
  <1>5. \A u \in Askers : asking'[u].now <= clock' /\ (asking'[u].at = "take" => asking'[u].seen > 0)
    BY <1>1, <1>2 DEF LimiterInv
  <1> QED BY <1>1, <1>2, <1>3, <1>4, <1>5 DEF LimiterInv

LEMMA LimiterTakes == ASSUME LimiterInv, NEW t \in Askers, TakeToken(t) PROVE LimiterInv'
  <1>1. asking[t].at = "take" /\ UNCHANGED <<lastRefill, clock>> /\ asking[t] \in AskState /\ asking[t].seen > 0
    BY DEF TakeToken, LimiterInv
  <1>2. PICK at \in {"idle", "load"} : asking' = [asking EXCEPT ![t] = [asking[t] EXCEPT !.at = at]]
    BY DEF TakeToken
  <1>3. [asking[t] EXCEPT !.at = at] \in AskState
    BY <1>1 DEF AskState
  <1>4. asking' \in [Askers -> AskState] /\ \A u \in Askers : u # t => asking'[u] = asking[u]
    BY <1>2, <1>3 DEF LimiterInv
  <1>5. asking'[t].at = at /\ asking'[t].now = asking[t].now
    BY <1>1, <1>2 DEF LimiterInv, AskState
  <1>6. Storing' = Storing /\ SecondsFilled' = SecondsFilled
    BY <1>1, <1>4, <1>5 DEF Storing, SecondsFilled
  <1>7. granted' + tokens' = granted + tokens /\ tokens' \in 0 .. PerSecond /\ granted' \in Nat
    <2>1. CASE tokens = asking[t].seen
      BY <2>1, <1>1, RateLimiterAssumption DEF TakeToken, LimiterInv
    <2>2. CASE tokens # asking[t].seen
      BY <2>2 DEF TakeToken, LimiterInv
    <2> QED BY <2>1, <2>2
  <1>8. \A u \in Askers : asking'[u].now <= clock' /\ (asking'[u].at = "take" => asking'[u].seen > 0)
                          /\ (asking'[u].at \in {"swap", "store"} => asking'[u].now - asking'[u].last >= Second)
    BY <1>1, <1>4, <1>5 DEF LimiterInv
  <1> QED BY <1>1, <1>4, <1>6, <1>7, <1>8 DEF LimiterInv

LEMMA LimiterSwaps == ASSUME LimiterInv, NEW t \in Askers, SwapRefill(t) PROVE LimiterInv'
  <1>1. asking[t].at = "swap" /\ UNCHANGED <<tokens, clock, granted>> /\ asking[t] \in AskState
        /\ asking[t].now <= clock /\ asking[t].now - asking[t].last >= Second
    BY DEF SwapRefill, LimiterInv
  <1>. DEFINE c == Cardinality(Storing)
  <1>2. c \in Nat
    BY FS_CardinalityType DEF LimiterInv
  <1>3. PICK at \in {"store", "idle"} : /\ asking' = [asking EXCEPT ![t] = [asking[t] EXCEPT !.at = at]]
                                        /\ IF at = "store" THEN lastRefill = asking[t].last /\ lastRefill' = asking[t].now
                                           ELSE lastRefill' = lastRefill
    BY DEF SwapRefill
  <1>4. [asking[t] EXCEPT !.at = at] \in AskState
    BY <1>1 DEF AskState
  <1>5. asking' \in [Askers -> AskState] /\ \A u \in Askers : u # t => asking'[u] = asking[u]
    BY <1>3, <1>4 DEF LimiterInv
  <1>6. asking'[t].at = at /\ asking'[t].now = asking[t].now /\ asking'[t].last = asking[t].last
    BY <1>1, <1>3 DEF LimiterInv, AskState
  <1>7. \A u \in Askers : asking'[u].now <= clock' /\ (asking'[u].at = "take" => asking'[u].seen > 0)
                          /\ (asking'[u].at \in {"swap", "store"} => asking'[u].now - asking'[u].last >= Second)
    BY <1>1, <1>5, <1>6 DEF LimiterInv
  <1>8. lastRefill' \in Nat /\ lastRefill' <= clock'
    BY <1>1, <1>3 DEF AskState, LimiterInv
  <1>9. IsFiniteSet(Storing') /\ granted + tokens + PerSecond * Cardinality(Storing') <= PerSecond * (1 + SecondsFilled')
    <2>1. CASE at = "idle"
      <3>1. Storing' = Storing /\ SecondsFilled' = SecondsFilled
        BY <2>1, <1>1, <1>3, <1>5, <1>6 DEF Storing, SecondsFilled
      <3> QED BY <3>1 DEF LimiterInv
    <2>2. CASE at = "store"
      <3>1. Storing' = Storing \union {t} /\ t \notin Storing
        BY <2>2, <1>1, <1>5, <1>6 DEF Storing
      <3>2. IsFiniteSet(Storing') /\ Cardinality(Storing') = c + 1
        BY <3>1, FS_AddElement DEF LimiterInv
      <3>3. SecondsFilled \in Nat /\ SecondsFilled' \in Nat /\ SecondsFilled' >= SecondsFilled + 1
        BY <2>2, <1>1, <1>3, <1>8, DivGrows, RateLimiterAssumption DEF SecondsFilled, LimiterInv
      <3>4. PerSecond \in Nat /\ granted \in Nat /\ tokens \in Nat
            /\ granted + tokens + PerSecond * c <= PerSecond * (1 + SecondsFilled)
        BY RateLimiterAssumption DEF LimiterInv
      <3>. HIDE DEF c
      <3>. DEFINE g == SecondsFilled'
      <3>5. g \in Nat /\ g >= SecondsFilled + 1
        BY <3>3
      <3>. HIDE DEF g
      <3>6. PerSecond * (1 + g) >= PerSecond * (2 + SecondsFilled)
        BY <3>3, <3>4, <3>5
      <3>7. PerSecond * (2 + SecondsFilled) = PerSecond * (1 + SecondsFilled) + PerSecond /\ PerSecond * (c + 1) = PerSecond * c + PerSecond
        BY <3>3, <3>4, <1>2
      <3>8. PerSecond * (1 + g) \in Nat /\ PerSecond * (1 + SecondsFilled) \in Nat /\ PerSecond * c \in Nat
        BY <3>3, <3>4, <3>5, <1>2
      <3>9. granted + tokens + PerSecond * (c + 1) <= PerSecond * (1 + g)
        BY <3>4, <3>6, <3>7, <3>8
      <3> QED BY <3>2, <3>9 DEF g
    <2> QED BY <2>1, <2>2
  <1> QED BY <1>1, <1>5, <1>7, <1>8, <1>9 DEF LimiterInv

LEMMA LimiterStores == ASSUME LimiterInv, NEW t \in Askers, StoreTokens(t) PROVE LimiterInv'
  <1>1. asking[t].at = "store" /\ UNCHANGED <<lastRefill, clock, granted>> /\ asking[t] \in AskState
        /\ asking[t].now - asking[t].last >= Second
        /\ asking' = [asking EXCEPT ![t] = [asking[t] EXCEPT !.at = "load"]]
    BY DEF StoreTokens, LimiterInv
  <1>. DEFINE c == Cardinality(Storing)
              x == (asking[t].now - asking[t].last) \div Second
  <1>2. tokens' \in 0 .. PerSecond
    <2>1. asking[t].now - asking[t].last \in Nat /\ Second \in Nat \ {0} /\ PerSecond \in Nat
      BY <1>1, RateLimiterAssumption DEF AskState
    <2>2. x \in Nat
      BY <2>1, DivGrows
    <2>3. tokens' = Least(PerSecond * x, PerSecond)
      BY DEF StoreTokens
    <2>. HIDE DEF x
    <2>4. PerSecond * x \in Nat
      BY <2>1, <2>2
    <2> QED BY <2>1, <2>3, <2>4 DEF Least
  <1>3. [asking[t] EXCEPT !.at = "load"] \in AskState
    BY <1>1 DEF AskState
  <1>4. asking' \in [Askers -> AskState] /\ \A u \in Askers : u # t => asking'[u] = asking[u]
    BY <1>1, <1>3 DEF LimiterInv
  <1>5. asking'[t].at = "load" /\ asking'[t].now = asking[t].now
    BY <1>1 DEF LimiterInv, AskState
  <1>6. Storing' = Storing \ {t} /\ t \in Storing /\ SecondsFilled' = SecondsFilled
    <2>1. t \in Storing /\ SecondsFilled' = SecondsFilled
      BY <1>1 DEF Storing, SecondsFilled
    <2>2. \A u \in Askers : u \in Storing' <=> u \in Storing \ {t}
      <3>1. \A u \in Askers : asking'[u].at = "store" <=> asking[u].at = "store" /\ u # t
        BY <1>4, <1>5
      <3> QED BY <3>1 DEF Storing
    <2>3. Storing \subseteq Askers /\ Storing' \subseteq Askers
      BY DEF Storing
    <2>4. Storing' \subseteq Storing \ {t} /\ Storing \ {t} \subseteq Storing'
      BY <2>2, <2>3
    <2>5. Storing' = Storing \ {t}
      BY <2>4
    <2> QED BY <2>1, <2>5
  <1>7. IsFiniteSet(Storing') /\ Cardinality(Storing') = c - 1 /\ c \in Nat /\ c - 1 \in Nat
    <2>1. IsFiniteSet(Storing)
      BY DEF LimiterInv
    <2>2. IsFiniteSet(Storing') /\ Cardinality(Storing') = c - 1
      BY <2>1, <1>6, FS_RemoveElement
    <2>3. c \in Nat /\ Cardinality(Storing') \in Nat
      BY <2>1, <2>2, FS_CardinalityType
    <2> QED BY <2>2, <2>3
  <1>8. granted + tokens' + PerSecond * Cardinality(Storing') <= PerSecond * (1 + SecondsFilled')
    <2>1. PerSecond \in Nat /\ granted \in Nat /\ tokens \in Nat /\ lastRefill \in Nat
          /\ granted + tokens + PerSecond * c <= PerSecond * (1 + SecondsFilled)
      BY RateLimiterAssumption DEF LimiterInv
    <2>2. SecondsFilled \in Nat
      BY <2>1, DivGrows, RateLimiterAssumption DEF SecondsFilled
    <2>. HIDE DEF c
    <2>3. PerSecond * (c - 1) = PerSecond * c - PerSecond /\ PerSecond * c \in Nat /\ PerSecond * (1 + SecondsFilled) \in Nat
      BY <1>7, <2>1, <2>2
    <2>4. granted + tokens' + PerSecond * (c - 1) <= PerSecond * (1 + SecondsFilled)
      BY <1>2, <2>1, <2>3
    <2> QED BY <2>4, <1>6, <1>7
  <1>9. \A u \in Askers : asking'[u].now <= clock' /\ (asking'[u].at = "take" => asking'[u].seen > 0)
                          /\ (asking'[u].at \in {"swap", "store"} => asking'[u].now - asking'[u].last >= Second)
    BY <1>1, <1>4, <1>5 DEF LimiterInv
  <1> QED BY <1>1, <1>2, <1>4, <1>7, <1>8, <1>9 DEF LimiterInv

LEMMA LimiterWaits == ASSUME LimiterInv, TimePasses PROVE LimiterInv'
  <1>1. UNCHANGED <<tokens, lastRefill, asking, granted>> /\ clock' = clock + 1
    BY DEF TimePasses
  <1>2. Storing' = Storing /\ SecondsFilled' = SecondsFilled
    BY <1>1 DEF Storing, SecondsFilled
  <1>3. \A t \in Askers : asking[t].now \in Nat
    BY DEF LimiterInv, AskState
  <1> QED BY <1>1, <1>2, <1>3 DEF LimiterInv

LEMMA LimiterKeeps == LimiterInv /\ LimiterNext => LimiterInv'
  BY LimiterMoves, LimiterTakes, LimiterSwaps, LimiterStores, LimiterWaits DEF LimiterNext
===============================================================================
