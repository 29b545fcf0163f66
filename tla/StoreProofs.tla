----------------------------- MODULE StoreProofs -----------------------------
(***************************************************************************)
(* What the configuration store keeps through every edit, crash, failed    *)
(* write, restore and reload: for any servers, rules, profiles and number  *)
(* of writes and mishaps.                                                  *)
(***************************************************************************)
EXTENDS Store, FoldTheorems

Configs == [servers : ServerMaps, active : ProfileNames, profiles : Seq(Profiles)]
Sane(cfg) == cfg \in Configs /\ cfg.profiles # <<>>

\* No rule of the configuration is in the shape that Load migrates.
Settled(cfg) == \A r \in AllRules(cfg) : MigrateFallbacks(r) = r

\* Rules are posted with the fallbacks field, not the one Load migrates away.
CurrentRules == \A r \in RuleBodies : MigrateFallbacks(r) = r

\* The file of the first start keeps the name space, and names its own servers.
DocumentsOrderly == \A d \in Documents : Orderly(Parse(d))
DocumentsServed == \A d \in Documents : AuditServerRefs(Parse(d)) \ {""} = {}

-----------------------------------------------------------------------------
(* Sequences, and the position SelectInSeq returns.                        *)

\* A set of naturals that is not empty has a least element, which Min returns.
LEMMA MinIn ==
    ASSUME NEW I \in SUBSET Nat, I # {}
    PROVE  Min(I) \in I
<1> DEFINE R == OpToRel(<, Nat)
<1>1. PICK x \in I : \A y \in I : ~(<<y, x>> \in R)
  BY WFMin, NatLessThanWellFounded
<1>2. R = {ss \in Nat \X Nat : ss[1] < ss[2]}
  BY DEF OpToRel
<1> HIDE DEF R
<1>3. \A y \in I : x <= y
  <2> SUFFICES ASSUME NEW y \in I, y < x PROVE FALSE
    OBVIOUS
  <2> DEFINE p == <<y, x>>
  <2>1. p \in Nat \X Nat /\ p[1] = y /\ p[2] = x
    OBVIOUS
  <2>2. p \notin R
    BY <1>1
  <2> HIDE DEF p
  <2> QED BY <1>2, <2>1, <2>2
<1> QED BY <1>3 DEF Min

\* profileByID finds a profile with the id, when there is one.
LEMMA IndexFound ==
    ASSUME NEW cfg, cfg.profiles \in Seq(Profiles), NEW id
    PROVE  /\ IndexOf(cfg, id) \in 0 .. Len(cfg.profiles)
           /\ IndexOf(cfg, id) # 0 => /\ IndexOf(cfg, id) \in 1 .. Len(cfg.profiles)
                                      /\ cfg.profiles[IndexOf(cfg, id)].id = id
           /\ IndexOf(cfg, id) # 0 <=> \E i \in 1 .. Len(cfg.profiles) : cfg.profiles[i].id = id
<1> DEFINE I == {i \in 1 .. Len(cfg.profiles) : cfg.profiles[i].id = id}
<1>1. IndexOf(cfg, id) = IF I # {} THEN Min(I) ELSE 0
  BY DEF IndexOf, SelectInSeq
<1>2. I \in SUBSET Nat
  OBVIOUS
<1> HIDE DEF I
<1>3. I # {} => Min(I) \in I
  BY <1>2, MinIn
<1> QED BY <1>1, <1>3 DEF I

\* resolveProfile's answer is a position of the profiles, or 0.
LEMMA Resolved ==
    ASSUME NEW cfg, Sane(cfg), NEW id
    PROVE  /\ activeProfile(cfg) \in 1 .. Len(cfg.profiles)
           /\ resolveProfile(cfg, id) # 0 => resolveProfile(cfg, id) \in 1 .. Len(cfg.profiles)
<1>1. cfg.profiles \in Seq(Profiles) /\ cfg.profiles # <<>>
  BY DEF Sane, Configs
<1>2. Len(cfg.profiles) \in Nat \ {0}
  BY <1>1
<1>3. activeProfile(cfg) \in 1 .. Len(cfg.profiles)
  <2> DEFINE i == IndexOf(cfg, cfg.active)
  <2>1. i # 0 => i \in 1 .. Len(cfg.profiles)
    BY <1>1, IndexFound
  <2> HIDE DEF i
  <2>2. activeProfile(cfg) = IF i # 0 THEN i ELSE 1
    BY DEF activeProfile, i
  <2> QED BY <1>2, <2>1, <2>2
<1>4. IndexOf(cfg, id) # 0 => IndexOf(cfg, id) \in 1 .. Len(cfg.profiles)
  BY <1>1, IndexFound
<1> QED BY <1>3, <1>4 DEF resolveProfile

\* What RemoveAt leaves.
LEMMA Removed ==
    ASSUME NEW S, NEW s \in Seq(S), NEW i \in 1 .. Len(s)
    PROVE  LET t == RemoveAt(s, i) IN
           /\ t \in Seq(S) /\ Len(t) = Len(s) - 1
           /\ \A j \in 1 .. Len(t) : t[j] = IF j < i THEN s[j] ELSE s[j + 1]
<1> DEFINE a == SubSeq(s, 1, i - 1)
           b == SubSeq(s, i + 1, Len(s))
           t == RemoveAt(s, i)
<1>1. Len(s) \in Nat /\ \A j \in 1 .. Len(s) : s[j] \in S
  BY ElementOfSeq
<1>2. a \in Seq(S) /\ Len(a) = i - 1 /\ \A j \in 1 .. i - 1 : a[j] = s[j]
  <2>1. \A j \in 1 .. i - 1 : s[j] \in S
    BY <1>1
  <2> HIDE DEF a
  <2>2. a \in Seq(S) /\ Len(a) = (IF 1 <= i - 1 THEN i - 1 - 1 + 1 ELSE 0)
        /\ \A j \in 1 .. i - 1 - 1 + 1 : a[j] = s[1 + j - 1]
    BY <1>1, <2>1, SubSeqProperties DEF a
  <2> QED BY <1>1, <2>2
<1>3. b \in Seq(S) /\ Len(b) = Len(s) - i /\ \A j \in 1 .. Len(s) - i : b[j] = s[i + j]
  <2>1. \A j \in i + 1 .. Len(s) : s[j] \in S
    BY <1>1
  <2> HIDE DEF b
  <2>2. b \in Seq(S) /\ Len(b) = (IF i + 1 <= Len(s) THEN Len(s) - (i + 1) + 1 ELSE 0)
        /\ \A j \in 1 .. Len(s) - (i + 1) + 1 : b[j] = s[(i + 1) + j - 1]
    BY <1>1, <2>1, SubSeqProperties DEF b
  <2> QED BY <1>1, <2>2
<1>4. t = a \o b
  BY DEF RemoveAt
<1> HIDE DEF a, b, t
<1>5. /\ t \in Seq(S) /\ Len(t) = Len(a) + Len(b)
      /\ \A j \in 1 .. Len(a) + Len(b) : t[j] = IF j <= Len(a) THEN a[j] ELSE b[j - Len(a)]
  BY <1>2, <1>3, <1>4, ConcatProperties
<1>6. Len(t) = Len(s) - 1
  BY <1>1, <1>2, <1>3, <1>5
<1>7. ASSUME NEW j \in 1 .. Len(t) PROVE t[j] = IF j < i THEN s[j] ELSE s[j + 1]
  <2>1. CASE j < i
    BY <1>1, <1>2, <1>3, <1>5, <1>6, <2>1
  <2>2. CASE ~(j < i)
    <3>1. t[j] = b[j - (i - 1)] /\ j - (i - 1) \in 1 .. Len(s) - i
      BY <1>1, <1>2, <1>3, <1>5, <1>6, <2>2
    <3>2. b[j - (i - 1)] = s[i + (j - (i - 1))] /\ i + (j - (i - 1)) = j + 1
      BY <1>1, <1>3, <3>1
    <3> QED BY <2>2, <3>1, <3>2
  <2> QED BY <2>1, <2>2
<1> QED BY <1>5, <1>6, <1>7 DEF t

-----------------------------------------------------------------------------
(* Save and load.                                                          *)

\* The migration of a rule leaves a rule, and nothing for a second migration.
LEMMA MigratesOnce ==
    ASSUME NEW r \in Rules
    PROVE  MigrateFallbacks(r) \in Rules /\ MigrateFallbacks(MigrateFallbacks(r)) = MigrateFallbacks(r)
BY DEF MigrateFallbacks, Rules

\* The built-in configuration is one.
LEMMA DefaultIsSane ==
    Sane(DefaultConfig) /\ AllRules(DefaultConfig) = {} /\ Orderly(DefaultConfig)
<1> DEFINE p == [id |-> "default", name |-> "default", rules |-> <<>>]
<1>0. "default" \in ProfileNames /\ <<>> \in Seq(Rules)
  BY StoreAssumption, EmptySeq
<1>1. p \in Profiles /\ p.rules = <<>>
  BY <1>0 DEF Profiles
<1>2. <<>> \in ServerMaps
  BY DEF ServerMaps
<1>3. DefaultConfig = [servers |-> <<>>, active |-> "default", profiles |-> <<p>>]
  BY DEF DefaultConfig
<1>4. p.id = "default"
  OBVIOUS
<1> HIDE DEF p
<1>5. /\ DefaultConfig.profiles = <<p>> /\ DefaultConfig.profiles \in Seq(Profiles)
      /\ DefaultConfig.active = "default"
      /\ Len(DefaultConfig.profiles) = 1 /\ DefaultConfig.profiles[1] = p
  BY <1>1, <1>3
<1>6. Sane(DefaultConfig)
  <2>1. <<p>> \in Seq(Profiles) /\ <<p>> # <<>>
    BY <1>1
  <2> DEFINE ps == <<p>>
             none == <<>>
  <2>2. none \in ServerMaps /\ ps \in Seq(Profiles) /\ ps # <<>>
    BY <1>2, <2>1
  <2>3. DefaultConfig = [servers |-> none, active |-> "default", profiles |-> ps]
    BY <1>3
  <2> HIDE DEF ps, none
  <2> QED BY <1>0, <1>5, <2>2, <2>3 DEF Sane, Configs
<1>7. AllRules(DefaultConfig) = {}
  BY <1>1, <1>5 DEF AllRules, ToSet
<1>8. Orderly(DefaultConfig)
  <2>1. IndexOf(DefaultConfig, DefaultConfig.active) # 0
    <3>1. 1 \in 1 .. Len(DefaultConfig.profiles) /\ DefaultConfig.profiles[1].id = DefaultConfig.active
      BY <1>4, <1>5
    <3> QED BY <1>5, <3>1, IndexFound, ZenonT(60)
  <2>2. DOMAIN DefaultConfig.profiles = {1} /\ DefaultConfig.profiles # <<>>
    BY <1>5
  <2> QED BY <2>1, <2>2 DEF Orderly
<1> QED BY <1>6, <1>7, <1>8

\* The rule stands somewhere in the configuration.
Holds(cfg, r) ==
    \E i \in 1 .. Len(cfg.profiles) : \E j \in 1 .. Len(cfg.profiles[i].rules) :
        r = cfg.profiles[i].rules[j]

\* The rules of a configuration are rules.
LEMMA RulesOf ==
    ASSUME NEW cfg, Sane(cfg)
    PROVE  /\ AllRules(cfg) \subseteq Rules
           /\ \A r : r \in AllRules(cfg) <=> Holds(cfg, r)
           /\ \A i \in 1 .. Len(cfg.profiles) : /\ cfg.profiles[i] \in Profiles
                                                /\ cfg.profiles[i].rules \in Seq(Rules)
<1>1. cfg.profiles \in Seq(Profiles)
  BY DEF Sane, Configs
<1>2. DOMAIN cfg.profiles = 1 .. Len(cfg.profiles)
  BY <1>1
<1>3. \A i \in 1 .. Len(cfg.profiles) : cfg.profiles[i] \in Profiles
  BY <1>1
<1>4. \A i \in 1 .. Len(cfg.profiles) : cfg.profiles[i].rules \in Seq(Rules)
  BY <1>3 DEF Profiles
<1>5. \A i \in 1 .. Len(cfg.profiles) : DOMAIN cfg.profiles[i].rules = 1 .. Len(cfg.profiles[i].rules)
  BY <1>4
<1>6. \A r : r \in AllRules(cfg) <=> Holds(cfg, r)
  <2> DEFINE ps == cfg.profiles
  <2>1. ToSet(ps) = {ps[i] : i \in 1 .. Len(ps)}
    BY <1>2 DEF ToSet
  <2>2. \A i \in 1 .. Len(ps) : ToSet(ps[i].rules) = {ps[i].rules[j] : j \in 1 .. Len(ps[i].rules)}
    BY <1>5 DEF ToSet
  <2>3. AllRules(cfg) = UNION {ToSet(q.rules) : q \in ToSet(ps)}
    BY DEF AllRules
  <2> HIDE DEF ps
  <2>4. AllRules(cfg) = UNION {ToSet(ps[i].rules) : i \in 1 .. Len(ps)}
    BY <2>1, <2>3
  <2>5. \A r : r \in AllRules(cfg) <=> \E i \in 1 .. Len(ps) : r \in ToSet(ps[i].rules)
    BY <2>4
  <2>6. \A i \in 1 .. Len(ps) : \A r : r \in ToSet(ps[i].rules) <=>
            \E j \in 1 .. Len(ps[i].rules) : r = ps[i].rules[j]
    BY <2>2
  <2> QED
    <3> TAKE r
    <3>1. Holds(cfg, r) <=> \E i \in 1 .. Len(ps) : \E j \in 1 .. Len(ps[i].rules) : r = ps[i].rules[j]
      BY DEF Holds, ps
    <3>2. ASSUME NEW i \in 1 .. Len(ps)
          PROVE  r \in ToSet(ps[i].rules) <=> \E j \in 1 .. Len(ps[i].rules) : r = ps[i].rules[j]
      BY <2>6
    <3>3. r \in AllRules(cfg) <=> \E i \in 1 .. Len(ps) : r \in ToSet(ps[i].rules)
      BY <2>5
    <3> DEFINE Has(i) == r \in ToSet(ps[i].rules)
               Lists(i) == \E j \in 1 .. Len(ps[i].rules) : r = ps[i].rules[j]
    <3>4. \A i \in 1 .. Len(ps) : Has(i) <=> Lists(i)
      BY <3>2
    <3>5. (r \in AllRules(cfg) <=> \E i \in 1 .. Len(ps) : Has(i))
          /\ (Holds(cfg, r) <=> \E i \in 1 .. Len(ps) : Lists(i))
      BY <3>1, <3>3
    <3> HIDE DEF Has, Lists
    <3> QED BY <3>4, <3>5
<1>7. \A i \in 1 .. Len(cfg.profiles) : \A j \in 1 .. Len(cfg.profiles[i].rules) :
          cfg.profiles[i].rules[j] \in Rules
  BY <1>4
<1>8. AllRules(cfg) \subseteq Rules
  BY <1>6, <1>7 DEF Holds
<1> QED BY <1>3, <1>4, <1>6, <1>8

\* The profiles of Load's result, before and after the rules are migrated.
Listed(d) == IF migrateLegacy(d).profiles = <<>> THEN DefaultConfig.profiles ELSE migrateLegacy(d).profiles
MigratedProfile(p) == [p EXCEPT !.rules = [j \in DOMAIN p.rules |-> MigrateFallbacks(p.rules[j])]]

\* What Load makes of a profile.
LEMMA ProfileMigrated ==
    ASSUME NEW p \in Profiles
    PROVE  LET q == MigratedProfile(p) IN
           /\ q \in Profiles /\ q.id = p.id /\ q.name = p.name /\ Len(q.rules) = Len(p.rules)
           /\ \A j \in 1 .. Len(p.rules) : q.rules[j] = MigrateFallbacks(p.rules[j])
<1> DEFINE rs == [j \in DOMAIN p.rules |-> MigrateFallbacks(p.rules[j])]
<1>1. p.rules \in Seq(Rules) /\ p.id \in ProfileNames /\ p.name \in ProfileNames
  BY DEF Profiles
<1>2. DOMAIN p.rules = 1 .. Len(p.rules) /\ Len(p.rules) \in Nat
      /\ \A j \in 1 .. Len(p.rules) : p.rules[j] \in Rules
  BY <1>1
<1>3. rs \in [1 .. Len(p.rules) -> Rules]
  BY <1>2, MigratesOnce
<1>4. rs \in Seq(Rules) /\ Len(rs) = Len(p.rules)
  BY <1>2, <1>3
<1>5. \A j \in 1 .. Len(p.rules) : rs[j] = MigrateFallbacks(p.rules[j])
  BY <1>2
<1>6. MigratedProfile(p) = [p EXCEPT !.rules = rs]
  BY DEF MigratedProfile
<1> HIDE DEF rs
<1> DEFINE q == MigratedProfile(p)
<1>7. q \in Profiles /\ q.id = p.id /\ q.name = p.name /\ q.rules = rs
  BY <1>4, <1>6 DEF Profiles
<1> QED BY <1>4, <1>5, <1>7

\* Load makes a configuration of every document it can read, with nothing left
\* to migrate.
LEMMA ParseSound ==
    ASSUME NEW d \in Docs
    PROVE  /\ Sane(Parse(d)) /\ Settled(Parse(d))
           /\ Parse(d).servers = d.servers
           /\ Len(Parse(d).profiles) = Len(Listed(d))
           /\ \A i \in 1 .. Len(Listed(d)) : Parse(d).profiles[i] = MigratedProfile(Listed(d)[i])
           /\ Listed(d) \in Seq(Profiles)
<1> DEFINE m == migrateLegacy(d)
           ps == Listed(d)
           new == [i \in DOMAIN ps |-> MigratedProfile(ps[i])]
           active == IF m.active = "" THEN ps[1].id ELSE m.active
           legacy == [id |-> "default", name |-> "default", rules |-> d.rules]
<1>1. DefaultConfig.profiles \in Seq(Profiles) /\ DefaultConfig.profiles # <<>>
  BY DefaultIsSane DEF Sane, Configs
<1>2. m \in Docs /\ m.servers = d.servers
  <2>1. legacy \in Profiles
    BY StoreAssumption DEF Profiles, Docs
  <2>2. <<legacy>> \in Seq(Profiles)
    BY <2>1
  <2> QED BY <2>2, StoreAssumption DEF migrateLegacy, Docs
<1>3. ps \in Seq(Profiles) /\ ps # <<>>
  BY <1>1, <1>2 DEF Listed, Docs
<1>4. Parse(d) = [servers |-> m.servers, active |-> active, profiles |-> new]
  BY DEF Parse, Listed, MigratedProfile
<1> HIDE DEF m, ps
<1>5. /\ DOMAIN ps = 1 .. Len(ps) /\ Len(ps) \in Nat \ {0} /\ \A i \in 1 .. Len(ps) : ps[i] \in Profiles
  BY <1>3
<1>6. new \in [1 .. Len(ps) -> Profiles] /\ \A i \in 1 .. Len(ps) : new[i] = MigratedProfile(ps[i])
  BY <1>5, ProfileMigrated
<1>7. new \in Seq(Profiles) /\ Len(new) = Len(ps) /\ new # <<>>
  BY <1>5, <1>6
<1> HIDE DEF new
<1>8. /\ Parse(d).profiles = new /\ Parse(d).servers = m.servers
  <2> HIDE DEF active
  <2> QED BY <1>4
<1>9. Sane(Parse(d))
  <2>1. ps[1].id \in ProfileNames
    BY <1>5 DEF Profiles
  <2>2. active \in ProfileNames /\ m.servers \in ServerMaps
    BY <1>2, <2>1 DEF Docs
  <2> HIDE DEF active
  <2> QED BY <1>4, <1>7, <2>2 DEF Sane, Configs
<1>10. Settled(Parse(d))
  <2> SUFFICES ASSUME NEW i \in 1 .. Len(new), NEW j \in 1 .. Len(new[i].rules)
               PROVE  MigrateFallbacks(new[i].rules[j]) = new[i].rules[j]
    <3>1. \A r : r \in AllRules(Parse(d)) <=> Holds(Parse(d), r)
      BY <1>9, RulesOf
    <3> QED BY <1>8, <3>1 DEF Settled, Holds
  <2>1. /\ ps[i] \in Profiles /\ j \in 1 .. Len(ps[i].rules)
        /\ new[i].rules[j] = MigrateFallbacks(ps[i].rules[j])
    BY <1>5, <1>6, <1>7, ProfileMigrated
  <2>2. ps[i].rules[j] \in Rules
    BY <2>1 DEF Profiles
  <2> QED BY <2>1, <2>2, MigratesOnce
<1> QED BY <1>2, <1>3, <1>6, <1>7, <1>8, <1>9, <1>10 DEF ps

\* A saved configuration loads with its servers, its active profile and its
\* profiles; what may differ is the legacy field of a rule.
LEMMA SavedLoads ==
    ASSUME NEW cfg, Sane(cfg)
    PROVE  LET new == Parse(Document(cfg)) IN
           /\ Document(cfg) \in Docs /\ Sane(new)
           /\ new.servers = cfg.servers /\ new.active = cfg.active
           /\ Len(new.profiles) = Len(cfg.profiles)
           /\ \A i \in 1 .. Len(cfg.profiles) : new.profiles[i] = MigratedProfile(cfg.profiles[i])
<1> DEFINE d == Document(cfg)
           new == Parse(d)
<1>1. /\ cfg.servers \in ServerMaps /\ cfg.active \in ProfileNames
      /\ cfg.profiles \in Seq(Profiles) /\ cfg.profiles # <<>>
  BY DEF Sane, Configs
<1>2. /\ d \in Docs /\ d.servers = cfg.servers /\ d.active = cfg.active
      /\ d.profiles = cfg.profiles /\ d.profiles # <<>>
  <2> DEFINE none == <<>>
  <2>1. d = [servers |-> cfg.servers, active |-> cfg.active, profiles |-> cfg.profiles, rules |-> none]
    BY DEF Document
  <2>2. none \in Seq(Rules) /\ cfg.active \in ProfileNames \cup {""}
    BY <1>1, EmptySeq
  <2> HIDE DEF none
  <2> HIDE DEF d
  <2> QED BY <1>1, <2>1, <2>2 DEF Docs
<1> HIDE DEF d
<1>3. migrateLegacy(d) = d /\ d.active # ""
  BY <1>1, <1>2, StoreAssumption DEF migrateLegacy
<1>4. Listed(d) = cfg.profiles
  BY <1>2, <1>3 DEF Listed
<1>5. new.active = cfg.active
  BY <1>2, <1>3 DEF Parse
<1> QED BY <1>2, <1>4, <1>5, ParseSound DEF d

\* save and Load are inverse to each other on what the store holds.
LEMMA RoundTrip ==
    ASSUME NEW cfg, Sane(cfg), Settled(cfg)
    PROVE  Parse(Document(cfg)) = cfg
<1> DEFINE new == Parse(Document(cfg))
<1>1. /\ Sane(new) /\ new.servers = cfg.servers /\ new.active = cfg.active
      /\ Len(new.profiles) = Len(cfg.profiles)
      /\ \A i \in 1 .. Len(cfg.profiles) : new.profiles[i] = MigratedProfile(cfg.profiles[i])
  BY SavedLoads
<1> HIDE DEF new
<1>2. cfg.profiles \in Seq(Profiles) /\ new.profiles \in Seq(Profiles)
  BY <1>1 DEF Sane, Configs
<1>3. ASSUME NEW i \in 1 .. Len(cfg.profiles)
      PROVE  new.profiles[i] = cfg.profiles[i]
  <2> DEFINE p == cfg.profiles[i]
             q == MigratedProfile(p)
  <2>1. p \in Profiles /\ p.rules \in Seq(Rules)
    BY RulesOf
  <2>2. \A j \in 1 .. Len(p.rules) : MigrateFallbacks(p.rules[j]) = p.rules[j]
    BY RulesOf DEF Settled, Holds
  <2>3. new.profiles[i] = q
    BY <1>1
  <2> HIDE DEF p, q
  <2>4. /\ q \in Profiles /\ q.id = p.id /\ q.name = p.name /\ Len(q.rules) = Len(p.rules)
        /\ \A j \in 1 .. Len(p.rules) : q.rules[j] = MigrateFallbacks(p.rules[j])
    BY <2>1, ProfileMigrated DEF q
  <2>5. q.rules \in Seq(Rules)
    BY <2>4 DEF Profiles
  <2>6. q.rules = p.rules
    BY <2>1, <2>2, <2>4, <2>5, SeqEqual
  <2>7. q = p
    BY <2>1, <2>4, <2>6 DEF Profiles
  <2> QED BY <2>3, <2>7 DEF p
<1>4. new.profiles = cfg.profiles
  BY <1>1, <1>2, <1>3, SeqEqual
<1>5. new \in Configs /\ cfg \in Configs
  BY <1>1 DEF Sane
<1>6. new = cfg
  BY <1>1, <1>4, <1>5 DEF Configs
<1> QED BY <1>6 DEF new

-----------------------------------------------------------------------------
(* What the admin API makes of a configuration.                            *)

\* The rule that was validated and is not yet written.
Waiting == IF pending # None THEN {pending.rule} ELSE {}
PendingOK == pending # None => pending.op \in {"add", "update"} /\ pending.rule \in RuleBodies

\* The servers the new configuration no longer has.
Lost(new) == DOMAIN mem.servers \ DOMAIN new.servers

\* A legal next configuration: the rules it has are known, the name space is
\* kept, and no rule loses a server.
Edit(new) ==
    /\ Sane(new)
    /\ AllRules(new) \subseteq AllRules(mem) \cup Waiting
    /\ Orderly(mem) => Orderly(new)
    /\ \A r \in AllRules(new) : ServerRefs(r) \cap Lost(new) = {}

\* Orderly in terms of positions.
LEMMA OrderlyIs ==
    ASSUME NEW cfg, Sane(cfg)
    PROVE  LET ps == cfg.profiles IN
           Orderly(cfg) <=>
               /\ \A i, j \in 1 .. Len(ps) : i # j => {ps[i].id, ps[i].name} \cap {ps[j].id, ps[j].name} = {}
               /\ \E i \in 1 .. Len(ps) : ps[i].id = cfg.active
<1>1. cfg.profiles \in Seq(Profiles) /\ cfg.profiles # <<>>
  BY DEF Sane, Configs
<1>2. DOMAIN cfg.profiles = 1 .. Len(cfg.profiles)
  BY <1>1
<1>3. IndexOf(cfg, cfg.active) # 0 <=> \E i \in 1 .. Len(cfg.profiles) : cfg.profiles[i].id = cfg.active
  BY <1>1, IndexFound
<1> QED BY <1>1, <1>2, <1>3 DEF Orderly

\* The name space depends on the ids, the names and the active id alone.
LEMMA SameNames ==
    ASSUME NEW a, NEW b, Sane(a), Sane(b), a.active = b.active,
           Len(a.profiles) = Len(b.profiles),
           \A i \in 1 .. Len(a.profiles) : a.profiles[i].id = b.profiles[i].id
                                           /\ a.profiles[i].name = b.profiles[i].name
    PROVE  Orderly(a) => Orderly(b)
BY OrderlyIs

\* A change of the servers alone.
LEMMA ServersEdit ==
    ASSUME Sane(mem), NEW m \in ServerMaps,
           \A r \in AllRules(mem) : ServerRefs(r) \cap (DOMAIN mem.servers \ DOMAIN m) = {}
    PROVE  Edit([mem EXCEPT !.servers = m])
<1> DEFINE new == [mem EXCEPT !.servers = m]
<1>1. /\ Sane(new) /\ new.servers = m
      /\ new.active = mem.active /\ new.profiles = mem.profiles
  BY DEF Sane, Configs
<1> HIDE DEF new
<1>2. AllRules(new) = AllRules(mem)
  BY <1>1 DEF AllRules
<1>3. Orderly(mem) => Orderly(new)
  BY <1>1, SameNames
<1> QED BY <1>1, <1>2, <1>3 DEF Edit, Lost, new

\* addServer and updateServer.
LEMMA ServerEdits ==
    ASSUME Sane(mem), NEW id \in ServerIDs, NEW body \in ServerBodies,
           addServer(id, body) \/ updateServer(id, body)
    PROVE  \E new : Edit(new) /\ Mutate(new) /\ Lost(new) = {}
<1>1. PICK S \in SUBSET ServerIDs : mem.servers \in [S -> ServerBodies]
  BY DEF Sane, Configs, ServerMaps
<1>2. DOMAIN mem.servers = S
  BY <1>1
<1>3. CASE addServer(id, body)
  <2> DEFINE m == [s \in S \cup {id} |-> IF s = id THEN body ELSE mem.servers[s]]
             new == [mem EXCEPT !.servers = m]
  <2>1. Mutate(new)
    BY <1>2, <1>3 DEF addServer
  <2>2. m \in [S \cup {id} -> ServerBodies] /\ DOMAIN m = S \cup {id}
    BY <1>1
  <2>3. m \in ServerMaps
    BY <2>2 DEF ServerMaps
  <2> HIDE DEF m
  <2>4. Edit(new)
    BY <1>2, <2>2, <2>3, ServersEdit
  <2>5. new.servers = m
    BY DEF Sane, Configs
  <2> QED BY <1>2, <1>3, <2>1, <2>2, <2>4, <2>5 DEF Lost
<1>4. CASE updateServer(id, body)
  <2> DEFINE m == [mem.servers EXCEPT ![id] = body]
             new == [mem EXCEPT !.servers = m]
  <2>1. new = [mem EXCEPT !.servers[id] = body]
    BY DEF Sane, Configs
  <2>2. Mutate(new)
    BY <1>4, <2>1 DEF updateServer
  <2>3. m \in [S -> ServerBodies] /\ DOMAIN m = S
    BY <1>1
  <2>4. m \in ServerMaps
    BY <2>3 DEF ServerMaps
  <2> HIDE DEF m
  <2>5. Edit(new)
    BY <1>2, <2>3, <2>4, ServersEdit
  <2>6. new.servers = m
    BY DEF Sane, Configs
  <2> QED BY <1>2, <1>4, <2>2, <2>3, <2>5, <2>6 DEF Lost
<1> QED BY <1>3, <1>4

\* deleteServer: no rule names the server.
LEMMA ServerDeleted ==
    ASSUME Sane(mem), NEW id \in ServerIDs, deleteServer(id)
    PROVE  \E new : Edit(new) /\ Mutate(new) /\ Races(new)
<1>0. PICK S \in SUBSET ServerIDs : mem.servers \in [S -> ServerBodies] /\ DOMAIN mem.servers = S
  BY DEF Sane, Configs, ServerMaps
<1> DEFINE m == [s \in S \ {id} |-> mem.servers[s]]
           new == [mem EXCEPT !.servers = m]
<1>1. Mutate(new) /\ Races(new) /\ references(mem, id) = {}
  BY <1>0 DEF deleteServer
<1>2. m \in [S \ {id} -> ServerBodies] /\ DOMAIN m = S \ {id}
  BY <1>0
<1>3. m \in ServerMaps
  BY <1>2 DEF ServerMaps
<1>4. \A r \in AllRules(mem) : id \notin ServerRefs(r)
  BY <1>1 DEF references
<1> HIDE DEF m
<1>5. Edit(new)
  BY <1>0, <1>2, <1>3, <1>4, ServersEdit
<1> QED BY <1>1, <1>5

\* A change of the profiles, or of the active one: what it takes to be an edit.
LEMMA ProfilesEdit ==
    ASSUME Sane(mem), NEW new, Sane(new), new.servers = mem.servers,
           \A r : Holds(new, r) => Holds(mem, r) \/ r \in Waiting,
           Orderly(mem) => Orderly(new)
    PROVE  Edit(new) /\ Lost(new) = {}
<1>1. AllRules(new) \subseteq AllRules(mem) \cup Waiting
  BY RulesOf
<1> QED BY <1>1 DEF Edit, Lost

\* The rules of one profile are replaced.
LEMMA RulesEdit ==
    ASSUME Sane(mem), NEW i \in 1 .. Len(mem.profiles), NEW rules \in Seq(Rules),
           \A j \in 1 .. Len(rules) : Holds(mem, rules[j]) \/ rules[j] \in Waiting
    PROVE  Edit(WithRules(i, rules)) /\ Lost(WithRules(i, rules)) = {}
<1> DEFINE p == [mem.profiles[i] EXCEPT !.rules = rules]
           ps == [mem.profiles EXCEPT ![i] = p]
           new == WithRules(i, rules)
<1>1. mem.profiles \in Seq(Profiles) /\ mem.profiles # <<>> /\ mem.profiles[i] \in Profiles
  BY DEF Sane, Configs
<1>2. p \in Profiles /\ p.id = mem.profiles[i].id /\ p.name = mem.profiles[i].name /\ p.rules = rules
  BY <1>1 DEF Profiles
<1>3. new = [mem EXCEPT !.profiles = ps]
  BY DEF WithRules, Sane, Configs
<1> HIDE DEF p
<1>4. /\ ps \in Seq(Profiles) /\ Len(ps) = Len(mem.profiles)
      /\ \A j \in 1 .. Len(mem.profiles) : ps[j] = IF j = i THEN p ELSE mem.profiles[j]
  BY <1>1, <1>2, ExceptSeq
<1> HIDE DEF ps, new
<1>5. Sane(new) /\ new.servers = mem.servers /\ new.active = mem.active /\ new.profiles = ps
  <2>1. ps # <<>>
    BY <1>1, <1>4
  <2> QED BY <1>3, <1>4, <2>1 DEF Sane, Configs
<1>6. Orderly(mem) => Orderly(new)
  <2>1. \A j \in 1 .. Len(mem.profiles) : mem.profiles[j].id = new.profiles[j].id
                                          /\ mem.profiles[j].name = new.profiles[j].name
    BY <1>2, <1>4, <1>5
  <2> QED BY <1>4, <1>5, <2>1, SameNames
<1>7. ASSUME NEW r, Holds(new, r) PROVE Holds(mem, r) \/ r \in Waiting
  <2>1. PICK a \in 1 .. Len(mem.profiles) : \E b \in 1 .. Len(ps[a].rules) : r = ps[a].rules[b]
    BY <1>4, <1>5, <1>7 DEF Holds
  <2>2. CASE a = i
    BY <1>2, <1>4, <2>1, <2>2
  <2>3. CASE a # i
    BY <1>4, <2>1, <2>3 DEF Holds
  <2> QED BY <2>2, <2>3
<1> QED BY <1>5, <1>6, <1>7, ProfilesEdit DEF new

\* addRule and updateRule in their second step.
LEMMA RuleEdits ==
    ASSUME Sane(mem), PendingOK, ApplyRule
    PROVE  \/ UNCHANGED <<mem, disk, up, writes, crashes, routed>>
           \/ \E new : Edit(new) /\ Mutate(new) /\ Lost(new) = {}
<1>0. RuleBodies \subseteq Rules
  BY StoreAssumption
<1>1. ASSUME NEW i \in 1 .. Len(mem.profiles)
      PROVE  /\ mem.profiles[i].rules \in Seq(Rules)
             /\ \A j \in 1 .. Len(mem.profiles[i].rules) : Holds(mem, mem.profiles[i].rules[j])
  BY RulesOf DEF Holds
<1>2. CASE ApplyRule
  <2> DEFINE i == resolveProfile(mem, pending.profile)
             rules == IF i = 0 THEN <<>> ELSE mem.profiles[i].rules
             one == Append(rules, pending.rule)
             two == [rules EXCEPT ![pending.idx] = pending.rule]
  <2>1. /\ pending # None
        /\ \/ UNCHANGED <<mem, disk, up, writes, crashes, routed>>
           \/ i # 0 /\ Mutate(WithRules(i, one))
           \/ i # 0 /\ pending.idx \in DOMAIN rules /\ Mutate(WithRules(i, two))
    BY <1>2 DEF ApplyRule
  <2>2. pending.rule \in Rules /\ pending.rule \in Waiting
    BY <1>0, <2>1 DEF PendingOK, Waiting
  <2>3. i # 0 => i \in 1 .. Len(mem.profiles)
    BY Resolved
  <2> HIDE DEF i
  <2>4. ASSUME i # 0
        PROVE  /\ i \in 1 .. Len(mem.profiles) /\ rules \in Seq(Rules)
               /\ \A j \in 1 .. Len(rules) : Holds(mem, rules[j])
    BY <1>1, <2>3, <2>4
  <2> HIDE DEF rules
  <2>5. CASE i # 0 /\ Mutate(WithRules(i, one))
    <3>1. /\ one \in Seq(Rules)
          /\ \A j \in 1 .. Len(one) : Holds(mem, one[j]) \/ one[j] \in Waiting
      <4>1. rules \in Seq(Rules) /\ Len(rules) \in Nat
        BY <2>4, <2>5
      <4>2. /\ one \in Seq(Rules) /\ Len(one) = Len(rules) + 1 /\ one[Len(rules) + 1] = pending.rule
            /\ \A j \in 1 .. Len(rules) : one[j] = rules[j]
        BY <2>2, <4>1, AppendProperties
      <4> HIDE DEF one
      <4>3. ASSUME NEW j \in 1 .. Len(one) PROVE Holds(mem, one[j]) \/ one[j] \in Waiting
        <5>1. j \in 1 .. Len(rules) \/ j = Len(rules) + 1
          BY <4>1, <4>2
        <5> QED BY <2>2, <2>4, <2>5, <4>2, <5>1
      <4> QED BY <4>2, <4>3
    <3> HIDE DEF one
    <3>2. Edit(WithRules(i, one)) /\ Lost(WithRules(i, one)) = {}
      BY <2>4, <2>5, <3>1, RulesEdit
    <3> QED BY <2>5, <3>2
  <2>6. CASE i # 0 /\ pending.idx \in DOMAIN rules /\ Mutate(WithRules(i, two))
    <3>1. /\ two \in Seq(Rules)
          /\ \A j \in 1 .. Len(two) : Holds(mem, two[j]) \/ two[j] \in Waiting
      <4>1. rules \in Seq(Rules) /\ DOMAIN rules = 1 .. Len(rules)
        BY <2>4, <2>6
      <4>2. /\ two \in Seq(Rules) /\ Len(two) = Len(rules)
            /\ \A j \in 1 .. Len(rules) : two[j] = IF j = pending.idx THEN pending.rule ELSE rules[j]
        BY <2>2, <2>6, <4>1, ExceptSeq
      <4> HIDE DEF two
      <4> QED BY <2>2, <2>4, <2>6, <4>2
    <3> HIDE DEF two
    <3>2. Edit(WithRules(i, two)) /\ Lost(WithRules(i, two)) = {}
      BY <2>4, <2>6, <3>1, RulesEdit
    <3> QED BY <2>6, <3>2
  <2> QED BY <2>1, <2>5, <2>6
<1> QED BY <1>2

\* deleteRule.
LEMMA RuleDeleted ==
    ASSUME Sane(mem), NEW id, NEW idx, deleteRule(id, idx)
    PROVE  \E new : Edit(new) /\ Mutate(new) /\ Lost(new) = {}
<1>0. ASSUME NEW i \in 1 .. Len(mem.profiles)
      PROVE  /\ mem.profiles[i].rules \in Seq(Rules)
             /\ \A j \in 1 .. Len(mem.profiles[i].rules) : Holds(mem, mem.profiles[i].rules[j])
  BY RulesOf DEF Holds
<1> DEFINE i == resolveProfile(mem, id)
           rules == mem.profiles[i].rules
           left == RemoveAt(rules, idx)
<1>1. i # 0 /\ idx \in DOMAIN rules /\ Mutate(WithRules(i, left))
  BY DEF deleteRule
<1>2. i \in 1 .. Len(mem.profiles)
  BY <1>1, Resolved
<1> HIDE DEF i
<1>3. rules \in Seq(Rules) /\ \A j \in 1 .. Len(rules) : Holds(mem, rules[j])
  BY <1>0, <1>2
<1> HIDE DEF rules
<1>4. idx \in 1 .. Len(rules) /\ Len(rules) \in Nat
  BY <1>1, <1>3
<1> HIDE DEF left
<1>5. /\ left \in Seq(Rules) /\ Len(left) = Len(rules) - 1
      /\ \A j \in 1 .. Len(left) : left[j] = IF j < idx THEN rules[j] ELSE rules[j + 1]
  BY <1>3, <1>4, Removed DEF left
<1>6. \A j \in 1 .. Len(left) : Holds(mem, left[j])
  BY <1>3, <1>4, <1>5
<1>7. Edit(WithRules(i, left)) /\ Lost(WithRules(i, left)) = {}
  BY <1>2, <1>5, <1>6, RulesEdit
<1> QED BY <1>1, <1>7

\* addProfile: the new name leads to no other profile.
LEMMA AddProfileEdit ==
    ASSUME Sane(mem), NEW name \in ProfileNames, NEW copy \in BOOLEAN, addProfile(name, copy)
    PROVE  \E new : Edit(new) /\ Mutate(new) /\ Lost(new) = {}
<1> DEFINE rules == IF copy THEN mem.profiles[activeProfile(mem)].rules ELSE <<>>
           p == [id |-> name, name |-> name, rules |-> rules]
           ps == Append(mem.profiles, p)
           new == [mem EXCEPT !.profiles = ps]
           n == Len(mem.profiles)
<1>1. Mutate(new) /\ ~NameTaken(name, "")
  BY DEF addProfile
<1>2. mem.profiles \in Seq(Profiles) /\ n \in Nat /\ DOMAIN mem.profiles = 1 .. n
      /\ \A i \in 1 .. n : mem.profiles[i] \in Profiles
  BY DEF Sane, Configs
<1>3. rules \in Seq(Rules) /\ \A j \in 1 .. Len(rules) : Holds(mem, rules[j])
  <2>1. CASE copy
    <3>1. activeProfile(mem) \in 1 .. Len(mem.profiles)
      BY Resolved
    <3> QED BY <2>1, <3>1, RulesOf DEF Holds
  <2>2. CASE ~copy
    <3>1. rules = <<>>
      BY <2>2
    <3> HIDE DEF rules
    <3> QED BY <3>1, EmptySeq
  <2> QED BY <2>1, <2>2
<1> HIDE DEF rules
<1>4. p \in Profiles /\ p.id = name /\ p.name = name /\ p.rules = rules
  BY <1>3 DEF Profiles
<1> HIDE DEF p
<1>5. /\ ps \in Seq(Profiles) /\ ps # <<>> /\ Len(ps) = n + 1 /\ ps[n + 1] = p
      /\ \A j \in 1 .. n : ps[j] = mem.profiles[j]
  BY <1>2, <1>4, AppendProperties
<1> HIDE DEF ps
<1>6. Sane(new) /\ new.servers = mem.servers /\ new.active = mem.active /\ new.profiles = ps
  BY <1>5 DEF Sane, Configs
<1> HIDE DEF new
<1>7. \A i \in 1 .. n : name \notin {mem.profiles[i].id, mem.profiles[i].name}
  <2> SUFFICES ASSUME NEW i \in 1 .. n PROVE name \notin {mem.profiles[i].id, mem.profiles[i].name}
    OBVIOUS
  <2>1. mem.profiles[i] \in ToSet(mem.profiles)
    BY <1>2 DEF ToSet
  <2>2. mem.profiles[i].id # ""
    BY <1>2, StoreAssumption DEF Profiles
  <2> QED BY <1>1, <2>1, <2>2 DEF NameTaken
<1>8. Orderly(mem) => Orderly(new)
  <2> SUFFICES ASSUME Orderly(mem) PROVE Orderly(new)
    OBVIOUS
  <2>1. /\ \A i, j \in 1 .. n : i # j => {mem.profiles[i].id, mem.profiles[i].name}
                                         \cap {mem.profiles[j].id, mem.profiles[j].name} = {}
        /\ \E i \in 1 .. n : mem.profiles[i].id = mem.active
    BY OrderlyIs
  <2>2. \E i \in 1 .. Len(ps) : ps[i].id = new.active
    BY <1>2, <1>5, <1>6, <2>1
  <2>3. ASSUME NEW i \in 1 .. n + 1, NEW j \in 1 .. n + 1, i # j
        PROVE  {ps[i].id, ps[i].name} \cap {ps[j].id, ps[j].name} = {}
    <3>1. CASE i \in 1 .. n /\ j \in 1 .. n
      BY <1>5, <2>1, <2>3, <3>1
    <3>2. CASE i = n + 1 /\ j \in 1 .. n
      BY <1>4, <1>5, <1>7, <3>2
    <3>3. CASE i \in 1 .. n /\ j = n + 1
      BY <1>4, <1>5, <1>7, <3>3
    <3> QED BY <1>2, <2>3, <3>1, <3>2, <3>3
  <2> QED BY <1>5, <1>6, <2>2, <2>3, OrderlyIs
<1>9. ASSUME NEW r, Holds(new, r) PROVE Holds(mem, r)
  <2>1. PICK a \in 1 .. n + 1 : \E b \in 1 .. Len(ps[a].rules) : r = ps[a].rules[b]
    BY <1>5, <1>6, <1>9 DEF Holds
  <2>2. CASE a = n + 1
    BY <1>3, <1>4, <1>5, <2>1, <2>2
  <2>3. CASE a \in 1 .. n
    BY <1>5, <2>1, <2>3 DEF Holds
  <2> QED BY <1>2, <2>2, <2>3
<1>10. Edit(new) /\ Lost(new) = {}
  BY <1>6, <1>8, <1>9, ProfilesEdit
<1> QED BY <1>1, <1>10

\* renameProfile: the id stays, the name is nobody else's.
LEMMA RenameEdit ==
    ASSUME Sane(mem), NEW id \in ProfileNames, NEW name \in ProfileNames, renameProfile(id, name)
    PROVE  \E new : Edit(new) /\ Mutate(new) /\ Lost(new) = {}
<1> DEFINE k == IndexOf(mem, id)
           n == Len(mem.profiles)
           p == [mem.profiles[k] EXCEPT !.name = name]
           ps == [mem.profiles EXCEPT ![k] = p]
           new == [mem EXCEPT !.profiles = ps]
<1>1. k # 0 /\ ~NameTaken(name, id) /\ Mutate([mem EXCEPT !.profiles[k].name = name])
  BY DEF renameProfile
<1>2. mem.profiles \in Seq(Profiles) /\ n \in Nat /\ DOMAIN mem.profiles = 1 .. n
      /\ \A i \in 1 .. n : mem.profiles[i] \in Profiles
  BY DEF Sane, Configs
<1>3. k \in 1 .. n /\ mem.profiles[k].id = id
  BY <1>1, <1>2, IndexFound
<1>4. new = [mem EXCEPT !.profiles[k].name = name]
  BY DEF Sane, Configs
<1> HIDE DEF k
<1>5. p \in Profiles /\ p.id = id /\ p.name = name /\ p.rules = mem.profiles[k].rules
  BY <1>2, <1>3 DEF Profiles
<1> HIDE DEF p
<1>6. /\ ps \in Seq(Profiles) /\ Len(ps) = n
      /\ \A j \in 1 .. n : ps[j] = IF j = k THEN p ELSE mem.profiles[j]
  BY <1>2, <1>3, <1>5, ExceptSeq
<1> HIDE DEF ps
<1>7. Sane(new) /\ new.servers = mem.servers /\ new.active = mem.active /\ new.profiles = ps
  <2>1. ps # <<>>
    BY <1>2, <1>3, <1>6
  <2> QED BY <1>6, <2>1 DEF Sane, Configs
<1> HIDE DEF new
<1>8. Orderly(mem) => Orderly(new)
  <2> SUFFICES ASSUME Orderly(mem) PROVE Orderly(new)
    OBVIOUS
  <2>1. /\ \A i, j \in 1 .. n : i # j => {mem.profiles[i].id, mem.profiles[i].name}
                                         \cap {mem.profiles[j].id, mem.profiles[j].name} = {}
        /\ \E i \in 1 .. n : mem.profiles[i].id = mem.active
    BY OrderlyIs
  <2>2. ASSUME NEW i \in 1 .. n, i # k
        PROVE  /\ name \notin {mem.profiles[i].id, mem.profiles[i].name}
               /\ id \notin {mem.profiles[i].id, mem.profiles[i].name}
    <3>1. id \notin {mem.profiles[i].id, mem.profiles[i].name}
      BY <1>3, <2>1, <2>2
    <3>2. mem.profiles[i] \in ToSet(mem.profiles)
      BY <1>2 DEF ToSet
    <3> QED BY <1>1, <3>1, <3>2 DEF NameTaken
  <2>3. \E i \in 1 .. Len(ps) : ps[i].id = new.active
    BY <1>3, <1>5, <1>6, <1>7, <2>1
  <2>4. ASSUME NEW i \in 1 .. n, NEW j \in 1 .. n, i # j
        PROVE  {ps[i].id, ps[i].name} \cap {ps[j].id, ps[j].name} = {}
    BY <1>5, <1>6, <2>1, <2>2, <2>4
  <2> QED BY <1>6, <1>7, <2>3, <2>4, OrderlyIs
<1>9. ASSUME NEW r, Holds(new, r) PROVE Holds(mem, r)
  BY <1>3, <1>5, <1>6, <1>7, <1>9 DEF Holds
<1>10. Edit(new) /\ Lost(new) = {}
  BY <1>7, <1>8, <1>9, ProfilesEdit
<1> QED BY <1>1, <1>4, <1>10

\* deleteProfile: another profile stays, and an active one.
LEMMA DeleteEdit ==
    ASSUME Sane(mem), NEW id \in ProfileNames, deleteProfile(id)
    PROVE  \E new : Edit(new) /\ Mutate(new) /\ Lost(new) = {}
<1> DEFINE k == IndexOf(mem, id)
           n == Len(mem.profiles)
           left == RemoveAt(mem.profiles, k)
           active == IF mem.active = id THEN left[1].id ELSE mem.active
           new == [mem EXCEPT !.profiles = left, !.active = active]
<1>1. k # 0 /\ n > 1 /\ Mutate(new)
  BY DEF deleteProfile, Sane, Configs
<1>2. mem.profiles \in Seq(Profiles) /\ n \in Nat /\ mem.active \in ProfileNames
      /\ \A i \in 1 .. n : mem.profiles[i] \in Profiles
  BY DEF Sane, Configs
<1>3. k \in 1 .. n /\ mem.profiles[k].id = id
  BY <1>1, <1>2, IndexFound
<1> HIDE DEF k
<1> HIDE DEF left
<1>4. /\ left \in Seq(Profiles) /\ Len(left) = n - 1
      /\ \A j \in 1 .. n - 1 : left[j] = IF j < k THEN mem.profiles[j] ELSE mem.profiles[j + 1]
  BY <1>2, <1>3, Removed DEF left
<1>5. 1 \in 1 .. n - 1 /\ left # <<>> /\ left[1] \in Profiles
  BY <1>1, <1>2, <1>4
<1>6. active \in ProfileNames
  BY <1>2, <1>5 DEF Profiles
<1>7. active = IF mem.active = id THEN left[1].id ELSE mem.active
  OBVIOUS
<1> HIDE DEF active
<1>8. Sane(new) /\ new.servers = mem.servers /\ new.active = active /\ new.profiles = left
  BY <1>4, <1>5, <1>6 DEF Sane, Configs
<1> HIDE DEF new
<1>9. \A j \in 1 .. n - 1 : \E i \in 1 .. n : i # k /\ left[j] = mem.profiles[i]
                                            /\ i = (IF j < k THEN j ELSE j + 1)
  BY <1>2, <1>3, <1>4
<1>10. Orderly(mem) => Orderly(new)
  <2> SUFFICES ASSUME Orderly(mem) PROVE Orderly(new)
    OBVIOUS
  <2>1. /\ \A i, j \in 1 .. n : i # j => {mem.profiles[i].id, mem.profiles[i].name}
                                         \cap {mem.profiles[j].id, mem.profiles[j].name} = {}
        /\ \E i \in 1 .. n : mem.profiles[i].id = mem.active
    BY OrderlyIs
  <2>2. \E i \in 1 .. n - 1 : left[i].id = active
    <3>1. CASE mem.active = id
      BY <1>5, <1>7, <3>1
    <3>2. CASE mem.active # id
      <4>1. PICK i \in 1 .. n : mem.profiles[i].id = mem.active
        BY <2>1
      <4>2. i # k
        BY <1>3, <3>2, <4>1
      <4>3. CASE i < k
        <5>1. i \in 1 .. n - 1
          BY <1>2, <1>3, <4>3
        <5>2. left[i] = mem.profiles[i]
          BY <1>4, <4>3, <5>1
        <5> QED BY <1>7, <3>2, <4>1, <5>1, <5>2
      <4>4. CASE i > k
        <5>1. i - 1 \in 1 .. n - 1 /\ ~(i - 1 < k) /\ (i - 1) + 1 = i
          BY <1>2, <1>3, <4>4
        <5>2. left[i - 1] = mem.profiles[i]
          BY <1>4, <5>1
        <5> QED BY <1>7, <3>2, <4>1, <5>1, <5>2
      <4> QED BY <1>2, <1>3, <4>2, <4>3, <4>4
    <3> QED BY <3>1, <3>2
  <2>3. ASSUME NEW i \in 1 .. n - 1, NEW j \in 1 .. n - 1, i # j
        PROVE  {left[i].id, left[i].name} \cap {left[j].id, left[j].name} = {}
    <3>1. PICK a \in 1 .. n : left[i] = mem.profiles[a] /\ a = (IF i < k THEN i ELSE i + 1)
      BY <1>9
    <3>2. PICK b \in 1 .. n : left[j] = mem.profiles[b] /\ b = (IF j < k THEN j ELSE j + 1)
      BY <1>9
    <3>3. a # b
      BY <1>2, <1>3, <2>3, <3>1, <3>2
    <3> QED BY <2>1, <3>1, <3>2, <3>3
  <2> QED BY <1>4, <1>8, <2>2, <2>3, OrderlyIs
<1>11. ASSUME NEW r, Holds(new, r) PROVE Holds(mem, r)
  <2>1. PICK a \in 1 .. n - 1 : \E b \in 1 .. Len(left[a].rules) : r = left[a].rules[b]
    BY <1>4, <1>8, <1>11 DEF Holds
  <2>2. PICK i \in 1 .. n : left[a] = mem.profiles[i]
    BY <1>9
  <2> QED BY <2>1, <2>2 DEF Holds
<1>12. Edit(new) /\ Lost(new) = {}
  BY <1>8, <1>10, <1>11, ProfilesEdit
<1> QED BY <1>1, <1>12

\* activateProfile names a profile that exists.
LEMMA ActivateEdit ==
    ASSUME Sane(mem), NEW id \in ProfileNames, activateProfile(id)
    PROVE  \E new : Edit(new) /\ Mutate(new) /\ Lost(new) = {}
<1> DEFINE new == [mem EXCEPT !.active = id]
<1>1. IndexOf(mem, id) # 0 /\ Mutate(new)
  BY DEF activateProfile
<1>2. Sane(new) /\ new.servers = mem.servers /\ new.active = id /\ new.profiles = mem.profiles
  BY DEF Sane, Configs
<1>3. mem.profiles \in Seq(Profiles)
  BY DEF Sane, Configs
<1> HIDE DEF new
<1>4. Orderly(mem) => Orderly(new)
  <2>1. \E i \in 1 .. Len(mem.profiles) : mem.profiles[i].id = id
    BY <1>1, <1>3, IndexFound
  <2> QED BY <1>2, <2>1, OrderlyIs
<1>5. \A r : Holds(new, r) => Holds(mem, r)
  BY <1>2 DEF Holds
<1>6. Edit(new) /\ Lost(new) = {}
  BY <1>2, <1>4, <1>5, ProfilesEdit
<1> QED BY <1>1, <1>6

-----------------------------------------------------------------------------
(* Steps, sorted by what they do to memory and disk.                       *)

\* Well-typed memory and disk; only a running process has work under way.
Typed ==
    /\ Sane(mem) /\ PendingOK
    /\ up \in BOOLEAN /\ inSync \in BOOLEAN /\ faults \in Nat
    /\ file.kind = "whole" => file.doc \in Docs
    /\ bak.kind = "whole" => bak.doc \in Docs
    /\ pending # None => up
    /\ routed # None => up

\* A mutator: a legal new configuration, saved or not.
Saves(new) ==
    /\ up /\ Edit(new) /\ Mutate(new)
    /\ pending' \in {pending, None} /\ (~up' => pending' = None)
    /\ raced \subseteq raced'
    /\ pending # None => ServerRefs(pending.rule) \cap Lost(new) \subseteq raced'

\* A step that leaves the configuration and the disk alone.
Quiet ==
    /\ UNCHANGED <<mem, disk, up, raced>>
    /\ pending' \in {pending, None}
    /\ routed' # None => up \/ routed # None

Checks == \E op \in {"add", "update"}, id \in ProfileArgs, idx \in 1 .. MaxRules \cup {1}, rule \in RuleBodies :
              CheckRule(op, id, idx, rule)

\* The mutators of the admin API are edits that are saved.
LEMMA AdminSorted ==
    ASSUME Typed, Admin
    PROVE  (\E new : Saves(new)) \/ Quiet \/ Checks \/ reloadConfig
<1>1. Sane(mem) /\ PendingOK
  BY DEF Typed
<1>2. ASSUME NEW new, up, Edit(new), Mutate(new), Lost(new) = {}, KeepsPending, raced' = raced
      PROVE  Saves(new)
  BY <1>2 DEF Saves, KeepsPending
<1>3. ASSUME NEW id \in ServerIDs, NEW body \in ServerBodies, addServer(id, body) \/ updateServer(id, body)
      PROVE  \E new : Saves(new)
  <2>1. up /\ KeepsPending /\ raced' = raced
    BY <1>3 DEF addServer, updateServer
  <2>2. \E new : Edit(new) /\ Mutate(new) /\ Lost(new) = {}
    BY <1>1, <1>3, ServerEdits
  <2> QED BY <1>2, <2>1, <2>2
<1>4. ASSUME NEW id \in ServerIDs, deleteServer(id)
      PROVE  \E new : Saves(new)
  <2>1. up /\ KeepsPending
    BY <1>4 DEF deleteServer
  <2>2. PICK new : Edit(new) /\ Mutate(new) /\ Races(new)
    BY <1>1, <1>4, ServerDeleted
  <2> QED BY <2>1, <2>2 DEF Saves, KeepsPending, Races, Lost
<1>5. CASE ApplyRule
  <2>1. up /\ pending' = None /\ raced' = raced
    BY <1>5 DEF ApplyRule
  <2>2. CASE UNCHANGED <<mem, disk, up, writes, crashes, routed>>
    BY <2>1, <2>2 DEF Quiet
  <2>3. ASSUME NEW new, Edit(new), Mutate(new), Lost(new) = {} PROVE Saves(new)
    BY <2>1, <2>3 DEF Saves
  <2> QED BY <1>1, <1>5, <2>2, <2>3, RuleEdits
<1>6. ASSUME NEW id \in ProfileArgs, NEW idx \in 1 .. MaxRules, deleteRule(id, idx)
      PROVE  \E new : Saves(new)
  <2>1. up /\ KeepsPending /\ raced' = raced
    BY <1>6 DEF deleteRule
  <2>2. \E new : Edit(new) /\ Mutate(new) /\ Lost(new) = {}
    BY <1>1, <1>6, RuleDeleted
  <2> QED BY <1>2, <2>1, <2>2
<1>7. ASSUME NEW name \in ProfileNames, NEW copy \in BOOLEAN, addProfile(name, copy)
      PROVE  \E new : Saves(new)
  <2>1. up /\ KeepsPending /\ raced' = raced
    BY <1>7 DEF addProfile
  <2> QED BY <1>1, <1>2, <1>7, <2>1, AddProfileEdit
<1>8. ASSUME NEW id \in ProfileNames, NEW name \in ProfileNames, renameProfile(id, name)
      PROVE  \E new : Saves(new)
  <2>1. up /\ KeepsPending /\ raced' = raced
    BY <1>8 DEF renameProfile
  <2> QED BY <1>1, <1>2, <1>8, <2>1, RenameEdit
<1>9. ASSUME NEW id \in ProfileNames, deleteProfile(id) \/ activateProfile(id)
      PROVE  \E new : Saves(new)
  <2>1. up /\ KeepsPending /\ raced' = raced
    BY <1>9 DEF deleteProfile, activateProfile
  <2> QED BY <1>1, <1>2, <1>9, <2>1, DeleteEdit, ActivateEdit
<1>10. ASSUME NEW id \in ProfileArgs, NEW rule \in RuleBodies,
              \/ CheckRule("add", id, 1, rule)
              \/ \E idx \in 1 .. MaxRules : CheckRule("update", id, idx, rule)
       PROVE  Checks
  BY <1>10 DEF Checks
<1> QED BY <1>3, <1>4, <1>5, <1>6, <1>7, <1>8, <1>9, <1>10 DEF Admin

\* The ways a save ends: the memory and the disk it leaves.
LEMMA Outcomes ==
    ASSUME NEW new, Mutate(new), faults \in Nat
    PROVE  /\ up' \in BOOLEAN /\ inSync' \in BOOLEAN /\ faults' \in {faults, faults + 1}
           /\ mem' = IF up' THEN new ELSE DefaultConfig
           /\ routed' = IF up' THEN routed ELSE None
           /\ tried' = new
           /\ file' \in {file, Truncated, Torn, Whole(Document(new))}
           /\ bak' \in {bak, file, Torn}
           /\ inSync' => up' /\ file' = Whole(Document(new)) /\ acked' = new
           /\ ~up' => acked' = acked
           /\ faults' = faults => \/ inSync'
                                  \/ ~up' /\ file' = file
                                  \/ ~up' /\ bak' = BackedUp(new)
<1>1. PICK o \in {SaveOK(new)} \cup Cut(new) \cup Failed(new) :
          /\ file' = o.file /\ bak' = o.bak
          /\ faults' = IF o \in {SaveOK(new)} \cup Cut(new) THEN faults ELSE faults + 1
          /\ up' = (o.end # "crash")
          /\ mem' = IF up' THEN new ELSE DefaultConfig
          /\ inSync' = (o.end = "ok")
          /\ acked' = IF o.end = "ok" THEN new ELSE acked
          /\ tried' = new
          /\ routed' = IF up' THEN routed ELSE None
  BY DEF Mutate
<1>2. BackedUp(new) \in {bak, file}
  BY DEF BackedUp
<1>3. CASE o = SaveOK(new)
  <2>1. o.file = Whole(Document(new)) /\ o.bak = BackedUp(new) /\ o.end = "ok"
    BY <1>3 DEF SaveOK
  <2> QED BY <1>1, <1>2, <2>1
<1>4. CASE o \in Cut(new)
  <2>1. /\ o.end = "crash" /\ o.file \in {file, Truncated, Torn} /\ o.bak \in {BackedUp(new), Torn}
        /\ o.file = file \/ o.bak = BackedUp(new)
    <3>1. CASE \E b : o = [file |-> file, bak |-> b, end |-> "crash"] /\ b \in {BackedUp(new), Torn}
      BY <3>1
    <3>2. CASE \E f : o = [file |-> f, bak |-> BackedUp(new), end |-> "crash"] /\ f \in {Truncated, Torn}
      BY <3>2
    <3> QED BY <1>4, <3>1, <3>2 DEF Cut
  <2> QED BY <1>1, <1>2, <2>1
<1>5. CASE o \in Failed(new) /\ o \notin {SaveOK(new)} \cup Cut(new)
  <2>1. /\ o.file \in {file, Truncated, Torn, Whole(Document(new))} /\ o.bak \in {bak, BackedUp(new), Torn}
        /\ o.end \in {"ok", "error"} /\ (o.end = "ok" => o.file = Whole(Document(new)))
    <3>1. CASE \E b : o = [file |-> Whole(Document(new)), bak |-> b, end |-> "ok"] /\ b \in {bak, Torn}
      BY <3>1
    <3>2. CASE \E f, b : /\ o = [file |-> f, bak |-> b, end |-> "error"]
                         /\ f \in {file, Truncated, Torn} /\ b \in {BackedUp(new), Torn}
      BY <3>2
    <3> QED BY <1>5, <3>1, <3>2 DEF Failed
  <2>2. faults' = faults + 1 /\ faults' # faults
    BY <1>1, <1>5
  <2> QED BY <1>1, <1>2, <2>1, <2>2
<1> QED BY <1>1, <1>3, <1>4, <1>5

\* The kinds of the files the model can write.
LEMMA FileKinds ==
    /\ NoFile.kind = "none" /\ Truncated.kind = "empty" /\ Torn.kind = "torn"
    /\ \A d : Whole(d).kind = "whole" /\ Whole(d).doc = d
BY DEF NoFile, Truncated, Torn, Whole

\* Every step is a saved edit, quiet, a check, a load, or a change of the process
\* or the disk.
LEMMA NextSorted ==
    ASSUME Typed, [Next]_vars
    PROVE  \/ (\E new : Saves(new)) \/ Quiet \/ Checks \/ reloadConfig
           \/ Crash \/ Start \/ FirstSaveCut \/ RestoreBackup
<1>1. CASE Admin
  BY <1>1, AdminSorted
<1>2. CASE UNCHANGED vars
  BY <1>2 DEF vars, disk, Quiet
<1>3. ASSUME NEW m \in Models, Route(m) PROVE Quiet
  BY <1>3 DEF Route, Quiet
<1>4. CASE Answer
  BY <1>4 DEF Answer, Quiet
<1> QED BY <1>1, <1>2, <1>3, <1>4 DEF Next

\* The types hold from the start on.
LEMMA TypedStarts == Init => Typed
<1> SUFFICES ASSUME Init PROVE Typed
  OBVIOUS
<1>1. Sane(mem)
  BY DefaultIsSane DEF Init
<1>2. file.kind = "whole" => file.doc \in Docs
  BY FileKinds, StoreAssumption, ZenonT(60) DEF Init
<1>3. bak.kind # "whole"
  BY FileKinds DEF Init
<1> QED BY <1>1, <1>2, <1>3, ZenonT(60) DEF Init, Typed, PendingOK

\* Every step keeps the types.
LEMMA TypedSteps ==
    ASSUME Typed, [Next]_vars
    PROVE  Typed'
<1>1. ASSUME NEW new, Saves(new) PROVE Typed'
  <2>1. Sane(new) /\ Mutate(new) /\ faults \in Nat /\ up
    BY <1>1 DEF Saves, Edit, Typed
  <2>2. /\ up' \in BOOLEAN /\ inSync' \in BOOLEAN /\ faults' \in Nat
        /\ mem' = IF up' THEN new ELSE DefaultConfig
        /\ routed' = IF up' THEN routed ELSE None
        /\ file' \in {file, Truncated, Torn, Whole(Document(new))}
        /\ bak' \in {bak, file, Torn}
    BY <2>1, Outcomes
  <2>3. Sane(mem)'
    BY <2>1, <2>2, DefaultIsSane
  <2>4. Document(new) \in Docs
    BY <2>1, SavedLoads
  <2>5. /\ file'.kind = "whole" => file'.doc \in Docs
        /\ bak'.kind = "whole" => bak'.doc \in Docs
    BY <2>2, <2>4, FileKinds DEF Typed
  <2>6. PendingOK' /\ (pending' # None => up') /\ (routed' # None => up')
    BY <1>1, <2>2 DEF Saves, Typed, PendingOK
  <2> QED BY <2>2, <2>3, <2>5, <2>6 DEF Typed
<1>2. CASE Quiet
  BY <1>2 DEF Quiet, disk, Typed, PendingOK
<1>3. CASE Checks
  <2>1. PICK op \in {"add", "update"}, id \in ProfileArgs, idx \in 1 .. MaxRules \cup {1}, rule \in RuleBodies :
            CheckRule(op, id, idx, rule)
    BY <1>3 DEF Checks
  <2>2. /\ UNCHANGED <<mem, disk, up, routed>> /\ up
        /\ pending'.op = op /\ pending'.rule = rule
    BY <2>1 DEF CheckRule
  <2> QED BY <2>2 DEF disk, Typed, PendingOK
<1>4. CASE reloadConfig
  <2>1. /\ Loadable(file) /\ mem' = Loaded(file, mem) /\ inSync' = (inSync \/ file.kind = "whole")
        /\ UNCHANGED <<file, bak, faults, up, pending, routed>>
    BY <1>4 DEF reloadConfig
  <2>2. Sane(mem)'
    BY <2>1, ParseSound DEF Loaded, Loadable, Typed
  <2> QED BY <2>1, <2>2 DEF Typed, PendingOK
<1>5. CASE Crash
  <2>1. /\ UNCHANGED disk /\ up' = FALSE /\ mem' = DefaultConfig /\ pending' = None /\ routed' = None
    BY <1>5 DEF Crash
  <2> QED BY <2>1, DefaultIsSane DEF Typed, PendingOK, disk
<1>6. CASE Start
  <2>1. /\ Loadable(file) /\ mem' = Loaded(file, DefaultConfig)
        /\ file' = IF file.kind = "none" THEN Whole(Document(mem')) ELSE file
        /\ up' = TRUE /\ inSync' = TRUE /\ UNCHANGED <<bak, faults, pending, routed>>
    BY <1>6 DEF Start
  <2>2. Sane(mem')
    BY <2>1, ParseSound, DefaultIsSane DEF Loaded, Loadable, Typed
  <2>3. Document(mem') \in Docs
    BY <2>2, SavedLoads
  <2>4. file'.kind = "whole" => file'.doc \in Docs
    BY <2>1, <2>3, FileKinds DEF Typed
  <2>5. Sane(mem)'
    BY <2>2
  <2> QED BY <2>1, <2>4, <2>5 DEF Typed, PendingOK
<1>7. CASE FirstSaveCut
  <2>1. file' \in {Truncated, Torn} /\ UNCHANGED <<mem, bak, up, inSync, faults, pending, routed>>
    BY <1>7 DEF FirstSaveCut
  <2> QED BY <2>1, FileKinds DEF Typed, PendingOK
<1>8. CASE RestoreBackup
  <2>1. file' = bak /\ UNCHANGED <<mem, bak, up, inSync, faults, pending, routed>>
    BY <1>8 DEF RestoreBackup
  <2> QED BY <2>1 DEF Typed, PendingOK
<1> QED BY <1>1, <1>2, <1>3, <1>4, <1>5, <1>6, <1>7, <1>8, NextSorted

\* Memory and disk are well typed throughout.
THEOREM TypeCorrect == Spec => []Typed
<1>1. Typed /\ [Next]_vars => Typed'
  BY TypedSteps
<1> QED BY <1>1, TypedStarts, PTL DEF Spec

-----------------------------------------------------------------------------
(* One name space.                                                         *)

\* The name space of the memory and of everything a start may load.
Named ==
    /\ Orderly(mem)
    /\ file.kind = "whole" => Orderly(Parse(file.doc))
    /\ bak.kind = "whole" => Orderly(Parse(bak.doc))

\* A saved configuration loads with the name space it had.
LEMMA SavedOrderly ==
    ASSUME NEW cfg, Sane(cfg), Orderly(cfg)
    PROVE  Orderly(Parse(Document(cfg)))
<1> DEFINE new == Parse(Document(cfg))
<1>1. /\ Sane(new) /\ new.active = cfg.active /\ Len(new.profiles) = Len(cfg.profiles)
      /\ \A i \in 1 .. Len(cfg.profiles) : new.profiles[i] = MigratedProfile(cfg.profiles[i])
  BY SavedLoads
<1> HIDE DEF new
<1>2. \A i \in 1 .. Len(cfg.profiles) : cfg.profiles[i].id = new.profiles[i].id
                                        /\ cfg.profiles[i].name = new.profiles[i].name
  BY <1>1, RulesOf, ProfileMigrated
<1>3. Orderly(new)
  BY <1>1, <1>2, SameNames
<1> QED BY <1>3 DEF new

\* store.go: whatever is added, renamed, deleted, activated, saved, lost and
\* loaded, no profile name or id leads to two profiles and the active id names
\* one, provided the first file is in order.
THEOREM NamespaceKept == DocumentsOrderly => (Spec => []ProfileNamespace)
<1> SUFFICES ASSUME DocumentsOrderly PROVE Spec => []ProfileNamespace
  OBVIOUS
<1>1. Init => Named
  BY DefaultIsSane, FileKinds DEF Init, Named, DocumentsOrderly
<1>2. Typed /\ Named /\ [Next]_vars => Named'
  <2> SUFFICES ASSUME Typed, Named, [Next]_vars PROVE Named'
    OBVIOUS
  <2>1. ASSUME NEW new, Saves(new) PROVE Named'
    <3>1. Sane(new) /\ Mutate(new) /\ faults \in Nat /\ Orderly(new)
      BY <2>1 DEF Saves, Edit, Typed, Named
    <3>2. /\ mem' = new \/ mem' = DefaultConfig
          /\ file' \in {file, Truncated, Torn, Whole(Document(new))}
          /\ bak' \in {bak, file, Torn}
      BY <3>1, Outcomes
    <3>3. Orderly(mem')
      BY <3>1, <3>2, DefaultIsSane
    <3>4. Orderly(Parse(Document(new)))
      BY <3>1, SavedOrderly
    <3>5. /\ file'.kind = "whole" => Orderly(Parse(file'.doc))
          /\ bak'.kind = "whole" => Orderly(Parse(bak'.doc))
      BY <3>2, <3>4, FileKinds DEF Named
    <3> QED BY <3>3, <3>5 DEF Named
  <2>2. CASE Quiet \/ Checks
    BY <2>2 DEF Quiet, Checks, CheckRule, disk, Named
  <2>3. CASE reloadConfig
    <3>1. /\ Loadable(file) /\ mem' = Loaded(file, mem) /\ UNCHANGED <<file, bak>>
      BY <2>3 DEF reloadConfig
    <3>2. Orderly(mem')
      BY <3>1 DEF Loaded, Loadable, Named
    <3> QED BY <3>1, <3>2 DEF Named
  <2>4. CASE Crash
    <3>1. mem' = DefaultConfig /\ UNCHANGED <<file, bak>>
      BY <2>4 DEF Crash, disk
    <3> QED BY <3>1, DefaultIsSane DEF Named
  <2>5. CASE Start
    <3>1. /\ Loadable(file) /\ mem' = Loaded(file, DefaultConfig) /\ bak' = bak
          /\ file' = IF file.kind = "none" THEN Whole(Document(mem')) ELSE file
      BY <2>5 DEF Start
    <3>2. Sane(mem') /\ Orderly(mem')
      BY <3>1, ParseSound, DefaultIsSane DEF Loaded, Loadable, Typed, Named
    <3>3. Orderly(Parse(Document(mem')))
      BY <3>2, SavedOrderly
    <3>4. file'.kind = "whole" => Orderly(Parse(file'.doc))
      BY <3>1, <3>3, FileKinds DEF Named
    <3> QED BY <3>1, <3>2, <3>4 DEF Named
  <2>6. CASE FirstSaveCut
    <3>1. file' \in {Truncated, Torn} /\ UNCHANGED <<mem, bak>>
      BY <2>6 DEF FirstSaveCut
    <3> QED BY <3>1, FileKinds DEF Named
  <2>7. CASE RestoreBackup
    <3>1. file' = bak /\ UNCHANGED <<mem, bak>>
      BY <2>7 DEF RestoreBackup
    <3> QED BY <3>1 DEF Named
  <2> QED BY <2>1, <2>2, <2>3, <2>4, <2>5, <2>6, <2>7, NextSorted
<1>3. Named => ProfileNamespace
  BY DEF Named, ProfileNamespace
<1> QED BY <1>1, <1>2, <1>3, TypeCorrect, PTL DEF Spec

-----------------------------------------------------------------------------
(* Durability and recovery.                                                *)

\* A running process is in step with its file unless a save failed; without a
\* failed write, a dead one has left a file or a backup to come back from.
Kept ==
    /\ Settled(mem)
    /\ file.kind = "none" => file = NoFile /\ bak = NoFile /\ acked = DefaultConfig /\ ~up
    /\ up /\ inSync => file.kind = "whole" /\ Parse(file.doc) = mem
    /\ faults = 0 /\ up => inSync /\ acked = mem
    /\ faults = 0 /\ ~up => Recoverable

\* No edit brings in a rule that Load would change.
LEMMA EditSettled ==
    ASSUME CurrentRules, Typed, Settled(mem), NEW new, Edit(new)
    PROVE  Settled(new)
BY DEF Settled, Edit, Waiting, Typed, PendingOK, CurrentRules

\* The invariant holds from the start on.
LEMMA KeptStarts == Init => Kept
<1> SUFFICES ASSUME Init PROVE Kept
  OBVIOUS
<1>1. Settled(mem)
  BY DefaultIsSane DEF Init, Settled
<1>2. file.kind = "none" => file = NoFile /\ bak = NoFile /\ acked = DefaultConfig /\ ~up
  BY FileKinds DEF Init, Loaded
<1>3. ~up /\ Recoverable
  BY FileKinds DEF Init, Loadable, Recoverable
<1> QED BY <1>1, <1>2, <1>3 DEF Kept

\* Every step keeps it.
LEMMA KeptSteps ==
    ASSUME CurrentRules, Typed, Kept, [Next]_vars
    PROVE  Kept'
<1>1. ASSUME NEW new, Saves(new) PROVE Kept'
  <2>1. Sane(new) /\ Settled(new) /\ Mutate(new) /\ faults \in Nat /\ up
    BY <1>1, EditSettled DEF Saves, Edit, Typed, Kept
  <2>2. /\ up' \in BOOLEAN /\ inSync' \in BOOLEAN /\ faults' \in {faults, faults + 1}
        /\ mem' = IF up' THEN new ELSE DefaultConfig
        /\ file' \in {file, Truncated, Torn, Whole(Document(new))}
        /\ inSync' => up' /\ file' = Whole(Document(new)) /\ acked' = new
        /\ ~up' => acked' = acked
        /\ faults' = faults => \/ inSync'
                               \/ ~up' /\ file' = file
                               \/ ~up' /\ bak' = BackedUp(new)
    BY <2>1, Outcomes
  <2>3. Settled(mem')
    BY <2>1, <2>2, DefaultIsSane DEF Settled
  <2>4. file.kind # "none"
    BY <2>1 DEF Kept
  <2>5. file'.kind # "none"
    BY <2>2, <2>4, FileKinds
  <2>6. Parse(Document(new)) = new
    BY <2>1, RoundTrip
  <2>7. up' /\ inSync' => file'.kind = "whole" /\ Parse(file'.doc) = mem'
    BY <2>2, <2>6, FileKinds
  <2>8. faults' = 0 => faults = 0 /\ faults' = faults
    BY <2>1, <2>2
  <2>9. faults' = 0 /\ up' => inSync' /\ acked' = mem'
    BY <2>2, <2>8
  <2>10. ASSUME faults' = 0, ~up' PROVE Recoverable'
    <3>1. /\ faults = 0 /\ inSync /\ acked = mem /\ file.kind = "whole" /\ Parse(file.doc) = mem
          /\ acked' = acked /\ (file' = file \/ bak' = BackedUp(new))
      BY <2>1, <2>2, <2>8, <2>10 DEF Kept
    <3>2. CASE file' = file
      <4>1. Loadable(file') /\ Loaded(file', DefaultConfig) = acked'
        BY <3>1, <3>2 DEF Loadable, Loaded
      <4> QED BY <4>1 DEF Recoverable
    <3>3. CASE bak' = BackedUp(new)
      <4>1. bak' = file
        BY <3>1, <3>3 DEF BackedUp
      <4> QED BY <3>1, <4>1 DEF Recoverable
    <3> QED BY <3>1, <3>2, <3>3
  <2> QED BY <2>3, <2>5, <2>7, <2>9, <2>10 DEF Kept
<1>2. CASE Quiet \/ Checks
  <2>1. UNCHANGED <<mem, disk, up>>
    BY <1>2 DEF Quiet, Checks, CheckRule
  <2> QED BY <2>1 DEF disk, Kept, Recoverable, Settled
<1>3. CASE reloadConfig
  <2>1. /\ Loadable(file) /\ mem' = Loaded(file, mem) /\ up
        /\ acked' = mem' /\ UNCHANGED <<file, bak, faults, up>>
        /\ inSync' = (inSync \/ file.kind = "whole")
    BY <1>3 DEF reloadConfig
  <2>2. file.kind = "whole" /\ file.doc \in Docs
    BY <2>1 DEF Kept, Typed, Loadable
  <2>3. mem' = Parse(file.doc)
    BY <2>1, <2>2 DEF Loaded
  <2>4. Settled(mem')
    BY <2>2, <2>3, ParseSound
  <2> QED BY <2>1, <2>2, <2>3, <2>4 DEF Kept
<1>4. CASE Crash
  <2>1. mem' = DefaultConfig /\ up' = FALSE /\ up /\ UNCHANGED <<file, bak, inSync, acked, tried, faults>>
    BY <1>4 DEF Crash, disk
  <2>2. Settled(mem')
    BY <2>1, DefaultIsSane DEF Settled
  <2>3. faults = 0 => Recoverable'
    BY <2>1 DEF Kept, Recoverable, Loadable, Loaded
  <2> QED BY <2>1, <2>2, <2>3 DEF Kept
<1>5. CASE Start
  <2>1. /\ Loadable(file) /\ mem' = Loaded(file, DefaultConfig) /\ acked' = mem'
        /\ file' = IF file.kind = "none" THEN Whole(Document(mem')) ELSE file
        /\ up' = TRUE /\ inSync' = TRUE
    BY <1>5 DEF Start
  <2>2. Sane(mem') /\ Settled(mem')
    <3>1. CASE file.kind = "none"
      BY <2>1, <3>1, DefaultIsSane DEF Loaded, Settled
    <3>2. CASE file.kind = "whole"
      BY <2>1, <3>2, ParseSound DEF Loaded, Typed
    <3> QED BY <2>1, <3>1, <3>2 DEF Loadable
  <2>3. Parse(Document(mem')) = mem'
    BY <2>2, RoundTrip
  <2>4. file'.kind = "whole" /\ Parse(file'.doc) = mem'
    <3>1. CASE file.kind = "none"
      BY <2>1, <2>3, <3>1, FileKinds
    <3>2. CASE file.kind = "whole"
      BY <2>1, <3>2 DEF Loaded
    <3> QED BY <2>1, <3>1, <3>2 DEF Loadable
  <2> QED BY <2>1, <2>2, <2>4 DEF Kept
<1>6. CASE FirstSaveCut
  <2>1. /\ file' \in {Truncated, Torn} /\ file = NoFile /\ ~up
        /\ UNCHANGED <<mem, bak, up, inSync, acked, tried, faults>>
    BY <1>6 DEF FirstSaveCut
  <2>2. bak = NoFile /\ acked = DefaultConfig
    BY <2>1, FileKinds DEF Kept
  <2>3. Recoverable'
    BY <2>1, <2>2 DEF Recoverable
  <2>4. file'.kind # "none"
    BY <2>1, FileKinds
  <2> QED BY <2>1, <2>3, <2>4 DEF Kept, Settled
<1>7. CASE RestoreBackup
  <2>1. /\ file' = bak /\ bak.kind = "whole" /\ ~Loadable(file) /\ ~up
        /\ UNCHANGED <<mem, bak, up, inSync, acked, tried, faults>>
    BY <1>7 DEF RestoreBackup
  <2>2. faults = 0 => Recoverable'
    <3> SUFFICES ASSUME faults = 0 PROVE Recoverable'
      OBVIOUS
    <3>1. Parse(bak.doc) = acked
      BY <2>1, FileKinds DEF Kept, Recoverable
    <3> QED BY <2>1, <3>1 DEF Recoverable
  <2> QED BY <2>1, <2>2 DEF Kept, Settled
<1> QED BY <1>1, <1>2, <1>3, <1>4, <1>5, <1>6, <1>7, NextSorted

\* Throughout.
LEMMA AlwaysKept == CurrentRules => (Spec => []Kept)
<1> SUFFICES ASSUME CurrentRules PROVE Spec => []Kept
  OBVIOUS
<1>1. Typed /\ Kept /\ [Next]_vars => Kept'
  BY KeptSteps
<1> QED BY <1>1, KeptStarts, TypeCorrect, PTL DEF Spec

\* store.go save and Load: what the last successful save or load left in memory is
\* what a restart reads back, for every configuration, through every migration.
THEOREM NothingInMemoryOnly == CurrentRules => (Spec => []Durable)
<1> SUFFICES ASSUME CurrentRules PROVE Spec => []Durable
  OBVIOUS
<1>1. Kept => Durable
  BY DEF Kept, Durable, Loadable, Loaded
<1>2. Spec => []Kept
  BY AlwaysKept
<1> QED BY <1>1, <1>2, PTL

\* store.go save, "no way back": killed at any point of any save, the process
\* comes back from the file or from the backup while no write has failed.
THEOREM KillsRecoverable == CurrentRules => (Spec => []Recoverable)
<1> SUFFICES ASSUME CurrentRules PROVE Spec => []Recoverable
  OBVIOUS
<1>1. Typed /\ Kept => Recoverable
  <2>1. ASSUME Kept, up, faults = 0 PROVE Recoverable
    BY <2>1 DEF Kept, Recoverable, Loadable, Loaded
  <2> QED BY <2>1 DEF Typed, Kept, Recoverable
<1>2. Spec => []Kept
  BY AlwaysKept
<1> QED BY <1>1, <1>2, TypeCorrect, PTL

-----------------------------------------------------------------------------
(* The servers the rules name.                                             *)

\* Every server a rule of the configuration names exists, those in R apart.
Audited(cfg, R) == \A r \in AllRules(cfg) : MissingServers(cfg, r) \subseteq R

\* So it is with the memory, with everything a start may load, and with the rule
\* that was checked and not yet written.
Served ==
    /\ Audited(mem, raced)
    /\ file.kind = "whole" => Audited(Parse(file.doc), raced)
    /\ bak.kind = "whole" => Audited(Parse(bak.doc), raced)
    /\ pending # None => MissingServers(mem, pending.rule) \subseteq raced

\* AuditServerRefs lists what the rules miss.
LEMMA AuditLists ==
    ASSUME NEW cfg, NEW R
    PROVE  Audited(cfg, R) <=> AuditServerRefs(cfg) \ {""} \subseteq R
<1> DEFINE A == AllRules(cfg)
<1>1. \A s : s \in AuditServerRefs(cfg) <=> /\ \E r \in A : s \in ServerRefs(r)
                                            /\ s \notin DOMAIN cfg.servers
  <2> DEFINE U == UNION {ServerRefs(r) : r \in A}
  <2>1. \A s : s \in U <=> \E r \in A : s \in ServerRefs(r)
    BY Zenon
  <2>2. AuditServerRefs(cfg) = U \ DOMAIN cfg.servers
    BY DEF AuditServerRefs
  <2> HIDE DEF U, A
  <2> QED BY <2>1, <2>2
<1>2. Audited(cfg, R) <=> \A r \in A : \A s \in ServerRefs(r) : s # "" /\ s \notin DOMAIN cfg.servers => s \in R
  BY DEF Audited, MissingServers
<1> HIDE DEF A
<1> QED BY <1>1, <1>2

\* What a rule misses after an edit it missed before, or has just lost.
LEMMA MissingGrows ==
    ASSUME NEW new, NEW r
    PROVE  MissingServers(new, r) \subseteq MissingServers(mem, r) \cup (ServerRefs(r) \cap Lost(new))
BY DEF MissingServers, Lost

\* An edit leaves its rules their servers.
LEMMA EditAudited ==
    ASSUME Typed, Served, NEW new, Saves(new)
    PROVE  /\ Audited(new, raced')
           /\ pending # None => MissingServers(new, pending.rule) \subseteq raced'
<1>1. /\ AllRules(new) \subseteq AllRules(mem) \cup Waiting
      /\ \A r \in AllRules(new) : ServerRefs(r) \cap Lost(new) = {}
      /\ raced \subseteq raced'
      /\ pending # None => ServerRefs(pending.rule) \cap Lost(new) \subseteq raced'
  BY DEF Saves, Edit
<1>2. pending # None => MissingServers(new, pending.rule) \subseteq raced'
  BY <1>1, MissingGrows DEF Served
<1>3. ASSUME NEW r \in AllRules(new) PROVE MissingServers(new, r) \subseteq raced'
  <2>1. MissingServers(mem, r) \subseteq raced
    BY <1>1 DEF Waiting, Served, Audited
  <2> QED BY <1>1, <2>1, MissingGrows
<1> QED BY <1>2, <1>3 DEF Audited

\* More excuses excuse no less.
LEMMA AuditedGrows ==
    ASSUME NEW cfg, NEW R, NEW Q, R \subseteq Q, Audited(cfg, R)
    PROVE  Audited(cfg, Q)
BY DEF Audited

\* Every step keeps the servers of the rules.
LEMMA ServedSteps ==
    ASSUME CurrentRules, Typed, Kept, Served, [Next]_vars
    PROVE  Served'
<1>0. Audited(DefaultConfig, raced')
  BY DefaultIsSane DEF Audited
<1>1. ASSUME NEW new, Saves(new) PROVE Served'
  <2>1. Sane(new) /\ Settled(new) /\ Mutate(new) /\ faults \in Nat /\ raced \subseteq raced'
    BY <1>1, EditSettled DEF Saves, Edit, Typed, Kept
  <2>2. /\ mem' = IF up' THEN new ELSE DefaultConfig
        /\ file' \in {file, Truncated, Torn, Whole(Document(new))}
        /\ bak' \in {bak, file, Torn}
    BY <2>1, Outcomes
  <2>3. Audited(new, raced') /\ (pending # None => MissingServers(new, pending.rule) \subseteq raced')
    BY <1>1, EditAudited
  <2>4. Audited(mem', raced')
    BY <1>0, <2>2, <2>3
  <2>5. Parse(Document(new)) = new
    BY <2>1, RoundTrip
  <2>6. /\ file.kind = "whole" => Audited(Parse(file.doc), raced')
        /\ bak.kind = "whole" => Audited(Parse(bak.doc), raced')
    BY <2>1, AuditedGrows DEF Served
  <2>7. /\ file'.kind = "whole" => Audited(Parse(file'.doc), raced')
        /\ bak'.kind = "whole" => Audited(Parse(bak'.doc), raced')
    BY <2>2, <2>3, <2>5, <2>6, FileKinds
  <2>8. pending' # None => MissingServers(mem', pending'.rule) \subseteq raced'
    BY <1>1, <2>2, <2>3 DEF Saves
  <2> QED BY <2>4, <2>7, <2>8 DEF Served
<1>2. CASE Quiet
  BY <1>2 DEF Quiet, disk, Served
<1>3. CASE Checks
  <2>1. PICK op \in {"add", "update"}, id \in ProfileArgs, idx \in 1 .. MaxRules \cup {1}, rule \in RuleBodies :
            CheckRule(op, id, idx, rule)
    BY <1>3 DEF Checks
  <2>2. /\ UNCHANGED <<mem, file, bak, raced>> /\ pending'.rule = rule
        /\ MissingServers(mem, rule) = {}
    BY <2>1 DEF CheckRule, disk
  <2> QED BY <2>2 DEF Served
<1>4. CASE reloadConfig
  <2>1. /\ mem' = Loaded(file, mem) /\ UNCHANGED <<file, bak, pending>> /\ Loadable(file) /\ Races(mem')
    BY <1>4 DEF reloadConfig
  <2>2. /\ raced \subseteq raced'
        /\ pending # None => ServerRefs(pending.rule) \cap Lost(mem') \subseteq raced'
    BY <2>1 DEF Races, Lost
  <2>3. Audited(mem', raced')
    BY <2>1, <2>2, AuditedGrows DEF Loaded, Loadable, Served
  <2>4. /\ file.kind = "whole" => Audited(Parse(file.doc), raced')
        /\ bak.kind = "whole" => Audited(Parse(bak.doc), raced')
    BY <2>2, AuditedGrows DEF Served
  <2>5. pending # None => MissingServers(mem', pending.rule) \subseteq raced'
    BY <2>2, MissingGrows DEF Served
  <2> QED BY <2>1, <2>3, <2>4, <2>5 DEF Served
<1>5. CASE Crash
  <2>1. mem' = DefaultConfig /\ pending' = None /\ UNCHANGED <<file, bak, raced>>
    BY <1>5 DEF Crash, disk
  <2> QED BY <1>0, <2>1 DEF Served
<1>6. CASE Start
  <2>1. /\ Loadable(file) /\ mem' = Loaded(file, DefaultConfig) /\ ~up
        /\ file' = IF file.kind = "none" THEN Whole(Document(DefaultConfig)) ELSE file
        /\ UNCHANGED <<bak, pending, raced>>
    BY <1>6 DEF Start, Loaded
  <2>2. Audited(mem', raced')
    BY <1>0, <2>1 DEF Loaded, Loadable, Served
  <2>3. Parse(Document(DefaultConfig)) = DefaultConfig
    BY DefaultIsSane, RoundTrip DEF Settled
  <2>4. file'.kind = "whole" => Audited(Parse(file'.doc), raced')
    BY <1>0, <2>1, <2>3, FileKinds DEF Served
  <2>5. pending' = None
    BY <2>1 DEF Typed
  <2> QED BY <2>1, <2>2, <2>4, <2>5 DEF Served
<1>7. CASE FirstSaveCut
  <2>1. file' \in {Truncated, Torn} /\ UNCHANGED <<mem, bak, pending, raced>>
    BY <1>7 DEF FirstSaveCut
  <2> QED BY <2>1, FileKinds DEF Served
<1>8. CASE RestoreBackup
  <2>1. file' = bak /\ UNCHANGED <<mem, bak, pending, raced>>
    BY <1>8 DEF RestoreBackup
  <2> QED BY <2>1 DEF Served
<1> QED BY <1>1, <1>2, <1>3, <1>4, <1>5, <1>6, <1>7, <1>8, NextSorted

\* store.go DeleteServer, "a rule left naming a deleted server answers 500": a rule
\* names a server that does not exist, and a matched request misses one, only when
\* the server was removed between the check of that rule and its write, provided
\* the first file names its own servers.
LEMMA ServersStay ==
    CurrentRules /\ DocumentsServed => (Spec => [](DanglingOnlyRaced /\ RoutedServersExist))
<1> SUFFICES ASSUME CurrentRules, DocumentsServed
             PROVE  Spec => [](DanglingOnlyRaced /\ RoutedServersExist)
  OBVIOUS
<1>1. Init => Served
  <2> SUFFICES ASSUME Init PROVE Served
    OBVIOUS
  <2>1. Audited(mem, raced)
    BY DefaultIsSane DEF Init, Audited
  <2>2. \A d \in Documents : Audited(Parse(d), raced)
    BY AuditLists DEF DocumentsServed
  <2> QED BY <2>1, <2>2, FileKinds DEF Init, Served
<1>2. Typed /\ Kept /\ Served /\ [Next]_vars => Served'
  BY ServedSteps
<1>3. Served => DanglingOnlyRaced /\ RoutedServersExist
  <2> SUFFICES ASSUME Served PROVE DanglingOnlyRaced /\ RoutedServersExist
    OBVIOUS
  <2>1. Audited(mem, raced)
    BY DEF Served
  <2>2. DanglingOnlyRaced
    BY <2>1, AuditLists DEF DanglingOnlyRaced
  <2> QED BY <2>1, <2>2 DEF Audited, RoutedServersExist
<1>4. Spec => []Kept
  BY AlwaysKept
<1> QED BY <1>1, <1>2, <1>3, <1>4, TypeCorrect, PTL DEF Spec

-----------------------------------------------------------------------------
(* The scan of GetRuleByModel.                                             *)

\* What the scan holds: has it met the name itself, the rule, the length of the
\* pattern that brought it.
Held == [exact : BOOLEAN, rule : Seq(Rules), len : Nat]

\* What that means after n of the rules w, where the scan has seen the names
\* claim[i] of the i-th.
HoldsExact(acc, n, w, claim, model) ==
    \E i \in 1 .. n : /\ model \in claim[i] /\ acc.rule = <<w[i]>>
                      /\ \A j \in 1 .. n : j < i => model \notin claim[j]
HoldsNone(acc, n, claim, model) ==
    acc.rule = <<>> /\ acc.len = 0 /\ \A i \in 1 .. n : \A y \in claim[i] : <<y, model>> \notin Matching
HoldsLongest(acc, n, w, claim, model) ==
    \E i \in 1 .. n : /\ acc.rule = <<w[i]>>
                      /\ \E x \in claim[i] : <<x, model>> \in Matching /\ Specificity[x] = acc.len
                      /\ \A j \in 1 .. n : \A y \in claim[j] :
                            <<y, model>> \in Matching => Specificity[y] <= acc.len /\ (j < i => Specificity[y] < acc.len)
ScanHolds(acc, n, w, claim, model) ==
    /\ acc.exact => HoldsExact(acc, n, w, claim, model)
    /\ ~acc.exact => /\ \A i \in 1 .. n : model \notin claim[i]
                     /\ HoldsNone(acc, n, claim, model) \/ HoldsLongest(acc, n, w, claim, model)

\* A pattern that matches has a length.
LEMMA PatternLength ==
    ASSUME NEW y, NEW model, <<y, model>> \in Matching
    PROVE  Specificity[y] \in Nat \ {0}
<1> DEFINE pm == <<y, model>>
<1>1. pm[1] = y /\ pm \in Matching
  OBVIOUS
<1> HIDE DEF pm
<1> QED BY <1>1, StoreAssumption

\* The order of lengths.
LEMMA NatOrder ==
    /\ \A a, b \in Nat : a < b => a <= b
    /\ \A a \in Nat : a <= a
OBVIOUS

\* One name more of the last rule.
LEMMA MeetHolds ==
    ASSUME NEW n \in Nat, n > 0, NEW w, NEW claim, claim \in [1 .. n -> SUBSET STRING], NEW model,
           NEW acc \in Held, ScanHolds(acc, n, w, claim, model), NEW name \in STRING,
           NEW new, new = Meet(acc, name, w[n], model),
           NEW more, more = [claim EXCEPT ![n] = claim[n] \cup {name}]
    PROVE  ScanHolds(new, n, w, more, model)
<1>1. n \in 1 .. n /\ \A i \in 1 .. n : i \in Nat /\ ~(n < i)
  OBVIOUS
<1>2. more[n] = claim[n] \cup {name} /\ \A i \in 1 .. n : i # n => more[i] = claim[i]
  BY <1>1
<1>3. \A i \in 1 .. n : claim[i] \subseteq more[i] /\ \A y \in more[i] : y \in claim[i] \/ (i = n /\ y = name)
  BY <1>2
<1>4. acc.exact \in BOOLEAN /\ acc.len \in Nat
  BY DEF Held
<1>5. CASE acc.exact
  <2>1. new = acc
    BY <1>5 DEF Meet
  <2>2. PICK i \in 1 .. n : /\ model \in claim[i] /\ acc.rule = <<w[i]>>
                            /\ \A j \in 1 .. n : j < i => model \notin claim[j]
    BY <1>5 DEF ScanHolds, HoldsExact
  <2>3. \A j \in 1 .. n : j < i => model \notin more[j]
    BY <1>1, <1>2, <2>2
  <2>4. HoldsExact(acc, n, w, more, model)
    BY <1>3, <2>2, <2>3 DEF HoldsExact
  <2> QED BY <1>5, <2>1, <2>4 DEF ScanHolds
<1>6. CASE ~acc.exact /\ name = model
  <2>1. new = [exact |-> TRUE, rule |-> <<w[n]>>, len |-> 0]
    BY <1>6 DEF Meet
  <2>2. \A i \in 1 .. n : model \notin claim[i]
    BY <1>6 DEF ScanHolds
  <2>3. model \in more[n] /\ \A j \in 1 .. n : j < n => model \notin more[j]
    BY <1>2, <1>6, <2>2
  <2>4. new.exact /\ new.rule = <<w[n]>>
    BY <2>1
  <2>5. HoldsExact(new, n, w, more, model)
    BY <1>1, <2>3, <2>4 DEF HoldsExact
  <2> QED BY <2>4, <2>5 DEF ScanHolds
<1>7. CASE ~acc.exact /\ name # model
  <2>1. \A i \in 1 .. n : model \notin more[i]
    BY <1>3, <1>7 DEF ScanHolds
  <2>2. HoldsNone(acc, n, claim, model) \/ HoldsLongest(acc, n, w, claim, model)
    BY <1>7 DEF ScanHolds
  <2>3. CASE <<name, model>> \in Matching /\ Specificity[name] > acc.len
    <3>1. new = [exact |-> FALSE, rule |-> <<w[n]>>, len |-> Specificity[name]]
      BY <1>7, <2>3 DEF Meet, MoreSpecific
    <3>2. Specificity[name] \in Nat
      BY <2>3, PatternLength
    <3>3. ~new.exact /\ new.rule = <<w[n]>> /\ new.len = Specificity[name]
      BY <3>1
    <3>4. \A j \in 1 .. n : \A y \in claim[j] : <<y, model>> \in Matching => Specificity[y] < Specificity[name]
      <4> SUFFICES ASSUME NEW j \in 1 .. n, NEW y \in claim[j], <<y, model>> \in Matching
                   PROVE  Specificity[y] < Specificity[name]
        OBVIOUS
      <4>1. Specificity[y] \in Nat
        BY PatternLength
      <4>2. Specificity[y] <= acc.len
        BY <2>2 DEF HoldsNone, HoldsLongest
      <4> QED BY <1>4, <2>3, <3>2, <4>1, <4>2
    <3>5. ASSUME NEW j \in 1 .. n, NEW y \in more[j], <<y, model>> \in Matching
          PROVE  Specificity[y] <= Specificity[name] /\ (j < n => Specificity[y] < Specificity[name])
      <4>1. Specificity[y] \in Nat
        BY <3>5, PatternLength
      <4>2. CASE y \in claim[j]
        <5>1. Specificity[y] < Specificity[name]
          BY <3>4, <3>5, <4>2
        <5> QED BY <3>2, <4>1, <5>1, NatOrder
      <4>3. CASE j = n /\ y = name
        <5>1. ~(j < n) /\ Specificity[y] = Specificity[name]
          BY <1>1, <4>3
        <5> QED BY <3>2, <5>1, NatOrder
      <4> QED BY <1>3, <3>5, <4>2, <4>3
    <3>6. name \in more[n]
      BY <1>2
    <3>7. HoldsLongest(new, n, w, more, model)
      BY <1>1, <2>3, <3>3, <3>5, <3>6 DEF HoldsLongest
    <3> QED BY <2>1, <3>3, <3>7 DEF ScanHolds
  <2>4. CASE ~(<<name, model>> \in Matching /\ Specificity[name] > acc.len)
    <3>1. new = acc
      BY <1>7, <2>4 DEF Meet, MoreSpecific
    <3>2. <<name, model>> \in Matching => Specificity[name] \in Nat \ {0}
      BY PatternLength
    <3>3. CASE HoldsNone(acc, n, claim, model)
      <4>1. <<name, model>> \notin Matching
        BY <2>4, <3>2, <3>3 DEF HoldsNone
      <4>2. HoldsNone(acc, n, more, model)
        BY <1>3, <3>3, <4>1 DEF HoldsNone
      <4> QED BY <1>7, <2>1, <3>1, <4>2 DEF ScanHolds
    <3>4. CASE HoldsLongest(acc, n, w, claim, model)
      <4>1. PICK i \in 1 .. n :
                /\ acc.rule = <<w[i]>>
                /\ \E x \in claim[i] : <<x, model>> \in Matching /\ Specificity[x] = acc.len
                /\ \A j \in 1 .. n : \A y \in claim[j] :
                      <<y, model>> \in Matching => Specificity[y] <= acc.len /\ (j < i => Specificity[y] < acc.len)
        BY <3>4 DEF HoldsLongest
      <4>2. \E x \in more[i] : <<x, model>> \in Matching /\ Specificity[x] = acc.len
        BY <1>3, <4>1
      <4>3. <<name, model>> \in Matching => Specificity[name] <= acc.len
        BY <1>4, <2>4, <3>2
      <4>4. ASSUME NEW j \in 1 .. n, NEW y \in more[j], <<y, model>> \in Matching
            PROVE  Specificity[y] <= acc.len /\ (j < i => Specificity[y] < acc.len)
        <5>1. CASE y \in claim[j]
          BY <4>1, <4>4, <5>1
        <5>2. CASE j = n /\ y = name
          BY <1>1, <4>3, <4>4, <5>2
        <5> QED BY <1>3, <5>1, <5>2
      <4>5. HoldsLongest(acc, n, w, more, model)
        BY <4>1, <4>2, <4>4 DEF HoldsLongest
      <4> QED BY <1>7, <2>1, <3>1, <4>5 DEF ScanHolds
    <3> QED BY <2>2, <3>3, <3>4
  <2> QED BY <2>3, <2>4
<1> QED BY <1>4, <1>5, <1>6, <1>7

\* The scan of a rule of which no name has been seen.
LEMMA NextRuleHolds ==
    ASSUME NEW n \in Nat, NEW w, NEW claim, NEW model, NEW acc, ScanHolds(acc, n, w, claim, model),
           NEW u, \A i \in 1 .. n : u[i] = w[i],
           NEW more, more[n + 1] = {}, \A i \in 1 .. n : more[i] = claim[i]
    PROVE  ScanHolds(acc, n + 1, u, more, model)
<1> DEFINE m == n + 1
<1>1. \A i \in 1 .. n : i \in 1 .. m
  OBVIOUS
<1>2. \A i \in 1 .. m : i \in 1 .. n \/ more[i] = {}
  OBVIOUS
<1> HIDE DEF m
<1>3. \A i \in 1 .. m : \A y \in more[i] : i \in 1 .. n /\ y \in claim[i]
  BY <1>2
<1>4. HoldsExact(acc, n, w, claim, model) => HoldsExact(acc, m, u, more, model)
  BY <1>1, <1>3 DEF HoldsExact
<1>5. HoldsNone(acc, n, claim, model) => HoldsNone(acc, m, more, model)
  BY <1>3 DEF HoldsNone
<1>6. HoldsLongest(acc, n, w, claim, model) => HoldsLongest(acc, m, u, more, model)
  BY <1>1, <1>3 DEF HoldsLongest
<1>7. ScanHolds(acc, m, u, more, model)
  BY <1>1, <1>3, <1>4, <1>5, <1>6 DEF ScanHolds
<1> QED BY <1>7 DEF m

ScanStep(rule, model) == [p \in Held \X STRING |-> Meet(p[1], p[2], rule, model)]
RuleStep(model) == [p \in Held \X Rules |-> ScanRule(p[1], p[2], model)]
NothingHeld == [exact |-> FALSE, rule |-> <<>>, len |-> 0]

\* Meeting one more name leaves an answer so far.
LEMMA MeetTyped ==
    ASSUME NEW acc \in Held, NEW name, NEW rule \in Rules, NEW model
    PROVE  Meet(acc, name, rule, model) \in Held
<1>1. <<rule>> \in Seq(Rules)
  OBVIOUS
<1> DEFINE Length == Nat
           one == <<rule>>
<1>2. 0 \in Length /\ (<<name, model>> \in Matching => Specificity[name] \in Length)
  BY PatternLength
<1> HIDE DEF Length, one
<1>3. [exact |-> TRUE, rule |-> one, len |-> 0] \in [exact : BOOLEAN, rule : Seq(Rules), len : Length]
  BY <1>1, <1>2 DEF one
<1>4. <<name, model>> \in Matching =>
        [exact |-> FALSE, rule |-> one, len |-> Specificity[name]] \in [exact : BOOLEAN, rule : Seq(Rules), len : Length]
  BY <1>1, <1>2 DEF one
<1>5. Held = [exact : BOOLEAN, rule : Seq(Rules), len : Length]
  BY DEF Held, Length
<1> QED BY <1>3, <1>4, <1>5 DEF Meet, one

\* The scan over the names of a rule.
LEMMA ScanSteps ==
    ASSUME NEW rule \in Rules, NEW model
    PROVE  /\ ScanStep(rule, model) \in [Held \X STRING -> Held]
           /\ \A acc \in Held, name \in STRING : ScanStep(rule, model)[<<acc, name>>] = Meet(acc, name, rule, model)
<1>1. \A p \in Held \X STRING : Meet(p[1], p[2], rule, model) \in Held
  BY MeetTyped
<1> QED BY <1>1 DEF ScanStep

\* The loop over the names of an enabled rule.
LEMMA NamesFolded ==
    ASSUME NEW acc \in Held, NEW rule \in Rules, rule.enabled, NEW model
    PROVE  ScanRule(acc, rule, model) = LeftFold(rule.models, Held, acc, ScanStep(rule, model))
<1> DEFINE w == rule.models
           step == ScanStep(rule, model)
           g == PartsFold(w, Held, acc, step)
           c == CHOOSE h : h = [R \in SUBSET DOMAIN w |->
                    IF R = {} THEN acc ELSE Meet(h[R \ {Max(R)}], w[Max(R)], rule, model)]
<1>1. ScanRule(acc, rule, model) = c[DOMAIN w]
  BY Zenon DEF ScanRule, FoldLeft, MapThenFoldSet
<1>2. w \in Seq(STRING)
  BY DEF Rules
<1>3. /\ Foldable(w, STRING, Held, acc, step) /\ \A i \in DOMAIN w : w[i] \in STRING
      /\ \A a \in Held, x \in STRING : step[<<a, x>>] = Meet(a, x, rule, model)
  <2>1. \A i \in DOMAIN w : w[i] \in STRING
    BY <1>2, ElementOfSeq, LenProperties
  <2> QED BY <1>2, <2>1, ScanSteps DEF Foldable
<1> HIDE DEF step, w
<1>4. IsLeftFold(g, w, Held, acc, step)
  BY <1>3, PartsSolve
<1> HIDE DEF g
<1>5. g = [R \in SUBSET DOMAIN w |-> IF R = {} THEN acc ELSE Meet(g[R \ {Max(R)}], w[Max(R)], rule, model)]
  <2>1. \A R \in SUBSET DOMAIN w : R # {} => g[R \ {Max(R)}] \in Held /\ w[Max(R)] \in STRING
    BY <1>3, <1>4 DEF IsLeftFold
  <2>2. \A R \in SUBSET DOMAIN w : R # {} => g[R] = Meet(g[R \ {Max(R)}], w[Max(R)], rule, model)
    BY <1>3, <1>4, <2>1 DEF IsLeftFold
  <2> QED BY <1>4, <2>2 DEF IsLeftFold
<1>6. c = [R \in SUBSET DOMAIN w |-> IF R = {} THEN acc ELSE Meet(c[R \ {Max(R)}], w[Max(R)], rule, model)]
  BY <1>5, Zenon
<1> HIDE DEF c
<1>7. SolvesLeft(c, w, Held, acc, step)
  <2>1. \A R \in SUBSET DOMAIN w : R # {} => Max(R) \in DOMAIN w
    BY <1>4 DEF IsLeftFold
  <2>2. c[{}] = acc
    BY <1>6
  <2>3. ASSUME NEW R \in SUBSET DOMAIN w, R # {}, c[R \ {Max(R)}] \in Held
        PROVE  c[R] = step[<<c[R \ {Max(R)}], w[Max(R)]>>]
    <3>1. w[Max(R)] \in STRING
      BY <1>3, <2>1, <2>3
    <3>2. c[R] = Meet(c[R \ {Max(R)}], w[Max(R)], rule, model)
      BY <1>6, <2>3
    <3> QED BY <1>3, <2>3, <3>1, <3>2
  <2> QED BY <2>2, <2>3 DEF SolvesLeft
<1>8. c[DOMAIN w] = LeftFold(w, Held, acc, step)
  BY <1>3, <1>7, LeftFoldIs
<1> QED BY <1>1, <1>8 DEF w, step

\* The scan over the rules.
LEMMA RuleSteps ==
    ASSUME NEW model
    PROVE  /\ RuleStep(model) \in [Held \X Rules -> Held]
           /\ \A acc \in Held, rule \in Rules : RuleStep(model)[<<acc, rule>>] = ScanRule(acc, rule, model)
<1>1. ASSUME NEW acc \in Held, NEW rule \in Rules PROVE ScanRule(acc, rule, model) \in Held
  <2>1. CASE rule.enabled
    <3>1. Foldable(rule.models, STRING, Held, acc, ScanStep(rule, model))
      BY ScanSteps DEF Foldable, Rules
    <3> QED BY <2>1, <3>1, NamesFolded, LeftFoldType
  <2>2. CASE ~rule.enabled
    BY <2>2 DEF ScanRule
  <2> QED BY <2>1, <2>2
<1>2. \A p \in Held \X Rules : ScanRule(p[1], p[2], model) \in Held
  BY <1>1
<1> QED BY <1>2 DEF RuleStep

\* The scan starts with no answer.
LEMMA NothingTyped == NothingHeld \in Held
<1> DEFINE Length == Nat
<1>1. 0 \in Length /\ <<>> \in Seq(Rules)
  OBVIOUS
<1> HIDE DEF Length
<1>2. NothingHeld \in [exact : BOOLEAN, rule : Seq(Rules), len : Length]
  BY <1>1 DEF NothingHeld
<1> QED BY <1>2 DEF Held, Length

\* The loop over the rules.
LEMMA RulesFolded ==
    ASSUME NEW w \in Seq(Rules), NEW model
    PROVE  ScanRules(w, model) = LeftFold(w, Held, NothingHeld, RuleStep(model))
<1> DEFINE step == RuleStep(model)
           g == PartsFold(w, Held, NothingHeld, step)
           c == CHOOSE h : h = [R \in SUBSET DOMAIN w |->
                    IF R = {} THEN NothingHeld ELSE ScanRule(h[R \ {Max(R)}], w[Max(R)], model)]
<1>1. ScanRules(w, model) = c[DOMAIN w]
  BY Zenon DEF ScanRules, FoldLeft, MapThenFoldSet, NothingHeld
<1>2. /\ Foldable(w, Rules, Held, NothingHeld, step) /\ \A i \in DOMAIN w : w[i] \in Rules
      /\ \A a \in Held, x \in Rules : step[<<a, x>>] = ScanRule(a, x, model)
  <2>1. \A i \in DOMAIN w : w[i] \in Rules
    BY ElementOfSeq, LenProperties
  <2> QED BY <2>1, RuleSteps, NothingTyped DEF Foldable
<1> HIDE DEF step
<1>4. IsLeftFold(g, w, Held, NothingHeld, step)
  BY <1>2, PartsSolve
<1> HIDE DEF g
<1>5. g = [R \in SUBSET DOMAIN w |-> IF R = {} THEN NothingHeld ELSE ScanRule(g[R \ {Max(R)}], w[Max(R)], model)]
  <2>1. \A R \in SUBSET DOMAIN w : R # {} => g[R \ {Max(R)}] \in Held /\ w[Max(R)] \in Rules
    BY <1>2, <1>4 DEF IsLeftFold
  <2>2. \A R \in SUBSET DOMAIN w : R # {} => g[R] = ScanRule(g[R \ {Max(R)}], w[Max(R)], model)
    BY <1>2, <1>4, <2>1 DEF IsLeftFold
  <2> QED BY <1>4, <2>2 DEF IsLeftFold
<1>6. c = [R \in SUBSET DOMAIN w |-> IF R = {} THEN NothingHeld ELSE ScanRule(c[R \ {Max(R)}], w[Max(R)], model)]
  BY <1>5, Zenon
<1> HIDE DEF c
<1>7. SolvesLeft(c, w, Held, NothingHeld, step)
  <2>1. \A R \in SUBSET DOMAIN w : R # {} => Max(R) \in DOMAIN w
    BY <1>4 DEF IsLeftFold
  <2>2. c[{}] = NothingHeld
    BY <1>6
  <2>3. ASSUME NEW R \in SUBSET DOMAIN w, R # {}, c[R \ {Max(R)}] \in Held
        PROVE  c[R] = step[<<c[R \ {Max(R)}], w[Max(R)]>>]
    <3>1. w[Max(R)] \in Rules
      BY <1>2, <2>1, <2>3
    <3>2. c[R] = ScanRule(c[R \ {Max(R)}], w[Max(R)], model)
      BY <1>6, <2>3
    <3> QED BY <1>2, <2>3, <3>1, <3>2
  <2> QED BY <2>2, <2>3 DEF SolvesLeft
<1>8. c[DOMAIN w] = LeftFold(w, Held, NothingHeld, step)
  BY <1>2, <1>7, LeftFoldIs
<1> QED BY <1>1, <1>8 DEF step

\* The elements of a sequence that grew.
LEMMA AppendedSet ==
    ASSUME NEW E, NEW u \in Seq(E), NEW e \in E
    PROVE  ToSet(Append(u, e)) = ToSet(u) \cup {e}
<1> DEFINE z == Append(u, e)
           n == Len(u)
<1>1. /\ z \in Seq(E) /\ Len(z) = n + 1 /\ z[n + 1] = e /\ \A i \in 1 .. n : z[i] = u[i]
      /\ n \in Nat /\ DOMAIN u = 1 .. n
  BY AppendProperties, LenProperties
<1> HIDE DEF z, n
<1>2. DOMAIN z = 1 .. (n + 1)
  BY <1>1, LenProperties
<1>3. \A i \in 1 .. (n + 1) : i = n + 1 \/ i \in 1 .. n
  BY <1>1
<1>4. n + 1 \in 1 .. (n + 1) /\ \A i \in 1 .. n : i \in 1 .. (n + 1)
  BY <1>1
<1>5. ToSet(z) = {z[i] : i \in 1 .. (n + 1)} /\ ToSet(u) = {u[i] : i \in 1 .. n}
  BY <1>1, <1>2 DEF ToSet
<1>6. ASSUME NEW x \in ToSet(z) PROVE x \in ToSet(u) \cup {e}
  BY <1>1, <1>3, <1>5, <1>6
<1>7. ASSUME NEW x \in ToSet(u) PROVE x \in ToSet(z)
  BY <1>1, <1>4, <1>5, <1>7
<1>8. e \in ToSet(z)
  BY <1>1, <1>4, <1>5
<1>9. ToSet(z) = ToSet(u) \cup {e}
  BY <1>6, <1>7, <1>8
<1> QED BY <1>9 DEF z

\* After all names of an enabled rule.
LEMMA RuleHolds ==
    ASSUME NEW n \in Nat, n > 0, NEW w, NEW claim, claim \in [1 .. n -> SUBSET STRING], claim[n] = {}, NEW model,
           NEW acc \in Held, ScanHolds(acc, n, w, claim, model), NEW rule \in Rules, rule = w[n], rule.enabled,
           NEW seen, seen = [claim EXCEPT ![n] = ToSet(rule.models)]
    PROVE  ScanHolds(ScanRule(acc, rule, model), n, w, seen, model)
<1> DEFINE step == ScanStep(rule, model)
           Upto(u) == LeftFold(u, Held, acc, step)
           Seen(u) == [claim EXCEPT ![n] = ToSet(u)]
           Q == {u \in Seq(STRING) : ScanHolds(Upto(u), n, w, Seen(u), model)}
<1>1. /\ step \in [Held \X STRING -> Held]
      /\ \A a \in Held, x \in STRING : step[<<a, x>>] = Meet(a, x, rule, model)
  BY ScanSteps
<1> HIDE DEF step
<1>2. \A u \in Seq(STRING) : Foldable(u, STRING, Held, acc, step)
  BY <1>1 DEF Foldable
<1>3. \A u \in Seq(STRING) : Upto(u) \in Held
  BY <1>2, LeftFoldType
<1>4. <<>> \in Q
  <2>1. <<>> \in Seq(STRING) /\ ToSet(<<>>) = {}
    BY DEF ToSet
  <2>2. Upto(<<>>) = acc
    <3> DEFINE e == <<>>
    <3>1. e = <<>> /\ Foldable(e, STRING, Held, acc, step)
      BY <1>2, <2>1
    <3> HIDE DEF e
    <3>2. LeftFold(e, Held, acc, step) = acc
      BY <3>1, LeftFoldType
    <3> QED BY <3>2 DEF e
  <2>3. Seen(<<>>) = claim
    BY <2>1
  <2> QED BY <2>1, <2>2, <2>3
<1>5. ASSUME NEW u \in Seq(STRING), NEW x \in STRING, u \in Q PROVE Append(u, x) \in Q
  <2> DEFINE z == Append(u, x)
             a == Upto(u)
             s == Seen(u)
  <2>1. a \in Held /\ ScanHolds(a, n, w, s, model) /\ z \in Seq(STRING)
    BY <1>3, <1>5, AppendProperties
  <2>2. Upto(z) = Meet(a, x, w[n], model)
    <3>1. Upto(z) = step[<<a, x>>]
      BY <1>2, LeftFoldAppend
    <3> QED BY <1>1, <2>1, <3>1
  <2>3. n \in 1 .. n
    OBVIOUS
  <2>4. ToSet(u) \in SUBSET STRING /\ ToSet(z) = ToSet(u) \cup {x}
    <3>1. \A i \in DOMAIN u : u[i] \in STRING
      BY ElementOfSeq, LenProperties
    <3>2. ToSet(u) \in SUBSET STRING
      BY <3>1 DEF ToSet
    <3> QED BY <3>2, AppendedSet
  <2> HIDE DEF z
  <2>5. s \in [1 .. n -> SUBSET STRING] /\ s[n] = ToSet(u) /\ Seen(z) = [s EXCEPT ![n] = s[n] \cup {x}]
    BY <2>3, <2>4
  <2> HIDE DEF a, s, Upto, Seen
  <2>6. ScanHolds(Upto(z), n, w, Seen(z), model)
    BY <2>1, <2>2, <2>5, MeetHolds
  <2> QED BY <2>1, <2>6 DEF z, Upto, Seen
<1> HIDE DEF Q
<1>6. Seq(STRING) \subseteq Q
  BY <1>4, <1>5, SeqInd
<1>7. rule.models \in Seq(STRING)
  BY DEF Rules
<1>8. ScanHolds(Upto(rule.models), n, w, Seen(rule.models), model)
  BY <1>6, <1>7 DEF Q
<1> QED BY <1>8, NamesFolded DEF step

ClaimsOf(w) == [i \in 1 .. Len(w) |-> Claims(w[i])]

\* After all rules.
LEMMA RulesHold ==
    ASSUME NEW w \in Seq(Rules), NEW model
    PROVE  ScanHolds(ScanRules(w, model), Len(w), w, ClaimsOf(w), model) /\ ScanRules(w, model) \in Held
<1> DEFINE step == RuleStep(model)
           Upto(u) == LeftFold(u, Held, NothingHeld, step)
           Q == {u \in Seq(Rules) : ScanHolds(Upto(u), Len(u), u, ClaimsOf(u), model)}
<1>1. /\ step \in [Held \X Rules -> Held]
      /\ \A a \in Held, x \in Rules : step[<<a, x>>] = ScanRule(a, x, model)
  BY RuleSteps
<1> HIDE DEF step
<1>2. \A u \in Seq(Rules) : Foldable(u, Rules, Held, NothingHeld, step)
  BY <1>1, NothingTyped DEF Foldable
<1>3. \A u \in Seq(Rules) : Upto(u) \in Held
  BY <1>2, LeftFoldType
<1>4. <<>> \in Q
  <2>1. <<>> \in Seq(Rules) /\ Len(<<>>) = 0
    OBVIOUS
  <2>2. Upto(<<>>) = NothingHeld
    <3> DEFINE e == <<>>
    <3>1. e = <<>> /\ Foldable(e, Rules, Held, NothingHeld, step)
      BY <1>2, <2>1
    <3> HIDE DEF e
    <3>2. LeftFold(e, Held, NothingHeld, step) = NothingHeld
      BY <3>1, LeftFoldType
    <3> QED BY <3>2 DEF e
  <2>3. ~NothingHeld.exact /\ NothingHeld.rule = <<>> /\ NothingHeld.len = 0
    BY DEF NothingHeld
  <2>4. 1 .. 0 = {}
    OBVIOUS
  <2> DEFINE none == ClaimsOf(<<>>)
  <2> HIDE DEF none
  <2>5. ScanHolds(NothingHeld, 0, <<>>, none, model)
    BY <2>3, <2>4 DEF ScanHolds, HoldsNone
  <2> QED BY <2>1, <2>2, <2>5 DEF none
<1>5. ASSUME NEW u \in Seq(Rules), NEW r \in Rules, u \in Q PROVE Append(u, r) \in Q
  <2> DEFINE z == Append(u, r)
             a == Upto(u)
             n == Len(u)
             m == n + 1
             claim == ClaimsOf(u)
             more == [i \in 1 .. m |-> IF i = m THEN {} ELSE claim[i]]
  <2>1. a \in Held /\ ScanHolds(a, n, u, claim, model)
    BY <1>3, <1>5
  <2>2. Upto(z) = ScanRule(a, r, model)
    <3>1. Upto(z) = step[<<a, r>>]
      BY <1>2, LeftFoldAppend
    <3> QED BY <1>1, <2>1, <3>1
  <2>3. /\ z \in Seq(Rules) /\ Len(z) = m /\ z[m] = r /\ \A i \in 1 .. n : z[i] = u[i]
        /\ n \in Nat /\ \A i \in 1 .. n : u[i] \in Rules
    BY AppendProperties, LenProperties, ElementOfSeq
  <2> HIDE DEF z, n, a
  <2>4. m \in Nat /\ m > 0 /\ m \in 1 .. m /\ \A i \in 1 .. n : i \in 1 .. m /\ i # m
    BY <2>3
  <2>5. \A x \in Rules : Claims(x) \in SUBSET STRING
    <3> SUFFICES ASSUME NEW x \in Rules PROVE Claims(x) \in SUBSET STRING
      OBVIOUS
    <3>1. x.models \in Seq(STRING)
      BY DEF Rules
    <3>2. \A i \in DOMAIN x.models : x.models[i] \in STRING
      BY <3>1, ElementOfSeq, LenProperties
    <3> QED BY <3>2 DEF Claims, ToSet
  <2>6. \A i \in 1 .. n : claim[i] = Claims(u[i]) /\ claim[i] \in SUBSET STRING
    BY <2>3, <2>5 DEF ClaimsOf, n
  <2> HIDE DEF claim
  <2>7. \A i \in 1 .. m : i = m \/ i \in 1 .. n
    BY <2>3
  <2>8. more \in [1 .. m -> SUBSET STRING] /\ more[m] = {} /\ \A i \in 1 .. n : more[i] = claim[i]
    BY <2>4, <2>6, <2>7
  <2>9. ClaimsOf(z) = [i \in 1 .. m |-> IF i = m THEN Claims(r) ELSE claim[i]]
    BY <2>3, <2>4, <2>6, <2>7 DEF ClaimsOf
  <2>10. ClaimsOf(z) = [more EXCEPT ![m] = Claims(r)]
    BY <2>4, <2>9
  <2> HIDE DEF more
  <2>11. ScanHolds(a, m, z, more, model)
    BY <2>1, <2>3, <2>8, NextRuleHolds
  <2> HIDE DEF m
  <2>12. CASE r.enabled
    <3>1. ClaimsOf(z) = [more EXCEPT ![m] = ToSet(r.models)]
      BY <2>10, <2>12 DEF Claims
    <3>2. ScanHolds(ScanRule(a, r, model), m, z, ClaimsOf(z), model)
      BY <2>1, <2>3, <2>4, <2>8, <2>11, <2>12, <3>1, RuleHolds
    <3> QED BY <2>2, <2>3, <3>2 DEF z
  <2>13. CASE ~r.enabled
    <3>1. ClaimsOf(z) = more
      BY <2>4, <2>8, <2>10, <2>13 DEF Claims
    <3>2. ScanRule(a, r, model) = a
      BY <2>13 DEF ScanRule
    <3> QED BY <2>2, <2>3, <2>11, <3>1, <3>2 DEF z
  <2> QED BY <2>12, <2>13
<1> HIDE DEF Q
<1>6. Seq(Rules) \subseteq Q
  BY <1>4, <1>5, SeqInd
<1>7. ScanHolds(Upto(w), Len(w), w, ClaimsOf(w), model)
  BY <1>6 DEF Q
<1> QED BY <1>3, <1>7, RulesFolded DEF step

\* The least of a set of positions.
LEMMA MinIs ==
    ASSUME NEW n \in Nat, NEW I \in SUBSET (1 .. n), NEW i \in I, \A j \in I : ~(j < i)
    PROVE  Min(I) = i
<1>1. \A j \in I : i <= j /\ j \in Nat
  OBVIOUS
<1>2. \A x \in I : (\A y \in I : x <= y) => x = i
  BY <1>1
<1> QED BY <1>1, <1>2 DEF Min

\* What the scan holds in the end is the owner.
LEMMA ScanFindsOwner ==
    ASSUME NEW w \in Seq(Rules), NEW model
    PROVE  ScanRules(w, model).rule = Owner(w, model)
<1> DEFINE acc == ScanRules(w, model)
           n == Len(w)
           claim == ClaimsOf(w)
           exact == {i \in DOMAIN w : model \in Claims(w[i])}
           longest == {i \in DOMAIN w : \E x \in Fits(w[i], model) :
                          \A j \in DOMAIN w : \A y \in Fits(w[j], model) : Specificity[y] <= Specificity[x]}
<1>1. ScanHolds(acc, n, w, claim, model) /\ acc \in Held
  BY RulesHold
<1>2. n \in Nat /\ DOMAIN w = 1 .. n /\ \A i \in 1 .. n : claim[i] = Claims(w[i])
  BY LenProperties DEF ClaimsOf
<1>3. Owner(w, model) = IF exact # {} THEN <<w[Min(exact)]>> ELSE IF longest # {} THEN <<w[Min(longest)]>> ELSE <<>>
  BY DEF Owner
<1>4. acc.exact \in BOOLEAN /\ acc.len \in Nat
  BY <1>1 DEF Held
<1> HIDE DEF acc, n, claim
<1>5. exact \in SUBSET (1 .. n) /\ longest \in SUBSET (1 .. n) /\ \A i \in 1 .. n : i \in exact <=> model \in claim[i]
  BY <1>2
<1>6. CASE acc.exact
  <2>1. PICK i \in 1 .. n : /\ model \in claim[i] /\ acc.rule = <<w[i]>>
                            /\ \A j \in 1 .. n : j < i => model \notin claim[j]
    BY <1>1, <1>6 DEF ScanHolds, HoldsExact
  <2> HIDE DEF exact, longest
  <2>2. i \in exact /\ \A j \in exact : ~(j < i)
    BY <1>5, <2>1
  <2>3. Min(exact) = i
    BY <1>2, <1>5, <2>2, MinIs
  <2> QED BY <1>3, <2>1, <2>2, <2>3 DEF acc
<1>7. CASE ~acc.exact
  <2>1. exact = {}
    BY <1>1, <1>5, <1>7 DEF ScanHolds
  <2>2. HoldsNone(acc, n, claim, model) \/ HoldsLongest(acc, n, w, claim, model)
    BY <1>1, <1>7 DEF ScanHolds
  <2>3. \A i \in 1 .. n : \A x : x \in Fits(w[i], model) <=> x \in claim[i] /\ <<x, model>> \in Matching
    BY <1>2 DEF Fits
  <2>4. \A i \in 1 .. n : i \in longest <=> \E x \in Fits(w[i], model) :
            \A j \in 1 .. n : \A y \in Fits(w[j], model) : Specificity[y] <= Specificity[x]
    BY <1>2
  <2> HIDE DEF exact, longest
  <2>5. CASE HoldsNone(acc, n, claim, model)
    <3>1. \A i \in 1 .. n : i \notin longest
      BY <2>3, <2>4, <2>5 DEF HoldsNone
    <3>2. longest = {} /\ acc.rule = <<>>
      BY <1>5, <2>5, <3>1 DEF HoldsNone
    <3> QED BY <1>3, <2>1, <3>2 DEF acc
  <2>6. CASE HoldsLongest(acc, n, w, claim, model)
    <3>1. PICK i \in 1 .. n :
              /\ acc.rule = <<w[i]>>
              /\ \E x \in claim[i] : <<x, model>> \in Matching /\ Specificity[x] = acc.len
              /\ \A j \in 1 .. n : \A y \in claim[j] :
                    <<y, model>> \in Matching => Specificity[y] <= acc.len /\ (j < i => Specificity[y] < acc.len)
      BY <2>6 DEF HoldsLongest
    <3>2. PICK x \in Fits(w[i], model) : Specificity[x] = acc.len
      BY <2>3, <3>1
    <3>3. \A j \in 1 .. n : \A y \in Fits(w[j], model) :
              /\ Specificity[y] <= acc.len /\ (j < i => Specificity[y] < acc.len) /\ Specificity[y] \in Nat
      BY <2>3, <3>1, PatternLength
    <3>4. i \in longest
      BY <2>4, <3>2, <3>3
    <3>5. ASSUME NEW k \in longest, k < i PROVE FALSE
      <4>1. PICK v \in Fits(w[k], model) : \A j \in 1 .. n : \A y \in Fits(w[j], model) : Specificity[y] <= Specificity[v]
        BY <1>5, <2>4
      <4>2. acc.len <= Specificity[v]
        BY <3>2, <4>1
      <4>3. Specificity[v] < acc.len /\ Specificity[v] \in Nat
        BY <1>5, <3>3, <3>5, <4>1
      <4> QED BY <1>4, <4>2, <4>3
    <3>6. Min(longest) = i
      BY <1>2, <1>5, <3>4, <3>5, MinIs
    <3> QED BY <1>3, <2>1, <3>1, <3>4, <3>6 DEF acc
  <2> QED BY <2>2, <2>5, <2>6
<1> QED BY <1>4, <1>6, <1>7

\* GetRuleByModel, "among patterns the most specific (longest) one wins", for any
\* configuration the store can hold.
LEMMA TypedWins ==
    ASSUME Typed
    PROVE  MostSpecificWins
<1> DEFINE ps == mem.profiles
           i == activeProfile(mem)
<1>1. ps \in Seq(Profiles) /\ i \in 1 .. Len(ps)
  BY Resolved DEF Typed, Sane, Configs
<1>2. ps[i] \in Profiles
  BY <1>1, ElementOfSeq
<1>3. ps[i].rules \in Seq(Rules)
  BY <1>2 DEF Profiles
<1> QED BY <1>3, ScanFindsOwner DEF MostSpecificWins, GetRuleByModel

\* store.go GetRuleByModel, DeleteServer: whatever was edited, removed, migrated
\* and reloaded, a request gets the rule its model belongs to, the most specific
\* one that names it, and the servers of that rule exist, unless one was removed
\* between the check of a rule and its write, provided the first file names its
\* own servers.
THEOREM RoutingIsSound == CurrentRules /\ DocumentsServed => (Spec => []RoutingSound)
<1> SUFFICES ASSUME CurrentRules, DocumentsServed PROVE Spec => []RoutingSound
  OBVIOUS
<1>1. Spec => [](DanglingOnlyRaced /\ RoutedServersExist)
  BY ServersStay
<1>2. Typed /\ DanglingOnlyRaced /\ RoutedServersExist => RoutingSound
  BY TypedWins DEF RoutingSound
<1> QED BY <1>1, <1>2, TypeCorrect, PTL

=============================================================================
