------------------------------- MODULE Store -------------------------------
(***************************************************************************)
(* The configuration store (config/store.go) under the admin API           *)
(* (admin/handler.go).  Every method of the store holds its mutex, so a    *)
(* method is one step; what interleaves is a handler that takes the mutex  *)
(* twice (a rule is validated, then written) and a request that looks its  *)
(* rule up and then the servers the rule names.  A mutator changes the     *)
(* memory first and then saves: the backup from the file's old content,    *)
(* the file itself in place.  The process can be killed, and a write can   *)
(* fail, at either of the two.                                             *)
(*                                                                         *)
(* A server's body, a rule's patterns and the operator's documents are     *)
(* data: constants with just the structure the code looks at.              *)
(***************************************************************************)
EXTENDS Naturals, Sequences, FiniteSets, SequencesExt

CONSTANTS
    ServerIDs,       \* ids a server may have
    ServerBodies,    \* what a server's definition may say besides its id
    RuleBodies,      \* the rules an operator may post
    ProfileNames,    \* names a profile may be given; "default" among them
    Models,          \* model names clients send
    Matching,        \* pairs <<pattern, model>> that path.Match accepts
    Specificity,     \* length of an incoming_models entry
    Documents,       \* the documents the file may hold at the first start
    MaxRules, MaxWrites,   \* bounds on rules and on admin writes
    MaxMishaps             \* bound on crashes and failed writes together

\* What the JSON decoder accepts as a rule, a profile, a server map and a document.
Rules == [models : Seq(STRING), enabled : BOOLEAN, router : STRING, balance : STRING,
          server : STRING, fallbacks : Seq(STRING), fallback_ids : Seq(STRING),
          jev : [present : BOOLEAN, server : STRING,
                 candidates : Seq([server : STRING, enabled : BOOLEAN])]]
Profiles == [id : ProfileNames, name : ProfileNames, rules : Seq(Rules)]
ServerMaps == UNION {[S -> ServerBodies] : S \in SUBSET ServerIDs}
Docs == [servers : ServerMaps, active : ProfileNames \cup {""}, profiles : Seq(Profiles),
         rules : Seq(Rules)]

\* The store gives no profile an empty name; a pattern has at least its wildcard.
ASSUME StoreAssumption ==
    /\ "default" \in ProfileNames /\ "" \notin ProfileNames
    /\ RuleBodies \subseteq Rules /\ Documents \subseteq Docs
    /\ \A pm \in Matching : Specificity[pm[1]] \in Nat \ {0}

Patterns == {pm[1] : pm \in Matching}

\* NewStore's built-in configuration: one empty profile.
DefaultConfig ==
    [servers |-> <<>>, active |-> "default",
     profiles |-> <<[id |-> "default", name |-> "default", rules |-> <<>>]>>]

\* A file: absent, truncated, cut off inside the document, or whole.
NoFile == [kind |-> "none", doc |-> DefaultConfig]
Truncated == [kind |-> "empty", doc |-> DefaultConfig]
Torn == [kind |-> "torn", doc |-> DefaultConfig]
Whole(doc) == [kind |-> "whole", doc |-> doc]

VARIABLES
    mem,      \* s.config
    file,     \* the configuration file
    bak,      \* its .bak
    up,       \* the process runs
    inSync,   \* ghost: the last save of this process succeeded
    acked,    \* ghost: the last configuration that was loaded or saved whole
    tried,    \* ghost: the configuration whose save was cut off, or acked
    pending,  \* the rule write that was validated and not yet applied
    routed,   \* the rule a client's request was matched to
    raced,    \* ghost: servers removed under a validated, unapplied rule
    writes, crashes, faults    \* counters for the bounds

disk == <<file, bak, inSync, acked, tried, faults>>
vars == <<mem, disk, up, pending, routed, raced, writes, crashes>>

None == [op |-> "none"]

-----------------------------------------------------------------------------
(* Pure parts.                                                             *)

\* The servers a rule names: primary, fallbacks, and a jev rule's own.
ServerRefs(rule) ==
    LET jevRefs == IF rule.jev.present
                   THEN ({rule.jev.server} \ {""}) \cup {c.server : c \in ToSet(rule.jev.candidates)}
                   ELSE {}
    IN  ({rule.server} \ {""}) \cup ToSet(rule.fallbacks) \cup jevRefs

\* Whether the router has an answer for a rule of this shape.
Validate(rule) ==
    /\ rule.models # <<>>
    /\ IF rule.router = "jev"
       THEN /\ rule.jev.present /\ rule.jev.server # ""
            /\ \E c \in ToSet(rule.jev.candidates) : c.enabled
       ELSE /\ rule.server # ""
            /\ rule.balance \in {"", "round-robin", "least-connections"}

IndexOf(cfg, id) == SelectInSeq(cfg.profiles, LAMBDA p : p.id = id)

\* The position of the active profile; the first one when its id is unknown.
activeProfile(cfg) == IF IndexOf(cfg, cfg.active) # 0 THEN IndexOf(cfg, cfg.active) ELSE 1

\* 0 when there is no such profile; "" asks for the active one.
resolveProfile(cfg, id) == IF id = "" THEN activeProfile(cfg) ELSE IndexOf(cfg, id)

AllRules(cfg) == UNION {ToSet(p.rules) : p \in ToSet(cfg.profiles)}
RuleTotal(cfg) == FoldLeft(LAMBDA n, p : n + Len(p.rules), 0, cfg.profiles)

\* Mutant of references: only the primary of a rule counts.
references_PrimaryOnly(cfg, id) == {r \in AllRules(cfg) : id = r.server}

references(cfg, id) == {r \in AllRules(cfg) : id \in ServerRefs(r)}
MissingServers(cfg, rule) == (ServerRefs(rule) \ {""}) \ DOMAIN cfg.servers
AuditServerRefs(cfg) == (UNION {ServerRefs(r) : r \in AllRules(cfg)}) \ DOMAIN cfg.servers

\* migrateLegacy: a document with top-level rules becomes one with a profile.
migrateLegacy(doc) ==
    IF doc.profiles = <<>> /\ doc.rules # <<>>
    THEN [doc EXCEPT !.profiles = <<[id |-> "default", name |-> "default", rules |-> doc.rules]>>,
                     !.active = "default"]
    ELSE doc

MigrateFallbacks(rule) ==
    IF rule.fallback_ids # <<>> /\ rule.fallbacks = <<>>
    THEN [rule EXCEPT !.fallbacks = rule.fallback_ids, !.fallback_ids = <<>>]
    ELSE rule

\* The configuration Load makes of a document.
Parse(doc) ==
    LET m == migrateLegacy(doc)
        ps == IF m.profiles = <<>> THEN DefaultConfig.profiles ELSE m.profiles
    IN  [servers |-> m.servers,
         active |-> IF m.active = "" THEN ps[1].id ELSE m.active,
         profiles |-> [i \in DOMAIN ps |->
             [ps[i] EXCEPT !.rules = [j \in DOMAIN ps[i].rules |-> MigrateFallbacks(ps[i].rules[j])]]]]

\* What save writes: a document of the current shape, without top-level rules.
Document(cfg) ==
    [servers |-> cfg.servers, active |-> cfg.active, profiles |-> cfg.profiles, rules |-> <<>>]

\* Load without a file keeps what the store has.
Loaded(f, cfg) == IF f.kind = "none" THEN cfg ELSE Parse(f.doc)
Loadable(f) == f.kind \in {"none", "whole"}

\* Mutant of matchModelPattern's caller: any pattern that matches takes over.
MoreSpecific_Later(name, best) == name \in Patterns

\* GetRuleByModel replaces the pattern it holds only by a longer one.
MoreSpecific(name, best) == Specificity[name] > best

\* One name of a rule: a literal match ends the scan, the longest matching
\* pattern waits.
Meet(acc, name, rule, model) ==
    IF acc.exact THEN acc
    ELSE IF name = model THEN [exact |-> TRUE, rule |-> <<rule>>, len |-> 0]
    ELSE IF <<name, model>> \in Matching /\ MoreSpecific(name, acc.len)
    THEN [exact |-> FALSE, rule |-> <<rule>>, len |-> Specificity[name]]
    ELSE acc

\* GetRuleByModel: the loop over the names of a rule inside the one over the rules.
ScanRule(acc, rule, model) ==
    IF rule.enabled THEN FoldLeft(LAMBDA a, name : Meet(a, name, rule, model), acc, rule.models) ELSE acc

ScanRules(rules, model) ==
    FoldLeft(LAMBDA a, rule : ScanRule(a, rule, model), [exact |-> FALSE, rule |-> <<>>, len |-> 0], rules)

GetRuleByModel(cfg, model) == ScanRules(cfg.profiles[activeProfile(cfg)].rules, model).rule

-----------------------------------------------------------------------------
(* save, and the ways it can end.                                          *)

\* Mutant of BackedUp: no generation is kept back.
BackedUp_Never(new) == bak

\* The backup takes the file's old content, when there is any.
BackedUp(new) == IF file.kind \in {"whole", "torn"} THEN file ELSE bak

\* save returns nil.
SaveOK(new) == [file |-> Whole(Document(new)), bak |-> BackedUp(new), end |-> "ok"]

\* A kill while the backup or the file is being written.  Where a backup was
\* cut off makes no difference to anyone; an empty file is not backed up.
Cut(new) ==
    {[file |-> file, bak |-> b, end |-> "crash"] :
        b \in {BackedUp(new)} \cup (IF BackedUp(new) = bak THEN {} ELSE {Torn})}
    \cup {[file |-> f, bak |-> BackedUp(new), end |-> "crash"] : f \in {Truncated, Torn}}

\* A failed write of the backup is logged and the save goes on; a failed write
\* of the file leaves it as it was (it could not be opened) or cut off.
Failed(new) ==
    {[file |-> Whole(Document(new)), bak |-> b, end |-> "ok"] : b \in {bak, Torn}}
    \cup {[file |-> f, bak |-> b, end |-> "error"] :
              f \in {file, Truncated, Torn}, b \in {BackedUp(new), Torn}}

\* Mutant of Mutate: the change reaches memory but not the file.
Mutate_Unsaved(new) ==
    /\ writes < MaxWrites /\ writes' = writes + 1
    /\ mem' = new /\ acked' = new /\ tried' = new
    /\ UNCHANGED <<file, bak, inSync, faults, up, crashes, routed>>

\* The tail of every mutator: the new configuration in memory, then save.
\* Nothing rolls the memory back when the save fails.
Mutate(new) ==
    /\ writes < MaxWrites /\ writes' = writes + 1
    /\ \E o \in {SaveOK(new)} \cup (IF crashes + faults < MaxMishaps THEN Cut(new) \cup Failed(new) ELSE {}) :
          /\ file' = o.file /\ bak' = o.bak
          /\ faults' = IF o \in {SaveOK(new)} \cup Cut(new) THEN faults ELSE faults + 1
          /\ up' = (o.end # "crash")
          /\ crashes' = IF up' THEN crashes ELSE crashes + 1
          /\ mem' = IF up' THEN new ELSE DefaultConfig
          /\ inSync' = (o.end = "ok")
          /\ acked' = IF o.end = "ok" THEN new ELSE acked
          /\ tried' = new
          /\ routed' = IF up' THEN routed ELSE None

\* Servers that leave the configuration under a validated rule.
Races(cfg) ==
    raced' = IF pending # None
             THEN raced \cup {s \in ServerRefs(pending.rule) : s \in DOMAIN mem.servers \ DOMAIN cfg.servers}
             ELSE raced

KeepsPending == pending' = IF up' THEN pending ELSE None

WithRules(i, rules) == [mem EXCEPT !.profiles[i].rules = rules]

-----------------------------------------------------------------------------
(* The admin API.  A refused call changes nothing and is left out; the     *)
(* guards are the refusals.                                                *)

addServer(id, body) ==
    /\ up /\ id \notin DOMAIN mem.servers
    /\ LET new == [mem EXCEPT !.servers = [s \in DOMAIN @ \cup {id} |-> IF s = id THEN body ELSE @[s]]]
       IN  Mutate(new)
    /\ KeepsPending /\ UNCHANGED raced

updateServer(id, body) ==
    /\ up /\ id \in DOMAIN mem.servers
    /\ Mutate([mem EXCEPT !.servers[id] = body])
    /\ KeepsPending /\ UNCHANGED raced

\* Mutant of deleteServer: only the active profile's rules are consulted.
deleteServer_ActiveOnly(id) ==
    /\ up /\ id \in DOMAIN mem.servers
    /\ \A r \in ToSet(mem.profiles[activeProfile(mem)].rules) : id \notin ServerRefs(r)
    /\ LET new == [mem EXCEPT !.servers = [s \in DOMAIN @ \ {id} |-> @[s]]]
       IN  Mutate(new) /\ Races(new)
    /\ KeepsPending

deleteServer(id) ==
    /\ up /\ id \in DOMAIN mem.servers
    /\ references(mem, id) = {}
    /\ LET new == [mem EXCEPT !.servers = [s \in DOMAIN @ \ {id} |-> @[s]]]
       IN  Mutate(new) /\ Races(new)
    /\ KeepsPending

\* addRule and updateRule check the profile, the index and the rule, each under
\* its own lock, ...
CheckRule(op, id, idx, rule) ==
    /\ up /\ pending = None
    /\ resolveProfile(mem, id) # 0
    /\ op = "update" => idx \in DOMAIN mem.profiles[resolveProfile(mem, id)].rules
    /\ Validate(rule) /\ MissingServers(mem, rule) = {}
    /\ pending' = [op |-> op, profile |-> id, idx |-> idx, rule |-> rule]
    /\ UNCHANGED <<mem, disk, up, routed, raced, writes, crashes>>

\* ... and then write it, where the store looks at the profile and the index
\* again, but not at the servers.
ApplyRule ==
    /\ up /\ pending # None
    /\ LET i == resolveProfile(mem, pending.profile)
           rules == IF i = 0 THEN <<>> ELSE mem.profiles[i].rules
       IN  \/ /\ i = 0 \/ (pending.op = "update" /\ pending.idx \notin DOMAIN rules)
              /\ UNCHANGED <<mem, disk, up, writes, crashes, routed>>
           \/ /\ i # 0 /\ pending.op = "add"
              /\ Mutate(WithRules(i, Append(rules, pending.rule)))
           \/ /\ i # 0 /\ pending.op = "update" /\ pending.idx \in DOMAIN rules
              /\ Mutate(WithRules(i, [rules EXCEPT ![pending.idx] = pending.rule]))
    /\ pending' = None /\ UNCHANGED raced

deleteRule(id, idx) ==
    /\ up /\ resolveProfile(mem, id) # 0
    /\ LET i == resolveProfile(mem, id)
           rules == mem.profiles[i].rules
       IN  /\ idx \in DOMAIN rules
           /\ Mutate(WithRules(i, RemoveAt(rules, idx)))
    /\ KeepsPending /\ UNCHANGED raced

\* Mutant of NameTaken: only the display names are compared.
NameTaken_NamesOnly(name, but) ==
    \E p \in ToSet(mem.profiles) : p.id # but /\ p.name = name

\* AddProfile and RenameProfile refuse a name another profile has as its name
\* or as its id.
NameTaken(name, but) ==
    \E p \in ToSet(mem.profiles) : p.id # but /\ name \in {p.name, p.id}

addProfile(name, copy) ==
    /\ up /\ ~NameTaken(name, "")
    /\ LET rules == IF copy THEN mem.profiles[activeProfile(mem)].rules ELSE <<>>
           new == [mem EXCEPT !.profiles = Append(@, [id |-> name, name |-> name, rules |-> rules])]
       IN  RuleTotal(new) <= MaxRules /\ Mutate(new)
    /\ KeepsPending /\ UNCHANGED raced

renameProfile(id, name) ==
    /\ up /\ IndexOf(mem, id) # 0 /\ ~NameTaken(name, id)
    /\ Mutate([mem EXCEPT !.profiles[IndexOf(mem, id)].name = name])
    /\ KeepsPending /\ UNCHANGED raced

\* The last profile stays; the active one hands over to the first that remains.
deleteProfile(id) ==
    /\ up /\ IndexOf(mem, id) # 0 /\ Len(mem.profiles) > 1
    /\ LET left == RemoveAt(mem.profiles, IndexOf(mem, id))
       IN  Mutate([mem EXCEPT !.profiles = left,
                              !.active = IF @ = id THEN left[1].id ELSE @])
    /\ KeepsPending /\ UNCHANGED raced

activateProfile(id) ==
    /\ up /\ IndexOf(mem, id) # 0
    /\ Mutate([mem EXCEPT !.active = id])
    /\ KeepsPending /\ UNCHANGED raced

\* reloadConfig: the file replaces the memory; a file that does not parse is
\* refused and the memory stays.
reloadConfig ==
    /\ up /\ Loadable(file)
    /\ mem' = Loaded(file, mem)
    /\ inSync' = (inSync \/ file.kind = "whole")
    /\ acked' = mem' /\ tried' = mem'
    /\ Races(mem')
    /\ UNCHANGED <<file, bak, faults, up, pending, routed, writes, crashes>>

-----------------------------------------------------------------------------
(* The process and the operator.                                           *)

Crash ==
    /\ up /\ crashes + faults < MaxMishaps
    /\ up' = FALSE /\ crashes' = crashes + 1
    /\ mem' = DefaultConfig /\ pending' = None /\ routed' = None
    /\ UNCHANGED <<disk, raced, writes>>

\* NewStore.  A file that does not parse ends the start; without a file main
\* saves the built-in configuration, and may be killed while it does.
Start ==
    /\ ~up /\ Loadable(file)
    /\ LET cfg == Loaded(file, DefaultConfig)
       IN  /\ mem' = cfg /\ acked' = cfg /\ tried' = cfg
           /\ file' = IF file.kind = "none" THEN Whole(Document(cfg)) ELSE file
    /\ up' = TRUE /\ inSync' = TRUE
    /\ UNCHANGED <<bak, faults, pending, routed, raced, writes, crashes>>

FirstSaveCut ==
    /\ ~up /\ file = NoFile /\ crashes + faults < MaxMishaps
    /\ file' \in {Truncated, Torn} /\ crashes' = crashes + 1
    /\ UNCHANGED <<mem, bak, up, inSync, acked, tried, faults, pending, routed, raced, writes>>

\* The operator puts the backup in the place of a file the router cannot read.
RestoreBackup ==
    /\ ~up /\ ~Loadable(file) /\ bak.kind = "whole"
    /\ file' = bak
    /\ UNCHANGED <<mem, bak, up, inSync, acked, tried, faults, pending, routed, raced, writes, crashes>>

\* A client's request is matched to a rule; the servers are looked up later.
Route(model) ==
    /\ up /\ routed = None
    /\ GetRuleByModel(mem, model) # <<>>
    /\ routed' = [op |-> "routed", rule |-> GetRuleByModel(mem, model)[1]]
    /\ UNCHANGED <<mem, disk, up, pending, raced, writes, crashes>>

Answer ==
    /\ up /\ routed # None
    /\ routed' = None
    /\ UNCHANGED <<mem, disk, up, pending, raced, writes, crashes>>

-----------------------------------------------------------------------------

Init ==
    /\ mem = DefaultConfig /\ up = FALSE
    /\ file \in {NoFile} \cup {Whole(d) : d \in Documents}
    /\ bak = NoFile
    /\ inSync = TRUE
    /\ acked = Loaded(file, DefaultConfig) /\ tried = acked
    /\ pending = None /\ routed = None /\ raced = {}
    /\ writes = 0 /\ crashes = 0 /\ faults = 0

ProfileArgs == ProfileNames \cup {""}

Admin ==
    \/ \E id \in ServerIDs : deleteServer(id) \/ \E b \in ServerBodies : addServer(id, b) \/ updateServer(id, b)
    \/ \E id \in ProfileArgs, rule \in RuleBodies :
          \/ RuleTotal(mem) < MaxRules /\ CheckRule("add", id, 1, rule)
          \/ \E idx \in 1 .. MaxRules : CheckRule("update", id, idx, rule)
    \/ ApplyRule
    \/ \E id \in ProfileArgs, idx \in 1 .. MaxRules : deleteRule(id, idx)
    \/ \E name \in ProfileNames, copy \in BOOLEAN : addProfile(name, copy)
    \/ \E id, name \in ProfileNames : renameProfile(id, name)
    \/ \E id \in ProfileNames : deleteProfile(id) \/ activateProfile(id)
    \/ reloadConfig

Next ==
    \/ Admin
    \/ Crash \/ Start \/ FirstSaveCut \/ RestoreBackup
    \/ \E m \in Models : Route(m)
    \/ Answer

Spec == Init /\ [][Next]_vars

-----------------------------------------------------------------------------

\* Every variable stays in its set: the servers, profiles and the active id of
\* the configuration in memory after any load, migration and edit.
StoreTypeOK ==
    /\ mem.servers \in ServerMaps
    /\ mem.active \in ProfileNames
    /\ \A p \in ToSet(mem.profiles) : p.id \in ProfileNames /\ p.name \in ProfileNames
    /\ {file.kind, bak.kind} \subseteq {"none", "empty", "torn", "whole"}
    /\ {up, inSync} \subseteq BOOLEAN
    /\ raced \subseteq ServerIDs

\* A killed process can always come back, as long as no write failed (save:
\* "a process killed mid-write would otherwise boot an empty router with no way
\* back"): the file is whole and holds the last saved configuration or the one
\* that was being saved, or it is cut off and the backup holds the last saved
\* one.  Only the very first save has no backup to fall back on.
Recoverable ==
    faults = 0 =>
        \/ Loadable(file) /\ Loaded(file, DefaultConfig) \in {acked, tried}
        \/ bak.kind = "whole" /\ Parse(bak.doc) = acked
        \/ bak = NoFile /\ acked = DefaultConfig

\* What the last successful save or load put in memory is what a restart loads:
\* nothing the API has acknowledged waits in memory only, through migration and
\* back.
Durable == up /\ inSync => Loadable(file) /\ Loaded(file, mem) = mem

Orderly(cfg) ==
    LET ps == cfg.profiles
    IN  /\ ps # <<>>
        /\ \A i, j \in DOMAIN ps : i # j => {ps[i].id, ps[i].name} \cap {ps[j].id, ps[j].name} = {}
        /\ IndexOf(cfg, cfg.active) # 0

\* The profiles keep one name space, whatever is added, renamed, removed and
\* reloaded: no name or id leads to two of them, the active id names one, and
\* there always is one to route by.
ProfileNamespace == Orderly(mem)

\* A rule is left naming a server that does not exist only when the server was
\* removed between the check of that rule and its write (DeleteServer: "a rule
\* left naming a deleted server answers 500 for every request on its models").
\* An entry without an id passes the check and is the operator's own.
DanglingOnlyRaced == up => AuditServerRefs(mem) \ {""} \subseteq raced

\* A request that was matched to a rule finds the rule's servers, unless the
\* rule itself was edited away since, or the rule was written in that race.
RoutedServersExist ==
    routed # None =>
        \A s \in MissingServers(mem, routed.rule) :
            s \in raced \/ routed.rule \notin AllRules(mem)

\* The rule a model belongs to, by comparing all rules at once: the first that
\* names it, or else the first of those with the longest pattern that matches.
Claims(rule) == IF rule.enabled THEN ToSet(rule.models) ELSE {}
Fits(rule, model) == {x \in Claims(rule) : <<x, model>> \in Matching}

Owner(rules, model) ==
    LET exact == {i \in DOMAIN rules : model \in Claims(rules[i])}
        longest == {i \in DOMAIN rules : \E x \in Fits(rules[i], model) :
                       \A j \in DOMAIN rules : \A y \in Fits(rules[j], model) : Specificity[y] <= Specificity[x]}
    IN  IF exact # {} THEN <<rules[Min(exact)]>>
        ELSE IF longest # {} THEN <<rules[Min(longest)]>> ELSE <<>>

\* The rule GetRuleByModel's scan stops at is the most specific one, however the
\* rules came to stand in their order: an exact name beats every pattern, a
\* longer pattern a shorter one, an earlier rule a later ("among patterns the
\* most specific (longest) one wins").
MostSpecificWins ==
    \A m \in Models : GetRuleByModel(mem, m) = Owner(mem.profiles[activeProfile(mem)].rules, m)

\* Whatever was edited, removed, migrated and reloaded, a request gets the rule it
\* belongs to, and that rule's servers exist, the one race apart.
RoutingSound == MostSpecificWins /\ RoutedServersExist /\ DanglingOnlyRaced

=============================================================================
