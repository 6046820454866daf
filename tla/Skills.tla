------------------------------- MODULE Skills -------------------------------
(***************************************************************************)
(* Skills on one node: the health monitor (skill-health-monitor.ts), the   *)
(* life cycle and its garbage collection (skill-lifecycle.ts), backup and  *)
(* rollback of an installation (skill-rollback.ts, skill-package.ts), the  *)
(* order in which dependencies are installed (skill-deps.ts) and version   *)
(* ranges (semver.ts).                                                     *)
(***************************************************************************)
EXTENDS Integers, Sequences, FiniteSets, SequencesExt

CONSTANTS
    DebounceUp, DebounceDown,   \* SkillHealthOpts
    MaxRegistrations,           \* bound: how often the skill is registered
    MaxResults,                 \* bound: check results per registration
    ExpiryDays, UnusedDays,     \* life cycle: lifetime, gc(unusedDays)
    MaxDays,                    \* bound: days that pass
    Graph,                      \* skills of the dependency graph
    VersionNumbers              \* numbers used in versions

ASSUME SkillsAssumption ==
    /\ {DebounceUp, DebounceDown} \subseteq Nat \ {0}
    /\ {MaxRegistrations, MaxResults, ExpiryDays, UnusedDays} \subseteq Nat
    /\ MaxDays \in Nat \ {0} /\ VersionNumbers \subseteq Nat /\ 0 \in VersionNumbers

VARIABLES
    monitor,        \* [started, stopped] of the SkillHealthMonitor
    entry,          \* the registered entry; gen tells registrations apart
    checks,         \* generations of entries whose check is awaiting its function
    results,        \* results applied to the current registration (history)
    life,           \* the life-cycle entry of a skill
    today,          \* the current day
    disk,           \* the skill directory, the backup, and the step in progress
    resolver,       \* a run of resolveInstallOrder
    versions        \* two versions under inspection

monitorVars == <<monitor, entry, checks, results>>
lifeVars == <<life, today>>
skillsVars == <<monitor, entry, checks, results, life, today, disk, resolver, versions>>

(***************************************************************************)
(* SkillHealthMonitor.                                                     *)
(***************************************************************************)
FreshEntry(gen) == [gen |-> gen, state |-> "unknown", fails |-> 0, oks |-> 0, timer |-> FALSE]

MonitorInit ==
    /\ monitor = [started |-> FALSE, stopped |-> FALSE]
    /\ entry = FreshEntry(0) /\ checks = {} /\ results = <<>>

(* register: replaces the entry and, when running, arms its first timer;   *)
(* the old entry's check is told to abort but settles in its own time.     *)
RegisterCheck ==
    /\ entry.gen < MaxRegistrations
    /\ entry' = [FreshEntry(entry.gen + 1) EXCEPT !.timer = monitor.started /\ ~monitor.stopped]
    /\ results' = <<>>
    /\ UNCHANGED <<monitor, checks>>

StartMonitor ==
    /\ ~monitor.started
    /\ monitor' = [started |-> TRUE, stopped |-> FALSE]
    /\ entry' = [entry EXCEPT !.timer = entry.gen > 0]
    /\ UNCHANGED <<checks, results>>

StopMonitor ==
    /\ monitor' = [started |-> FALSE, stopped |-> TRUE]
    /\ entry' = [entry EXCEPT !.timer = FALSE]
    /\ UNCHANGED <<checks, results>>

(* The timer fires; runCheck is single-flight per entry.                   *)
RunCheck ==
    /\ entry.timer /\ ~monitor.stopped
    /\ entry' = [entry EXCEPT !.timer = FALSE]
    /\ checks' = checks \cup {entry.gen}
    /\ UNCHANGED <<monitor, results>>

(* applyResult: count, then flip the state once the run is long enough.    *)
applyResult(e, ok) ==
    LET oks == IF ok THEN e.oks + 1 ELSE 0
        fails == IF ok THEN 0 ELSE e.fails + 1
    IN  [e EXCEPT !.oks = oks, !.fails = fails,
                  !.state = CASE @ # "healthy" /\ oks >= DebounceUp -> "healthy"
                              [] @ # "unhealthy" /\ fails >= DebounceDown -> "unhealthy"
                              [] OTHER -> @]

(* Faulty: the result of a replaced registration counts.                   *)
countsFromAnyEntry(gen) == ~monitor.stopped

(* After the await: not when stopped meanwhile, not for a replaced entry.  *)
counts(gen) == ~monitor.stopped /\ gen = entry.gen

(* The check function of entry gen settles: TRUE, or FALSE for a refusal,  *)
(* an exception or the timeout's abort.  scheduleNext arms the timer.      *)
SettleCheck(gen) ==
    /\ checks' = checks \ {gen}
    /\ \E ok \in BOOLEAN :
           IF counts(gen)
           THEN /\ Len(results) < MaxResults
                /\ entry' = [applyResult(entry, ok) EXCEPT !.timer = TRUE]
                /\ results' = IF gen = entry.gen THEN Append(results, ok) ELSE results
           ELSE UNCHANGED <<entry, results>>
    /\ UNCHANGED monitor

MonitorNext ==
    \/ RegisterCheck \/ StartMonitor \/ StopMonitor \/ RunCheck
    \/ \E gen \in checks : SettleCheck(gen)

(* The last position at which a run of d results equal to ok ended.        *)
lastRun(ok, d) ==
    LET ends == {i \in d..Len(results) : \A j \in (i - d + 1)..i : results[j] = ok}
    IN  IF ends = {} THEN 0 ELSE CHOOSE i \in ends : \A k \in ends : k <= i

(* The reported health is the debounced history of the current             *)
(* registration: whichever of "DebounceUp successes in a row" and          *)
(* "DebounceDown failures in a row" happened last, however registrations,  *)
(* stops and late results interleave.                                      *)
HealthIsDebounced ==
    LET up == lastRun(TRUE, DebounceUp)  down == lastRun(FALSE, DebounceDown)
    IN  entry.state = CASE up > down -> "healthy"
                        [] down > up -> "unhealthy"
                        [] OTHER -> "unknown"

(* A running monitor never loses a skill: its next check is scheduled or   *)
(* under way, after any number of restarts of the monitor.                 *)
MonitorAlive == monitor.started /\ entry.gen > 0 => entry.timer \/ entry.gen \in checks

(***************************************************************************)
(* SkillLifecycleManager.                                                  *)
(***************************************************************************)
NoLife == [status |-> "none", installed |-> 0, used |-> 0, expires |-> 0]
LifeInit == life = NoLife /\ today = 1

RegisterSkill ==
    /\ life' = [status |-> "active", installed |-> today, used |-> 0, expires |-> today + ExpiryDays]
    /\ UNCHANGED today
RecordUsage == life # NoLife /\ life' = [life EXCEPT !.used = today] /\ UNCHANGED today
Deprecate == life # NoLife /\ life' = [life EXCEPT !.status = "deprecated"] /\ UNCHANGED today
Disable == life # NoLife /\ life' = [life EXCEPT !.status = "disabled"] /\ UNCHANGED today
Enable ==
    /\ life # NoLife /\ life.status # "expired"
    /\ life' = [life EXCEPT !.status = "active"] /\ UNCHANGED today

(* Days since the last use, or since the installation of a skill never used. *)
unused == today - (IF life.used = 0 THEN life.installed ELSE life.used)

(* Faulty: an expired skill is removed whatever its status.                *)
collectedExpired ==
    IF life.expires < today THEN NoLife
    ELSE IF life.status # "active" /\ unused > UnusedDays THEN NoLife
    ELSE life

(* One pass of gc over the entry.                                          *)
collected ==
    IF life.status = "active"
    THEN IF life.expires < today THEN [life EXCEPT !.status = "expired"] ELSE life
    ELSE IF life.expires < today \/ unused > UnusedDays THEN NoLife
    ELSE life
Gc == life # NoLife /\ life' = collected /\ UNCHANGED today

SkillDayPasses == today < MaxDays /\ today' = today + 1 /\ UNCHANGED life

LifeNext == RegisterSkill \/ RecordUsage \/ Deprecate \/ Disable \/ Enable \/ Gc \/ SkillDayPasses

(* A skill in use is never collected: what gc removes was taken out of     *)
(* service before, by an earlier pass that found it expired or by hand.    *)
GcSparesActive == [][life # NoLife /\ life' = NoLife => life.status # "active"]_lifeVars

(***************************************************************************)
(* SkillRollback around an installation.  The content of the directory is  *)
(* "old", "new" or "partial" (an installation that did not finish).        *)
(***************************************************************************)
DiskInit == disk = [dir |-> "old", backup |-> "none", step |-> "idle"]

CreateBackup ==
    /\ disk.step = "idle" /\ disk.dir # "none"
    /\ \E b \in {disk.dir, "none"} :            \* the copy may fail
           disk' = [disk EXCEPT !.backup = b, !.step = "backedUp"]

(* installSkillPackage writes into the directory; it may stop half-way.    *)
InstallSkillPackage ==
    /\ disk.step = "backedUp"
    /\ \E d \in {"new", "partial"} : disk' = [disk EXCEPT !.dir = d, !.step = "written"]

RemoveBackup ==
    /\ disk.step = "written" /\ disk.dir = "new"
    /\ disk' = [disk EXCEPT !.backup = "none", !.step = "idle"]

(* restore: rm of the target, then rename of the backup onto it.           *)
RestoreRemovesTarget ==
    /\ disk.step = "written" /\ disk.backup # "none"
    /\ disk' = [disk EXCEPT !.dir = "none", !.step = "restoring"]
RestoreRenames ==
    /\ disk.step = "restoring"
    /\ disk' = [dir |-> disk.backup, backup |-> "none", step |-> "idle"]

(* A crash ends whatever was going on; nothing resumes it.                 *)
CrashAndRestart == disk.step # "idle" /\ disk' = [disk EXCEPT !.step = "idle"]

DiskNext == CreateBackup \/ InstallSkillPackage \/ RemoveBackup
            \/ RestoreRemovesTarget \/ RestoreRenames \/ CrashAndRestart

(* While a restore is under way the backup is complete: the old skill is   *)
(* never gone from the directory and from the backup at once.              *)
BackupOutlivesTarget == disk.dir = "none" => disk.backup # "none"

(***************************************************************************)
(* resolveInstallOrder, a depth-first walk over a map from skills to what  *)
(* they depend on.  A call of visit is a frame on the stack, with the      *)
(* dependencies its loop has yet to come to; "visiting" are the skills on  *)
(* the stack, "visited" those in the order.  Maps are walked in any order. *)
(***************************************************************************)
ResolverInit ==
    resolver = [state |-> "idle", keys |-> {}, deps |-> [s \in Graph |-> {}], stack |-> <<>>, order |-> <<>>]

(* The keys of the map; a skill without an entry depends on nothing.       *)
ResolveInstallOrder ==
    /\ resolver.state = "idle"
    /\ \E keys \in SUBSET Graph, deps \in [Graph -> SUBSET Graph] :
           /\ \A s \in Graph \ keys : deps[s] = {}
           /\ resolver' = [resolver EXCEPT !.state = "walking", !.keys = keys, !.deps = deps]

visited == ToSet(resolver.order)
visiting == {resolver.stack[i].skill : i \in DOMAIN resolver.stack}
top == Len(resolver.stack)

(* visit(s), called with the given frames below it.                        *)
visit(s, below) ==
    resolver' = IF s \in visited THEN [resolver EXCEPT !.stack = below]
                ELSE IF s \in visiting THEN [resolver EXCEPT !.stack = below, !.state = "null"]
                ELSE [resolver EXCEPT !.stack = Append(below, [skill |-> s, todo |-> resolver.deps[s]])]

(* The loop over the keys, and the one over the dependencies of a skill.   *)
VisitKey ==
    /\ resolver.state = "walking" /\ top = 0
    /\ \E s \in resolver.keys \ visited : visit(s, <<>>)
VisitDependency ==
    /\ resolver.state = "walking" /\ top > 0
    /\ \E s \in resolver.stack[top].todo : visit(s, [resolver.stack EXCEPT ![top].todo = @ \ {s}])

(* visit is done with a skill when it is done with its dependencies.       *)
VisitEnds ==
    /\ resolver.state = "walking" /\ top > 0 /\ resolver.stack[top].todo = {}
    /\ resolver' = [resolver EXCEPT !.stack = SubSeq(@, 1, top - 1),
                                    !.order = Append(@, resolver.stack[top].skill)]

ReturnOrder ==
    /\ resolver.state = "walking" /\ top = 0 /\ resolver.keys \subseteq visited
    /\ resolver' = [resolver EXCEPT !.state = "done"]

ResolverNext == ResolveInstallOrder \/ VisitKey \/ VisitDependency \/ VisitEnds \/ ReturnOrder

(* An installation order: every key and everything needed, nothing else,   *)
(* each once and after all it needs.                                       *)
IsInstallOrder(order) ==
    /\ resolver.keys \subseteq ToSet(order)
    /\ \A i, j \in DOMAIN order : order[i] = order[j] => i = j
    /\ \A i \in DOMAIN order : resolver.deps[order[i]] \subseteq {order[j] : j \in 1..(i - 1)}
    /\ \A C \in SUBSET Graph :
           resolver.keys \subseteq C /\ (\A s \in C : resolver.deps[s] \subseteq C) => ToSet(order) \subseteq C

(* resolveInstallOrder returns an installation order, and NULL only when   *)
(* there is none; a self-dependency is a cycle.                            *)
InstallOrderIsSound ==
    /\ resolver.state = "done" => IsInstallOrder(resolver.order)
    /\ resolver.state = "null" =>
           \A n \in 0..Cardinality(Graph) : \A order \in [1..n -> Graph] : ~IsInstallOrder(order)

(***************************************************************************)
(* semver.ts.  A pre-release is a sequence of identifiers; an identifier   *)
(* is a number, or a word written [word |-> k] with words ordered by k.    *)
(* What does not parse (1.2, v1.0.0, 1.0.0+build) is one value.            *)
(***************************************************************************)
Identifiers == [num : {TRUE, FALSE}, k : VersionNumbers]
Versions == [major : VersionNumbers, minor : VersionNumbers, patch : VersionNumbers,
             pre : {<<>>} \cup {<<i>> : i \in Identifiers} \cup {<<i, i>> : i \in Identifiers}]

Unparsable == [major |-> -1, minor |-> -1, patch |-> -1, pre |-> <<>>]
AnyVersions == Versions \cup {Unparsable}

parses(v) == v # Unparsable

sign(a, b) == IF a > b THEN 1 ELSE IF a < b THEN -1 ELSE 0

comparePart(x, y) ==
    IF x.num = y.num THEN sign(x.k, y.k) ELSE IF x.num THEN -1 ELSE 1

(* The first differing identifier decides, else the longer one wins.       *)
compareIdentifiers(p, q) ==
    LET diff == {i \in 1..(IF Len(p) < Len(q) THEN Len(p) ELSE Len(q)) : p[i] # q[i]}
    IN  IF diff = {} THEN sign(Len(p), Len(q))
        ELSE LET i == CHOOSE i \in diff : \A j \in diff : i <= j IN comparePart(p[i], q[i])

(* The pre-release comparison: none is newest.                             *)
comparePrerelease(p, q) ==
    IF p = <<>> /\ q = <<>> THEN 0
    ELSE IF p = <<>> THEN 1
    ELSE IF q = <<>> THEN -1
    ELSE compareIdentifiers(p, q)

compareParsed(a, b) ==
    IF a.major # b.major THEN sign(a.major, b.major)
    ELSE IF a.minor # b.minor THEN sign(a.minor, b.minor)
    ELSE IF a.patch # b.patch THEN sign(a.patch, b.patch)
    ELSE comparePrerelease(a.pre, b.pre)

(* A version that does not parse compares as equal to every other.         *)
compareSemVer(a, b) == IF parses(a) /\ parses(b) THEN compareParsed(a, b) ELSE 0

isCompatible(a, b) ==
    /\ parses(a) /\ parses(b)
    /\ a.major = b.major
    /\ a.major = 0 => a.minor = b.minor

satisfiesRange(v, op, r) ==
    /\ parses(v)
    /\ CASE op = ">=" -> compareSemVer(v, r) >= 0
         [] op = "^" -> isCompatible(v, r) /\ compareSemVer(v, r) >= 0
         [] op = "~" -> parses(r) /\ v.major = r.major /\ v.minor = r.minor /\ v.patch >= r.patch
         [] OTHER -> compareSemVer(v, r) = 0

(* latestVersion: a left fold that keeps the first of equal versions.      *)
newer(best, v) == IF compareSemVer(v, best) > 0 THEN v ELSE best
latestVersion(vs) == FoldLeft(newer, vs[1], vs)

ZeroRelease == [major |-> 0, minor |-> 0, patch |-> 0, pre |-> <<>>]
PickVersions == versions = <<ZeroRelease, ZeroRelease>> /\ versions' \in AnyVersions \X AnyVersions

(* On versions that parse, comparison is a total order and the ranges      *)
(* respect it: a pre-release of a version is older than the version, a     *)
(* caret range admits no version below its base or across a breaking       *)
(* change, and the latest of several does not depend on the order they     *)
(* come in.  Of the others, latestVersion drops those that come later and  *)
(* returns the one that comes first, whatever follows; a range that does   *)
(* not parse admits everything or, with a caret or a tilde, nothing.       *)
VersionsAreOrdered ==
    LET a == versions[1]  b == versions[2]
    IN  /\ compareSemVer(a, b) = -compareSemVer(b, a)
        /\ satisfiesRange(a, "^", b) => satisfiesRange(a, ">=", b) /\ a.major = b.major
        /\ satisfiesRange(a, "^", b) /\ satisfiesRange(b, "^", a) => a = b
        /\ parses(a) /\ parses(b) =>
               /\ compareSemVer(a, b) = 0 <=> a = b
               /\ [a EXCEPT !.pre = <<>>] # a => compareSemVer(a, [a EXCEPT !.pre = <<>>]) < 0
               /\ \A c \in {[a EXCEPT !.pre = <<>>], [b EXCEPT !.pre = <<>>],
                            [a EXCEPT !.minor = b.minor]} :
                      /\ compareSemVer(a, b) > 0 /\ compareSemVer(b, c) > 0
                            => compareSemVer(a, c) > 0
                      /\ latestVersion(<<a, b, c>>) = latestVersion(<<c, b, a>>)
               /\ latestVersion(<<a, Unparsable, b>>) = latestVersion(<<a, b>>)
        /\ ~parses(a) => latestVersion(<<a, b>>) = a
        /\ parses(a) /\ ~parses(b) =>
               {op \in {">=", "^", "~", "="} : satisfiesRange(a, op, b)} = {">=", "="}

SkillsInit ==
    /\ MonitorInit /\ LifeInit /\ DiskInit /\ ResolverInit
    /\ versions = <<ZeroRelease, ZeroRelease>>

SkillsTypeOK ==
    /\ monitor \in [started : BOOLEAN, stopped : BOOLEAN]
    /\ entry.state \in {"unknown", "healthy", "unhealthy"} /\ entry.gen \in 0..MaxRegistrations
    /\ checks \subseteq 1..MaxRegistrations /\ results \in Seq(BOOLEAN)
    /\ life.status \in {"none", "active", "deprecated", "expired", "disabled"}
    /\ today \in 1..MaxDays
    /\ disk.dir \in {"old", "new", "partial", "none"}
    /\ resolver.order \in Seq(Graph) /\ versions \in AnyVersions \X AnyVersions
=============================================================================
