------------------------------ MODULE UpstreamCheck ------------------------------
(***************************************************************************)
(* The background check of the upstream repository: the refresh worker     *)
(* resolves where `main` is and how this build relates to it, sends what   *)
(* it learned to the update loop, and chooses when to try again.           *)
(*                                                                         *)
(* The hosted repository is a commit graph whose main branch moves.  A     *)
(* definition X_Y that precedes X is a faulty variant of X.                *)
(***************************************************************************)
EXTENDS Naturals, Sequences, FiniteSets, FiniteSetsExt

CONSTANTS Parents,    \* the commit graph: the parents of each commit, numbered from the root
          VersionOf,  \* the package version each commit declares: its dotted parts, none when malformed
          MaxCycles,  \* bound: refresh cycles in a behaviour
          MaxMoves    \* bound: moves of main in a behaviour

Commits == DOMAIN Parents

\* Zero is no revision, no version and no Retry-After (which a Retry-After of 0 amounts to).
None == 0
Unknown == 0
Unpublished == 100

ASSUME GraphAssumption ==
  /\ Parents \in Seq(SUBSET Nat) /\ Len(Parents) < Unpublished
  /\ \A c \in Commits : Parents[c] \subseteq 1 .. c - 1
  /\ VersionOf \in [Commits -> Seq(Nat)]
  /\ MaxCycles \in Nat /\ MaxMoves \in Nat

VARIABLES build,      \* the revision this program was built from
          main,       \* main of the hosted repository
          worker,     \* the refresh task: where it is, and its counters
          inbox,      \* messages sent to the update loop
          snapshot,   \* upstream_revision_cache
          resolved,   \* history: the last revision resolved, and the last version read
          cycles, moves

checkVars == <<build, main, worker, inbox, snapshot, resolved, cycles, moves>>

(***************************************************************************)
(* The hosted repository.                                                  *)
(***************************************************************************)
Ancestors[c \in Commits] == {c} \cup UNION {Ancestors[p] : p \in Parents[c]}
Beyond(base, head) == Ancestors[head] \ Ancestors[base]
Common(a, b) == Ancestors[a] \cap Ancestors[b]
MergeBases(a, b) == {c \in Common(a, b) : \A d \in Common(a, b) : c \notin Ancestors[d] \ {d}}
\* An answer may leave the merge base out.
Compared(base, head) == [merge_base : MergeBases(base, head) \cup {None}, ahead : {Cardinality(Beyond(base, head))}]

(***************************************************************************)
(* Answers and errors.                                                     *)
(***************************************************************************)
Failed(name) == [error |-> name, after |-> None]
RequestError == {Failed("Timeout"), Failed("Transport")}
ReadBoundedBody == {Failed("Transport"), Failed("ResponseTooLarge")}
RetryAfter == {None, 90}
RateLimited == {[error |-> "RateLimited", after |-> after] : after \in RetryAfter}
HttpStatus == {Failed("Http5xx"), Failed("Http4xx")}

MainRevErrors == RequestError \cup RateLimited \cup HttpStatus \cup ReadBoundedBody
                   \cup {Failed("InvalidResponse"), Failed("NoMainRef")}
VersionErrors == RequestError \cup RateLimited \cup HttpStatus \cup ReadBoundedBody
ParseTangledError == RateLimited \cup {Failed("RepoNotFound")} \cup HttpStatus
CompareErrors(head) == RequestError \cup ReadBoundedBody \cup ParseTangledError \cup {Failed("InvalidResponse")}
                         \cup (IF head = Unpublished THEN {Failed("RevisionNotFound")} ELSE {})

(***************************************************************************)
(* The relation of this build to main.                                     *)
(***************************************************************************)
Current == [kind |-> "Current"]
Unavailable == [kind |-> "Unavailable"]
Ahead(n) == [kind |-> "Ahead", ahead |-> n]
Behind(n) == [kind |-> "Behind", behind |-> n]
Diverged(a, b) == [kind |-> "Diverged", ahead |-> a, behind |-> b]

RelationFromOrderedCompares(rev, current, first, reverse) ==
  CASE first.merge_base = rev     -> Ahead(first.ahead)
    [] first.merge_base = current -> Behind(reverse.ahead)
    [] OTHER                      -> Diverged(first.ahead, reverse.ahead)

\* Every outcome of comparing the build with the revision rev of main.
Relations(rev) ==
  CASE build = Unknown     -> {Unavailable}
    [] build = rev         -> {Current}
    [] build = Unpublished -> {Unavailable}
    [] OTHER -> UNION {IF first.merge_base = rev THEN {Ahead(first.ahead)}
                       ELSE {RelationFromOrderedCompares(rev, build, first, reverse) : reverse \in Compared(build, rev)}
                       : first \in Compared(rev, build)}
\* Errors of the comparison that end the cycle; RevisionNotFound does not.
RelationErrors(rev) == IF build \in {Unknown, rev} THEN {} ELSE CompareErrors(build) \ {Failed("RevisionNotFound")}

ResolveUpstreamRelation ==
  {[error |-> "ok", after |-> None, revision |-> main, relation |-> r] : r \in Relations(main)}
    \cup MainRevErrors \cup RelationErrors(main)
    \cup {Failed("Deadline")}                      \* the cycle's five seconds are over

(***************************************************************************)
(* Package versions.                                                       *)
(***************************************************************************)
\* Trailing zeros are dropped, down to a single one.
ParseDottedVersion(parts) ==
  LET last == Max({i \in DOMAIN parts : parts[i] # 0} \cup {1}) IN SubSeq(parts, 1, last)
\* The order of Vec<u64>.
VecLess(a, b) ==
  \/ \E i \in DOMAIN a \cap DOMAIN b : a[i] < b[i] /\ \A j \in 1 .. i - 1 : a[j] = b[j]
  \/ Len(a) < Len(b) /\ \A j \in DOMAIN a : a[j] = b[j]
VersionRelation(installed, upstream) ==
  CASE upstream = <<>> \/ installed = <<>> -> "Unavailable"
    [] VecLess(ParseDottedVersion(installed), ParseDottedVersion(upstream)) -> "NewerAvailable"
    [] OTHER -> "Current"
\* What a read of Cargo.toml on main yields.
ParsePackageVersion == IF VersionOf[main] = <<>> THEN None ELSE main

(***************************************************************************)
(* The refresh worker.                                                     *)
(***************************************************************************)
COLD_TRANSIENT_DELAYS == <<15, 30, 60, 120, 300>>
RATE_LIMIT_DELAYS == <<60, 120, 300, 900, 1800>>
UPSTREAM_REFRESH_INTERVAL == 7200
UpstreamRetryJitter == {0, 1}

IsTransient(result) == result.error \in {"Timeout", "Transport", "Http5xx", "Deadline"}
IsRate(result) == result.error = "RateLimited"
Class(result) == CASE result.error = "ok" -> "ok" [] IsRate(result) -> "rate" [] IsTransient(result) -> "transient"
                   [] OTHER -> "other"

UpstreamRetryDelay(succeeded, transient, rate, after, isTransient, jitter) ==
  LET local == (IF rate > 0 THEN RATE_LIMIT_DELAYS[Min({rate, 5})]
                ELSE COLD_TRANSIENT_DELAYS[Min({transient + 1, 5})]) + jitter IN
  IF rate = 0 /\ (succeeded \/ ~isTransient) THEN UPSTREAM_REFRESH_INTERVAL
  ELSE Max({after, local})

\* The counters after a cycle, and the delay before the next one.
Paced(w, result, jitter) ==
  LET transient == IF IsTransient(result) THEN w.transient ELSE 0
      rate == IF IsRate(result) THEN w.rate + 1 ELSE 0
      succeeded == w.succeeded \/ result.error = "ok" IN
  [at |-> "sleep", succeeded |-> succeeded, rate |-> rate,
   transient |-> IF IsTransient(result) THEN transient + 1 ELSE 0,
   last |-> Class(result), asked |-> result.after,
   delay |-> UpstreamRetryDelay(succeeded, transient, rate, result.after, IsTransient(result),
                                IF IsTransient(result) \/ IsRate(result) THEN jitter ELSE 0)]

Refresh ==
  /\ worker.at = "sleep" /\ cycles < MaxCycles
  /\ cycles' = cycles + 1
  /\ \E result \in ResolveUpstreamRelation, jitter \in UpstreamRetryJitter :
       IF result.error = "ok"
       THEN /\ inbox' = Append(inbox, [type |-> "Success", revision |-> result.revision, relation |-> result.relation])
            /\ resolved' = [resolved EXCEPT !.revision = result.revision]
            /\ worker' = [Paced(worker, result, jitter) EXCEPT !.at = "version"]
       ELSE /\ inbox' = Append(inbox, [type |-> "Failed"])
            /\ worker' = Paced(worker, result, jitter)
            /\ UNCHANGED resolved
  /\ UNCHANGED <<build, main, snapshot, moves>>

\* Within the same deadline; a failure keeps the version known so far.
RefreshVersion ==
  /\ worker.at = "version"
  /\ \/ /\ inbox' = Append(inbox, [type |-> "Version", version |-> ParsePackageVersion])
        /\ resolved' = [resolved EXCEPT !.version = ParsePackageVersion]
     \/ /\ VersionErrors # {} /\ UNCHANGED <<inbox, resolved>>
  /\ worker' = [worker EXCEPT !.at = "sleep"]
  /\ UNCHANGED <<build, main, snapshot, cycles, moves>>

(***************************************************************************)
(* What the update loop keeps of it.                                       *)
(***************************************************************************)
PublishUpstreamRevision(m) ==
  [revision |-> m.revision, relation |-> m.relation, version |-> snapshot.version, failed |-> FALSE]
PublishUpstreamVersion(m) ==
  IF snapshot.revision = None THEN snapshot ELSE [snapshot EXCEPT !.version = m.version]
PublishUpstreamFailure_Forget ==
  [revision |-> None, relation |-> Unavailable, version |-> None, failed |-> TRUE]
PublishUpstreamFailure == [snapshot EXCEPT !.failed = TRUE]

ReceiveRefresh ==
  /\ inbox # <<>> /\ inbox' = Tail(inbox)
  /\ LET m == Head(inbox) IN
     snapshot' = CASE m.type = "Success" -> PublishUpstreamRevision(m)
                   [] m.type = "Version" -> PublishUpstreamVersion(m)
                   [] m.type = "Failed"  -> PublishUpstreamFailure
  /\ UNCHANGED <<build, main, worker, resolved, cycles, moves>>

MainMoves ==
  /\ moves < MaxMoves /\ moves' = moves + 1
  /\ \E c \in Commits \ {main} : main' = c
  /\ UNCHANGED <<build, worker, inbox, snapshot, resolved, cycles>>

CheckInit ==
  /\ build \in Commits \cup {Unknown, Unpublished} /\ main \in Commits
  /\ worker = [at |-> "sleep", succeeded |-> FALSE, rate |-> 0, transient |-> 0, last |-> "ok", asked |-> None, delay |-> 0]
  /\ inbox = <<>> /\ cycles = 0 /\ moves = 0
  /\ snapshot = [revision |-> None, relation |-> Unavailable, version |-> None, failed |-> FALSE]
  /\ resolved = [revision |-> None, version |-> None]

CheckNext == Refresh \/ RefreshVersion \/ ReceiveRefresh \/ MainMoves
CheckSpec == CheckInit /\ [][CheckNext]_checkVars

(***************************************************************************)
(* Properties.                                                             *)
(***************************************************************************)
\* Ahead and behind counts of a relation, as `info` shows them.
Counts(r) == <<IF r.kind \in {"Ahead", "Diverged"} THEN r.ahead ELSE 0,
               IF r.kind \in {"Behind", "Diverged"} THEN r.behind ELSE 0>>

\* Whatever main did and whichever request failed, the relation shown is the true one between this
\* build and the revision shown beside it: the number of commits only the build has, and the number
\* only that revision has, in the commit graph.
RelationTrue ==
  snapshot.relation.kind # "Unavailable" =>
    /\ build \in Commits /\ snapshot.revision \in Commits
    /\ Counts(snapshot.relation) =
         <<Cardinality(Beyond(snapshot.revision, build)), Cardinality(Beyond(build, snapshot.revision))>>

\* With nothing left to publish, `info` shows the last revision and the last version read, however
\* many failed cycles followed: a failure never loses what was known.
ShownIsLastKnown ==
  inbox = <<>> => snapshot.revision = resolved.revision /\ snapshot.version = resolved.version

\* An update is announced exactly when the upstream version is the greater one, part by part, a
\* missing part counting as zero ("1" and "1.0" are the same version).
Part(v, i) == IF i \in DOMAIN v THEN v[i] ELSE 0
Greater(a, b) == \E i \in DOMAIN a : Part(a, i) > Part(b, i) /\ \A j \in 1 .. i - 1 : Part(a, j) = Part(b, j)
NoticeTrue ==
  build \in Commits /\ snapshot.version # None /\ VersionOf[build] # <<>> =>
    (VersionRelation(VersionOf[build], VersionOf[snapshot.version]) = "NewerAvailable"
       <=> Greater(VersionOf[snapshot.version], VersionOf[build]))

\* A rate-limited check waits at least as long as the server asked; before the first success an
\* outage is retried within minutes; afterwards only rate limits leave the two-hour cadence.
RetryPaced ==
  /\ worker.last = "rate" =>
       worker.delay >= Max({60, worker.asked})
  /\ worker.last = "transient" /\ ~worker.succeeded => worker.delay \in 15 .. 301
  /\ worker.succeeded /\ worker.last # "rate" => worker.delay = UPSTREAM_REFRESH_INTERVAL

\* The invariant of the upstream check: what is shown is true of the last successful check, and
\* retries are paced.
UpstreamInv == RelationTrue /\ ShownIsLastKnown /\ NoticeTrue /\ RetryPaced

=============================================================================
