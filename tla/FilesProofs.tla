----------------------------- MODULE FilesProofs -----------------------------
(***************************************************************************)
(* What Lavis keeps in its directories, for every value of the constants:  *)
(* an updated module is found again, the settings and aliases are what     *)
(* the files hold, and no session is lost by a reset.                      *)
(***************************************************************************)
EXTENDS MCFiles, FiniteSetTheorems, NaturalsInduction, SequenceTheorems, TLAPS

-----------------------------------------------------------------------------
(* A set of naturals has a least element.                                    *)

LEMMA LeastNatural ==
  ASSUME NEW T \in SUBSET Nat, T # {}
  PROVE  \E x \in T : \A y \in T : x <= y
<1> DEFINE R == OpToRel(<, Nat)
<1>1. IsWellFoundedOn(R, Nat)
  BY NatLessThanWellFounded, Zenon
<1>2. PICK x \in T : \A y \in T : ~(<<y, x>> \in R)
  <2> HIDE DEF R
  <2> QED BY <1>1, WFMin
<1>3. \A y \in T : ~(y < x)
  BY <1>2 DEF OpToRel
<1> QED BY <1>3

-----------------------------------------------------------------------------
(* Module installation.                                                      *)

InstallSteps == {"idle", "install", "validate", "discard", "receipt", "stop", "backup", "rename", "check", "remove",
                 "back", "prune", "register", "start", "restart", "record"}

Ops == [at : InstallSteps, gen : 0 .. MaxGen, was : BOOLEAN, kept : 0 .. MaxGen]
Hists == [gen : 0 .. MaxGen, seen : 0 .. MaxGen, installs : [Gens -> Nat], broken : BOOLEAN, cut : BOOLEAN,
          left : 0 .. MaxGen]
Trees == [gen : Gens, whole : BOOLEAN, mtime : Int]

InstallShape ==
  /\ now \in 0 .. MaxTime /\ op \in Ops /\ hist \in Hists
  /\ target \in Trees \cup {Absent} /\ backups \subseteq Trees
  /\ approvals \subseteq [gen : Gens, exp : Int] /\ DOMAIN stage \subseteq Gens
  /\ descriptor \in 0 .. MaxGen /\ process \in 0 .. MaxGen /\ receipt \in 0 .. MaxGen
  /\ declared \in BOOLEAN /\ enabled \in BOOLEAN /\ lavisUp \in BOOLEAN

\* The module is in place, or waits for the next boot in a backup.
Recoverable == target # Absent \/ (hist.broken /\ backups # {})

\* Where the generations are at each step of a command.
PlaceInv ==
  lavisUp =>
    /\ op.at \in {"idle", "install", "stop", "backup", "restart"} =>
         /\ descriptor # 0 => target.gen \in {0, descriptor, hist.left}
         /\ hist.seen # 0 \/ descriptor # 0 => Recoverable
    /\ op.at \in {"rename", "back"} => target = Absent
    /\ op.at \in {"rename", "check", "remove", "back"} =>
         /\ op.kept \in {0, descriptor, hist.left}
         /\ IF op.kept # 0 THEN Kept # {} ELSE hist.broken /\ backups # {}
    /\ op.at = "back" => op.kept # 0
    /\ op.at \in {"validate", "discard", "receipt", "check", "remove", "prune", "register", "start", "record"} =>
         target.gen = op.gen
    /\ op.at \in {"validate", "receipt", "check", "prune", "register", "start", "record"} => target.whole

\* The registered generation is on disk; while its update is checked, in a backup.
Holds(ds) == \E d \in ds : d.gen = descriptor /\ d.whole

HeldInv ==
  lavisUp /\ descriptor # 0 =>
    /\ op.at # "register" => Holds(backups \cup {target})
    /\ op.at \in {"rename", "check", "remove", "back"} => Holds(backups)

\* Which process runs under which descriptor.
RunInv ==
  lavisUp =>
    /\ op.at \in {"idle", "stop"} /\ process # 0 => process = target.gen /\ descriptor # 0
    /\ op.at = "record" => process \in {0, target.gen}
    /\ op.at \in {"start", "record"} => descriptor = op.gen
    /\ op.at \notin {"idle", "stop", "record"} => process = 0
    /\ op.at \in {"install", "validate", "discard", "receipt"} => descriptor = 0
    /\ op.at \in {"stop", "backup", "rename", "check", "remove", "back", "prune", "restart"} => descriptor # 0

DownInv == ~lavisUp => approvals = {} /\ op = IdleOp /\ (hist.seen # 0 => target # Absent \/ backups # {})

\* A tree that is not whole is being removed, or its removal ended halfway.
WholeInv ==
  ~hist.cut => (op.at \in {"discard", "remove"} \/ target.whole) /\ \A b \in backups : b.whole

\* A generation is approved once, staged until then, and installed at most once.
ApprovedInv ==
  /\ \A a \in approvals : /\ a.gen <= hist.gen /\ a.gen \in DOMAIN stage /\ stage[a.gen] = "payload"
                          /\ hist.installs[a.gen] = 0 /\ (op.at # "idle" => a.gen # op.gen)
  /\ \A a, b \in approvals : a.gen = b.gen => a = b

InstalledInv ==
  /\ op.at # "idle" => op.gen \in 1 .. hist.gen
  /\ op.at \in {"install", "stop", "backup", "rename"} => hist.installs[op.gen] = 0
  /\ \A g \in Gens : hist.installs[g] <= 1 /\ (g > hist.gen => hist.installs[g] = 0)

\* No command is ever in progress for a module NixOS manages, and none has moved anything before
\* its backup.
CommandInv ==
  (op.at = "idle" => op = IdleOp) /\ (declared => op.at = "idle") /\ (op.at \in {"stop", "backup"} => op.kept = 0)

InstallStrong ==
  /\ InstallShape /\ PlaceInv /\ HeldInv /\ RunInv /\ DownInv /\ WholeInv /\ ApprovedInv /\ InstalledInv
  /\ CommandInv

LEMMA InstallInitially ==
  ASSUME InstallInit
  PROVE  InstallStrong
<1>1. MaxGen \in Nat /\ MaxGen > 0 /\ MaxTime \in Nat /\ 0 \in 0 .. MaxGen /\ 1 \in 0 .. MaxGen /\ 0 \in 0 .. MaxTime
  BY InstallAssumption
<1>2. target.gen \in {0, 1} /\ descriptor = target.gen /\ process = target.gen /\ hist.seen = target.gen /\ hist.gen = target.gen
      /\ target.whole
  BY DEF InstallInit, Dir, Absent
<1>3. InstallShape
  <2>1. op \in Ops
    BY <1>1 DEF InstallInit, Ops, InstallSteps, IdleOp
  <2>2. hist \in Hists
    BY <1>1 DEF InstallInit, Hists, Gens
  <2>3. target \in Trees \cup {Absent}
    BY <1>1 DEF InstallInit, Dir, Trees, Gens
  <2>4. DOMAIN stage \subseteq Gens /\ declared \in BOOLEAN /\ enabled \in BOOLEAN /\ lavisUp \in BOOLEAN
    BY DEF InstallInit
  <2> QED BY <1>1, <1>2, <2>1, <2>2, <2>3, <2>4 DEF InstallInit, InstallShape
<1> QED
  BY <1>1, <1>2, <1>3 DEF InstallInit, InstallStrong, PlaceInv, HeldInv, Holds, RunInv, DownInv, WholeInv, ApprovedInv, InstalledInv,
     CommandInv, Recoverable, IdleOp, Absent, Dir, Gens

\* What a cleanup leaves of the staging wrappers.
LEMMA WithoutKeeps ==
  ASSUME NEW gs, NEW s \in Without(gs)
  PROVE  /\ DOMAIN s \subseteq DOMAIN stage
         /\ \A g \in DOMAIN stage : g \notin gs => g \in DOMAIN s
         /\ \A g \in DOMAIN s : s[g] = stage[g]
BY DEF Without

\* What a removal leaves of a tree is a tree, dated now.
LEMMA PartialType ==
  ASSUME InstallShape, NEW d \in Trees
  PROVE  Partial(d) \in Trees /\ Partial(d).gen = d.gen /\ ~Partial(d).whole
<1>1. Moment \in Int
  BY InstallAssumption DEF InstallShape, Hists, Moment
<1> QED BY <1>1 DEF Partial, Trees

\* Removing backups leaves no other trees, and a part of one only where a removal was cut.
LEMMA RemainsKeeps ==
  ASSUME InstallShape, NEW ds \in SUBSET backups, NEW rest \in Remains(ds)
  PROVE  /\ rest \subseteq Trees
         /\ \A d \in rest : d \in backups \/ CutIn(rest)
<1>1. rest \subseteq ds \cup {Partial(d) : d \in ds}
  BY DEF Remains
<1>2. \A d \in ds : d \in Trees /\ Partial(d) \in Trees /\ ~Partial(d).whole
  BY PartialType DEF InstallShape
<1> QED BY <1>1, <1>2 DEF CutIn

\* A tree is not the absence of one.
LEMMA TreeType ==
  ASSUME NEW d \in Trees
  PROVE  d # Absent /\ d.gen # 0 /\ d.gen \in Gens /\ d.gen \in 0 .. MaxGen
BY InstallAssumption DEF Trees, Gens, Absent

\* The directory is absent exactly if it holds no generation.
LEMMA TargetType ==
  ASSUME InstallShape
  PROVE  /\ (target.gen = 0 <=> target = Absent) /\ target.gen \in 0 .. MaxGen /\ (target = Absent \/ target \in Trees)
         /\ target.whole \in BOOLEAN
<1>1. CASE target \in Trees
  BY <1>1, TreeType DEF Trees
<1>2. CASE target = Absent
  BY <1>2, InstallAssumption DEF Absent
<1> QED BY <1>1, <1>2 DEF InstallShape

\* The command goes on to its next step.
LEMMA GotoNext ==
  ASSUME op \in Ops, NEW step \in InstallSteps, op' = [op EXCEPT !.at = step]
  PROVE  op' \in Ops /\ op'.at = step /\ op'.gen = op.gen /\ op'.was = op.was /\ op'.kept = op.kept
BY DEF Ops

LEMMA IdleOpType == IdleOp \in Ops /\ IdleOp.at = "idle" /\ IdleOp.gen = 0
BY InstallAssumption DEF IdleOp, Ops, InstallSteps

\* A failed update starts the old process again if there was one.
LEMMA UpdateFails ==
  ASSUME op \in Ops, UpdateFailed
  PROVE  /\ op' \in Ops /\ op'.at \in {"restart", "idle"} /\ stage' = stage
         /\ op'.at = "restart" => op'.gen = op.gen
         /\ op'.at = "idle" => op' = IdleOp
<1>1. CASE op.was
  BY <1>1, GotoNext DEF UpdateFailed, InstallSteps
<1>2. CASE ~op.was
  BY <1>2, IdleOpType DEF UpdateFailed
<1> QED BY <1>1, <1>2

\* A generation becomes visible.
LEMMA VisibleNow ==
  ASSUME hist \in Hists, NEW g \in Gens, hist' = Visible(g)
  PROVE  /\ hist' \in Hists /\ hist'.gen = hist.gen /\ hist'.seen = g
         /\ hist'.broken = hist.broken /\ hist'.cut = hist.cut /\ hist'.left = hist.left
         /\ hist'.installs[g] = hist.installs[g] + 1
         /\ \A h \in Gens : h # g => hist'.installs[h] = hist.installs[h]
<1>1. g \in 0 .. MaxGen
  BY InstallAssumption DEF Gens
<1>2. [hist.installs EXCEPT ![g] = @ + 1] \in [Gens -> Nat]
  BY DEF Hists
<1> QED BY <1>1, <1>2 DEF Hists, Visible

LEMMA DirType ==
  ASSUME NEW g \in Gens
  PROVE  Dir(g) \in Trees /\ Dir(g).gen = g /\ Dir(g).whole /\ Dir(g) # Absent /\ g # 0 /\ g \in 0 .. MaxGen
BY InstallAssumption DEF Dir, Trees, Gens, Absent

LEMMA AbsentType == Absent.gen = 0 /\ Absent.whole
BY DEF Absent

LEMMA OpGen ==
  ASSUME InstallShape, InstalledInv, op.at # "idle"
  PROVE  op.gen \in Gens
BY InstallAssumption DEF InstallShape, InstalledInv, Ops, Hists, Gens

LEMMA TickInstalls ==
  ASSUME InstallStrong, Tick
  PROVE  InstallStrong'
<1>s. InstallShape /\ PlaceInv /\ HeldInv /\ RunInv /\ DownInv /\ WholeInv /\ ApprovedInv /\ InstalledInv /\ CommandInv
  BY DEF InstallStrong
<1>e. /\ now' \in 0 .. MaxTime /\ UNCHANGED <<approvals, stage, target, backups, linked, descriptor, process, receipt, declared, enabled, op, lavisUp, hist>>
  BY <1>s, InstallAssumption DEF Tick, inMemory, disk, InstallShape
<1>1. InstallShape'
  BY <1>s, <1>e DEF InstallShape
<1>2. PlaceInv'
  BY <1>s, <1>e DEF PlaceInv, Recoverable, Kept
<1>3. RunInv'
  BY <1>s, <1>e DEF RunInv
<1>4. DownInv'
  BY <1>s, <1>e DEF DownInv
<1>5. WholeInv'
  BY <1>s, <1>e DEF WholeInv
<1>6. ApprovedInv'
  BY <1>s, <1>e DEF ApprovedInv
<1>7. InstalledInv'
  BY <1>s, <1>e DEF InstalledInv
<1>8. CommandInv'
  BY <1>s, <1>e DEF CommandInv
<1>9. HeldInv'
  BY <1>s, <1>e DEF HeldInv, Holds
<1> QED BY <1>1, <1>2, <1>3, <1>4, <1>5, <1>6, <1>7, <1>8, <1>9 DEF InstallStrong

LEMMA LmQueryInstalls ==
  ASSUME InstallStrong, LmQuery
  PROVE  InstallStrong'
<1>s. InstallShape /\ PlaceInv /\ HeldInv /\ RunInv /\ DownInv /\ WholeInv /\ ApprovedInv /\ InstalledInv /\ CommandInv
  BY DEF InstallStrong
<1>e. /\ lavisUp /\ approvals' = Live /\ stage' \in Without(Generations(approvals \ Live))
      /\ UNCHANGED <<now, target, backups, linked, descriptor, process, declared, enabled, receipt, op, lavisUp, hist>>
  BY DEF LmQuery, At, Purge
<1>1. InstallShape'
  BY <1>s, <1>e, WithoutKeeps DEF InstallShape, Live
<1>2. PlaceInv'
  BY <1>s, <1>e DEF PlaceInv, Recoverable, Kept
<1>3. RunInv'
  BY <1>s, <1>e DEF RunInv
<1>4. DownInv'
  BY <1>s, <1>e DEF DownInv
<1>5. WholeInv'
  BY <1>s, <1>e DEF WholeInv
<1>6. ApprovedInv'
  BY <1>s, <1>e, WithoutKeeps DEF ApprovedInv, Live, Generations
<1>7. InstalledInv'
  BY <1>s, <1>e DEF InstalledInv
<1>8. CommandInv'
  BY <1>s, <1>e DEF CommandInv
<1>9. HeldInv'
  BY <1>s, <1>e DEF HeldInv, Holds
<1> QED BY <1>1, <1>2, <1>3, <1>4, <1>5, <1>6, <1>7, <1>8, <1>9 DEF InstallStrong

LEMMA RegisterInstalledInstalls ==
  ASSUME InstallStrong, RegisterInstalled
  PROVE  InstallStrong'
<1>s. InstallShape /\ PlaceInv /\ HeldInv /\ RunInv /\ DownInv /\ WholeInv /\ ApprovedInv /\ InstalledInv /\ CommandInv
  BY DEF InstallStrong
<1>e. /\ lavisUp /\ op.at = "receipt" /\ op' = IdleOp /\ descriptor' = op.gen /\ receipt' \in {receipt, op.gen}
      /\ UNCHANGED <<now, approvals, stage, target, backups, linked, process, declared, enabled, lavisUp, hist>>
  BY DEF RegisterInstalled, At, WriteReceipt
<1>g. op.gen \in Gens /\ op'.at = "idle" /\ target.gen = op.gen /\ target.whole /\ op.gen # 0 /\ op.gen \in 0 .. MaxGen
  BY <1>s, <1>e, OpGen, IdleOpType, DirType DEF PlaceInv
<1>1. InstallShape'
  BY <1>s, <1>e, <1>g, IdleOpType DEF InstallShape
<1>2. PlaceInv'
  BY <1>s, <1>e, <1>g, TargetType DEF PlaceInv, Recoverable
<1>3. RunInv'
  BY <1>s, <1>e, <1>g DEF RunInv
<1>4. DownInv'
  BY <1>s, <1>e DEF DownInv
<1>5. WholeInv'
  BY <1>s, <1>e, <1>g DEF WholeInv
<1>6. ApprovedInv'
  BY <1>s, <1>e, IdleOpType DEF ApprovedInv
<1>7. InstalledInv'
  BY <1>s, <1>e, IdleOpType DEF InstalledInv
<1>8. CommandInv'
  BY <1>s, <1>e, IdleOpType DEF CommandInv
<1>9. HeldInv'
  BY <1>e, <1>g DEF HeldInv, Holds
<1> QED BY <1>1, <1>2, <1>3, <1>4, <1>5, <1>6, <1>7, <1>8, <1>9 DEF InstallStrong

LEMMA InstallStagedModuleInstalls ==
  ASSUME InstallStrong, InstallStagedModule
  PROVE  InstallStrong'
<1>s. InstallShape /\ PlaceInv /\ HeldInv /\ RunInv /\ DownInv /\ WholeInv /\ ApprovedInv /\ InstalledInv /\ CommandInv
  BY DEF InstallStrong
<1>e. /\ lavisUp /\ op.at = "install"
      /\ \/ /\ target = Absent /\ target' = Dir(op.gen) /\ hist' = Visible(op.gen)
            /\ stage' = [stage EXCEPT ![op.gen] = "empty"] /\ op' = [op EXCEPT !.at = "validate"]
         \/ stage' \in Without({op.gen}) /\ op' = IdleOp /\ UNCHANGED <<target, hist>>
      /\ UNCHANGED <<now, approvals, descriptor, process, backups, linked, declared, enabled, receipt, lavisUp>>
  BY DEF InstallStagedModule, At, Goto, inMemory
<1>g. op.gen \in Gens /\ descriptor = 0
  BY <1>s, <1>e, OpGen DEF RunInv
<1>o. op' \in Ops /\ ((op'.at = "validate" /\ op'.gen = op.gen /\ hist' = Visible(op.gen) /\ target' = Dir(op.gen))
                    \/ (op' = IdleOp /\ op'.at = "idle" /\ hist' = hist /\ target' = target))
  BY <1>s, <1>e, GotoNext, IdleOpType DEF InstallShape, InstallSteps
<1>h. /\ hist' \in Hists /\ hist'.gen = hist.gen /\ hist'.cut = hist.cut
      /\ \A h \in Gens : h # op.gen \/ op'.at = "idle" => hist'.installs[h] = hist.installs[h]
  BY <1>s, <1>o, <1>g, VisibleNow DEF InstallShape
<1>i. hist'.installs[op.gen] <= 1
  BY <1>s, <1>e, <1>o, <1>g, VisibleNow DEF InstallShape, InstalledInv
<1>j. \A h \in Gens : h > hist.gen => h # op.gen
  BY <1>s, <1>e DEF InstallShape, InstalledInv, Hists, Gens
<1>1. InstallShape'
  BY <1>s, <1>e, <1>g, <1>o, <1>h, WithoutKeeps, DirType DEF InstallShape
<1>2. PlaceInv'
  BY <1>s, <1>e, <1>g, <1>o, DirType DEF PlaceInv, Recoverable
<1>3. RunInv'
  BY <1>s, <1>e, <1>o DEF RunInv
<1>4. DownInv'
  BY <1>s, <1>e DEF DownInv
<1>5. WholeInv'
  BY <1>s, <1>e, <1>g, <1>o, <1>h, DirType DEF WholeInv
<1>6. ApprovedInv'
  BY <1>s, <1>e, <1>g, <1>o, <1>h, WithoutKeeps DEF ApprovedInv, InstallShape
<1>7. InstalledInv'
  BY <1>s, <1>e, <1>g, <1>o, <1>h, <1>i, <1>j DEF InstalledInv
<1>8. CommandInv'
  BY <1>s, <1>e, <1>o DEF CommandInv
<1>9. HeldInv'
  BY <1>e, <1>g DEF HeldInv
<1> QED BY <1>1, <1>2, <1>3, <1>4, <1>5, <1>6, <1>7, <1>8, <1>9 DEF InstallStrong

LEMMA ValidateInstalledInstalls ==
  ASSUME InstallStrong, ValidateInstalled
  PROVE  InstallStrong'
<1>s. InstallShape /\ PlaceInv /\ HeldInv /\ RunInv /\ DownInv /\ WholeInv /\ ApprovedInv /\ InstalledInv /\ CommandInv
  BY DEF InstallStrong
<1>e. /\ lavisUp /\ op.at = "validate" /\ stage' \in Without({op.gen}) \cup {stage}
      /\ op' = [op EXCEPT !.at = "receipt"] \/ op' = [op EXCEPT !.at = "discard"]
      /\ UNCHANGED <<now, approvals, descriptor, process, target, backups, linked, declared, enabled, receipt, lavisUp, hist>>
  BY DEF ValidateInstalled, At, Goto, inMemory
<1>o. op' \in Ops /\ op'.at \in {"receipt", "discard"} /\ op'.gen = op.gen /\ descriptor = 0
  BY <1>s, <1>e, GotoNext DEF InstallShape, InstallSteps, RunInv
<1>1. InstallShape'
  BY <1>s, <1>e, <1>o, WithoutKeeps DEF InstallShape
<1>2. PlaceInv'
  BY <1>s, <1>e, <1>o DEF PlaceInv
<1>3. RunInv'
  BY <1>s, <1>e, <1>o DEF RunInv
<1>4. DownInv'
  BY <1>s, <1>e DEF DownInv
<1>5. WholeInv'
  BY <1>s, <1>e, <1>o DEF WholeInv
<1>6. ApprovedInv'
  BY <1>s, <1>e, <1>o, WithoutKeeps DEF ApprovedInv
<1>7. InstalledInv'
  BY <1>s, <1>e, <1>o DEF InstalledInv
<1>8. CommandInv'
  BY <1>s, <1>e, <1>o DEF CommandInv
<1>9. HeldInv'
  BY <1>e, <1>o DEF HeldInv
<1> QED BY <1>1, <1>2, <1>3, <1>4, <1>5, <1>6, <1>7, <1>8, <1>9 DEF InstallStrong

\* The rejected tree loses files: what is registered is in a backup, or nothing is.
LEMMA RemovePartInstalls ==
  ASSUME InstallStrong, RemovePart
  PROVE  InstallStrong'
<1>s. InstallShape /\ PlaceInv /\ HeldInv /\ RunInv /\ DownInv /\ WholeInv /\ ApprovedInv /\ InstalledInv /\ CommandInv
  BY DEF InstallStrong
<1>e. /\ lavisUp /\ op.at \in {"discard", "remove"} /\ target' = Partial(target)
      /\ UNCHANGED <<now, approvals, stage, descriptor, process, backups, linked, declared, enabled, receipt, op, lavisUp, hist>>
  BY DEF RemovePart, At, inMemory
<1>t. target \in Trees /\ target' \in Trees /\ target'.gen = target.gen
  <2>1. target.gen = op.gen /\ op.gen \in Gens
    BY <1>s, <1>e, OpGen DEF PlaceInv
  <2>2. target \in Trees
    BY <1>s, <2>1, TargetType, DirType
  <2> QED BY <1>s, <1>e, <2>2, PartialType
<1>d. op.at = "discard" => descriptor = 0
  BY <1>s, <1>e DEF RunInv
<1>1. InstallShape'
  BY <1>s, <1>e, <1>t DEF InstallShape
<1>2. PlaceInv'
  BY <1>s, <1>e, <1>t DEF PlaceInv, Kept
<1>3. RunInv'
  BY <1>s, <1>e, <1>t DEF RunInv
<1>4. DownInv'
  BY <1>s, <1>e DEF DownInv
<1>5. WholeInv'
  BY <1>s, <1>e DEF WholeInv
<1>6. ApprovedInv'
  BY <1>s, <1>e DEF ApprovedInv
<1>7. InstalledInv'
  BY <1>s, <1>e DEF InstalledInv
<1>8. CommandInv'
  BY <1>s, <1>e DEF CommandInv
<1>9. HeldInv'
  BY <1>s, <1>e, <1>d DEF HeldInv, Holds
<1> QED BY <1>1, <1>2, <1>3, <1>4, <1>5, <1>6, <1>7, <1>8, <1>9 DEF InstallStrong

\* A rejected generation that stays is noted, and so is its being cut.
LEMMA RejectedNow ==
  ASSUME InstallShape, hist' = Rejected
  PROVE  /\ hist' \in Hists /\ hist'.gen = hist.gen /\ hist'.installs = hist.installs /\ hist'.seen = hist.seen
         /\ hist'.broken = hist.broken /\ hist'.left = target.gen /\ (~hist'.cut => ~hist.cut /\ target.whole)
<1>1. target.gen \in 0 .. MaxGen
  BY TargetType
<1>2. target.whole \in BOOLEAN
  BY TargetType
<1>3. (hist.cut \/ ~target.whole) \in BOOLEAN
  OBVIOUS
<1> QED BY <1>1, <1>2, <1>3 DEF InstallShape, Hists, Rejected

LEMMA DiscardInstalledInstalls ==
  ASSUME InstallStrong, DiscardInstalled
  PROVE  InstallStrong'
<1>s. InstallShape /\ PlaceInv /\ HeldInv /\ RunInv /\ DownInv /\ WholeInv /\ ApprovedInv /\ InstalledInv /\ CommandInv
  BY DEF InstallStrong
<1>e. /\ lavisUp /\ op.at = "discard" /\ stage' \in Without({op.gen}) /\ op' = IdleOp /\ op'.at = "idle" /\ op' \in Ops
      /\ \/ target' = Absent /\ hist' = [hist EXCEPT !.seen = 0]
         \/ hist' = Rejected /\ UNCHANGED target
      /\ UNCHANGED <<now, approvals, descriptor, process, backups, linked, declared, enabled, receipt, lavisUp>>
  BY IdleOpType DEF DiscardInstalled, At, inMemory
<1>g. op.gen \in Gens /\ target.gen = op.gen /\ target # Absent /\ descriptor = 0 /\ process = 0
  <2>1. op.gen \in Gens /\ target.gen = op.gen
    BY <1>s, <1>e, OpGen DEF PlaceInv
  <2> QED BY <1>s, <1>e, <2>1, TargetType, DirType DEF RunInv
<1>h. /\ hist' \in Hists /\ hist'.gen = hist.gen /\ hist'.installs = hist.installs
      /\ (target' = Absent /\ hist'.seen = 0 /\ hist'.cut = hist.cut)
         \/ (target' = target /\ (~hist'.cut => ~hist.cut /\ target.whole))
  <2>1. CASE target' = Absent /\ hist' = [hist EXCEPT !.seen = 0]
    BY <1>s, <2>1, InstallAssumption DEF InstallShape, Hists
  <2>2. CASE hist' = Rejected /\ UNCHANGED target
    BY <1>s, <2>2, RejectedNow
  <2> QED BY <1>e, <2>1, <2>2
<1>1. InstallShape'
  BY <1>s, <1>e, <1>h, WithoutKeeps DEF InstallShape
<1>2. PlaceInv'
  BY <1>e, <1>g, <1>h DEF PlaceInv, Recoverable
<1>3. RunInv'
  BY <1>e, <1>g DEF RunInv
<1>4. DownInv'
  BY <1>s, <1>e DEF DownInv
<1>5. WholeInv'
  BY <1>s, <1>e, <1>h, AbsentType DEF WholeInv
<1>6. ApprovedInv'
  BY <1>s, <1>e, <1>h, WithoutKeeps DEF ApprovedInv
<1>7. InstalledInv'
  BY <1>s, <1>e, <1>h DEF InstalledInv
<1>8. CommandInv'
  BY <1>e DEF CommandInv
<1>9. HeldInv'
  BY <1>e, <1>g DEF HeldInv
<1> QED BY <1>1, <1>2, <1>3, <1>4, <1>5, <1>6, <1>7, <1>8, <1>9 DEF InstallStrong

LEMMA StopModuleInstalls ==
  ASSUME InstallStrong, StopModule
  PROVE  InstallStrong'
<1>s. InstallShape /\ PlaceInv /\ HeldInv /\ RunInv /\ DownInv /\ WholeInv /\ ApprovedInv /\ InstalledInv /\ CommandInv
  BY DEF InstallStrong
<1>e. /\ lavisUp /\ op.at = "stop" /\ process' = 0 /\ op' = [op EXCEPT !.at = "backup"]
      /\ UNCHANGED <<now, approvals, descriptor, stage, target, backups, linked, receipt, declared, enabled, lavisUp, hist>>
  BY DEF StopModule, At, Goto, disk
<1>o. op' \in Ops /\ op'.at = "backup" /\ op'.gen = op.gen /\ op'.kept = op.kept
  BY <1>s, <1>e, GotoNext DEF InstallShape, InstallSteps
<1>1. InstallShape'
  BY <1>s, <1>e, <1>o, InstallAssumption DEF InstallShape
<1>2. PlaceInv'
  BY <1>s, <1>e, <1>o DEF PlaceInv, Recoverable
<1>3. RunInv'
  BY <1>s, <1>e, <1>o DEF RunInv
<1>4. DownInv'
  BY <1>s, <1>e, <1>o DEF DownInv
<1>5. WholeInv'
  BY <1>s, <1>e, <1>o DEF WholeInv
<1>6. ApprovedInv'
  BY <1>s, <1>e, <1>o DEF ApprovedInv
<1>7. InstalledInv'
  BY <1>s, <1>e, <1>o DEF InstalledInv
<1>8. CommandInv'
  BY <1>s, <1>e, <1>o DEF CommandInv
<1>9. HeldInv'
  BY <1>s, <1>e, <1>o DEF HeldInv, Holds
<1> QED BY <1>1, <1>2, <1>3, <1>4, <1>5, <1>6, <1>7, <1>8, <1>9 DEF InstallStrong

LEMMA BackupOldInstalls ==
  ASSUME InstallStrong, BackupOld
  PROVE  InstallStrong'
<1>s. InstallShape /\ PlaceInv /\ HeldInv /\ RunInv /\ DownInv /\ WholeInv /\ ApprovedInv /\ InstalledInv /\ CommandInv
  BY DEF InstallStrong
<1>e. /\ lavisUp /\ op.at = "backup"
      /\ \/ /\ target # Absent /\ target' = Absent /\ op' = [op EXCEPT !.at = "rename", !.kept = target.gen]
            /\ backups' = backups \cup {target} /\ UNCHANGED stage
         \/ target = Absent /\ op' = [op EXCEPT !.at = "rename"] /\ UNCHANGED <<target, backups, stage>>
         \/ UpdateFailed /\ UNCHANGED <<target, backups>>
      /\ UNCHANGED <<now, approvals, descriptor, process, linked, declared, enabled, receipt, lavisUp, hist>>
  BY DEF BackupOld, At, Goto, inMemory
<1>g. /\ descriptor # 0 /\ target.gen \in {0, descriptor, hist.left} /\ Recoverable /\ op.kept = 0 /\ process = 0
      /\ Holds(backups \cup {target})
  BY <1>s, <1>e DEF RunInv, PlaceInv, CommandInv, HeldInv
<1>c. \/ /\ target \in Trees /\ target.gen # 0 /\ target' = Absent /\ backups' = backups \cup {target} /\ stage' = stage
         /\ op' \in Ops /\ op'.at = "rename" /\ op'.gen = op.gen /\ op'.kept = target.gen
      \/ /\ target = Absent /\ UNCHANGED <<target, backups, stage>>
         /\ op' \in Ops /\ op'.at = "rename" /\ op'.gen = op.gen /\ op'.kept = 0
      \/ /\ UNCHANGED <<target, backups, stage>>
         /\ op' \in Ops /\ ((op'.at = "restart" /\ op'.gen = op.gen) \/ (op'.at = "idle" /\ op' = IdleOp))
  <2>1. CASE target # Absent /\ target' = Absent /\ op' = [op EXCEPT !.at = "rename", !.kept = target.gen]
             /\ backups' = backups \cup {target} /\ UNCHANGED stage
    BY <1>s, <2>1, TargetType DEF InstallShape, Ops, InstallSteps
  <2>2. CASE target = Absent /\ op' = [op EXCEPT !.at = "rename"] /\ UNCHANGED <<target, backups, stage>>
    BY <1>s, <1>g, <2>2, GotoNext DEF InstallShape, InstallSteps
  <2>3. CASE UpdateFailed /\ UNCHANGED <<target, backups>>
    BY <1>s, <2>3, UpdateFails DEF InstallShape
  <2> QED BY <1>e, <2>1, <2>2, <2>3
<1>1. InstallShape'
  BY <1>s, <1>c, <1>e DEF InstallShape
<1>2. PlaceInv'
  BY <1>e, <1>g, <1>c DEF PlaceInv, Recoverable, Kept
<1>3. RunInv'
  BY <1>e, <1>g, <1>c DEF RunInv
<1>4. DownInv'
  BY <1>s, <1>e DEF DownInv
<1>5. WholeInv'
  BY <1>s, <1>e, <1>c, AbsentType DEF WholeInv
<1>6. ApprovedInv'
  BY <1>s, <1>e, <1>c DEF ApprovedInv
<1>7. InstalledInv'
  BY <1>s, <1>e, <1>c DEF InstalledInv
<1>8. CommandInv'
  BY <1>s, <1>e, <1>c DEF CommandInv
<1>9. HeldInv'
  BY <1>s, <1>e, <1>g, <1>c, AbsentType DEF HeldInv, Holds
<1> QED BY <1>1, <1>2, <1>3, <1>4, <1>5, <1>6, <1>7, <1>8, <1>9 DEF InstallStrong

\* A roll-back goes on to the restoring rename, or ends the update if nothing was moved.
LEMMA RollsBack ==
  ASSUME op \in Ops, RollBack
  PROVE  /\ op' \in Ops /\ stage' = stage
         /\ \/ op'.at = "back" /\ op.kept # 0 /\ op'.gen = op.gen /\ op'.kept = op.kept
            \/ op.kept = 0 /\ ((op'.at = "restart" /\ op'.gen = op.gen) \/ (op'.at = "idle" /\ op' = IdleOp))
<1>1. CASE op.kept = 0
  BY <1>1, UpdateFails DEF RollBack
<1>2. CASE op.kept # 0
  BY <1>2, GotoNext DEF RollBack, Goto, InstallSteps
<1> QED BY <1>1, <1>2

\* With the new generation out of the way, the old one is still in its backup.
LEMMA RolledBackInstalls ==
  ASSUME InstallStrong, lavisUp, op.at \in {"rename", "remove"}, RollBack, target' = Absent,
         UNCHANGED <<now, approvals, descriptor, process, backups, linked, declared, enabled, receipt, lavisUp, hist>>
  PROVE  InstallStrong'
<1>s. InstallShape /\ PlaceInv /\ HeldInv /\ RunInv /\ DownInv /\ WholeInv /\ ApprovedInv /\ InstalledInv /\ CommandInv
  BY DEF InstallStrong
<1>o. /\ op' \in Ops /\ stage' = stage
      /\ \/ op'.at = "back" /\ op.kept # 0 /\ op'.gen = op.gen /\ op'.kept = op.kept
         \/ op.kept = 0 /\ ((op'.at = "restart" /\ op'.gen = op.gen) \/ (op'.at = "idle" /\ op' = IdleOp))
  BY <1>s, RollsBack DEF InstallShape
<1>p. /\ op.kept \in {0, descriptor, hist.left} /\ (IF op.kept # 0 THEN Kept # {} ELSE hist.broken /\ backups # {})
      /\ descriptor # 0 /\ process = 0 /\ Holds(backups)
  BY <1>s DEF PlaceInv, RunInv, HeldInv
<1>1. InstallShape'
  BY <1>s, <1>o DEF InstallShape
<1>2. PlaceInv'
  BY <1>o, <1>p, AbsentType DEF PlaceInv, Recoverable, Kept
<1>3. RunInv'
  BY <1>o, <1>p DEF RunInv
<1>4. DownInv'
  BY DEF DownInv
<1>5. WholeInv'
  BY <1>s, AbsentType DEF WholeInv
<1>6. ApprovedInv'
  BY <1>s, <1>o DEF ApprovedInv
<1>7. InstalledInv'
  BY <1>s, <1>o DEF InstalledInv
<1>8. CommandInv'
  BY <1>s, <1>o DEF CommandInv
<1>9. HeldInv'
  BY <1>p DEF HeldInv, Holds
<1> QED BY <1>1, <1>2, <1>3, <1>4, <1>5, <1>6, <1>7, <1>8, <1>9 DEF InstallStrong

LEMMA NewGenerationInstalls ==
  ASSUME InstallStrong, lavisUp, op.at = "rename", target' = Dir(op.gen), hist' = Visible(op.gen),
         stage' = [stage EXCEPT ![op.gen] = "empty"], op' = [op EXCEPT !.at = "check"],
         UNCHANGED <<now, approvals, descriptor, process, backups, linked, declared, enabled, receipt, lavisUp>>
  PROVE  InstallStrong'
<1>s. InstallShape /\ PlaceInv /\ HeldInv /\ RunInv /\ DownInv /\ WholeInv /\ ApprovedInv /\ InstalledInv /\ CommandInv
  BY DEF InstallStrong
<1>g. op.gen \in Gens
  BY <1>s, OpGen
<1>o. op' \in Ops /\ op'.at = "check" /\ op'.gen = op.gen /\ op'.kept = op.kept
  BY <1>s, GotoNext DEF InstallShape, InstallSteps
<1>h. /\ hist' \in Hists /\ hist'.gen = hist.gen /\ hist'.broken = hist.broken /\ hist'.cut = hist.cut /\ hist'.left = hist.left
      /\ \A h \in Gens : h # op.gen => hist'.installs[h] = hist.installs[h]
  BY <1>s, <1>g, VisibleNow DEF InstallShape
<1>i. hist'.installs[op.gen] <= 1
  BY <1>s, <1>g, VisibleNow DEF InstallShape, InstalledInv
<1>j. \A h \in Gens : h > hist.gen => h # op.gen
  BY <1>s DEF InstallShape, InstalledInv, Hists, Gens
<1>1. InstallShape'
  BY <1>s, <1>g, <1>o, <1>h, DirType DEF InstallShape
<1>2. PlaceInv'
  BY <1>s, <1>o, <1>h, <1>g, DirType DEF PlaceInv, Kept
<1>3. RunInv'
  BY <1>s, <1>o DEF RunInv
<1>4. DownInv'
  BY DEF DownInv
<1>5. WholeInv'
  BY <1>s, <1>g, <1>h, DirType DEF WholeInv
<1>6. ApprovedInv'
  BY <1>s, <1>g, <1>o, <1>h DEF ApprovedInv, InstallShape
<1>7. InstalledInv'
  BY <1>s, <1>g, <1>o, <1>h, <1>i, <1>j DEF InstalledInv
<1>8. CommandInv'
  BY <1>s, <1>o DEF CommandInv
<1>9. HeldInv'
  BY <1>s, <1>o DEF HeldInv, Holds
<1> QED BY <1>1, <1>2, <1>3, <1>4, <1>5, <1>6, <1>7, <1>8, <1>9 DEF InstallStrong

LEMMA RenameNewInstalls ==
  ASSUME InstallStrong, RenameNew
  PROVE  InstallStrong'
<1>1. target = Absent
  BY DEF InstallStrong, PlaceInv, RenameNew, At
<1> QED BY <1>1, NewGenerationInstalls, RolledBackInstalls DEF RenameNew, At, Goto, inMemory

LEMMA ValidateUpdatedInstalls ==
  ASSUME InstallStrong, ValidateUpdated
  PROVE  InstallStrong'
<1>s. InstallShape /\ PlaceInv /\ HeldInv /\ RunInv /\ DownInv /\ WholeInv /\ ApprovedInv /\ InstalledInv /\ CommandInv
  BY DEF InstallStrong
<1>e. /\ lavisUp /\ op.at = "check" /\ stage' \in Without({op.gen}) \cup {stage}
      /\ op' = [op EXCEPT !.at = "prune"] \/ op' = [op EXCEPT !.at = "remove"]
      /\ UNCHANGED <<now, approvals, descriptor, process, target, backups, linked, declared, enabled, receipt, lavisUp, hist>>
  BY DEF ValidateUpdated, At, Goto, inMemory
<1>o. op' \in Ops /\ op'.at \in {"prune", "remove"} /\ op'.gen = op.gen /\ op'.kept = op.kept
  BY <1>s, <1>e, GotoNext DEF InstallShape, InstallSteps
<1>1. InstallShape'
  BY <1>s, <1>e, <1>o, WithoutKeeps DEF InstallShape
<1>2. PlaceInv'
  BY <1>s, <1>e, <1>o DEF PlaceInv, Kept
<1>3. RunInv'
  BY <1>s, <1>e, <1>o DEF RunInv
<1>4. DownInv'
  BY <1>e DEF DownInv
<1>5. WholeInv'
  BY <1>s, <1>e, <1>o DEF WholeInv
<1>6. ApprovedInv'
  BY <1>s, <1>e, <1>o, WithoutKeeps DEF ApprovedInv
<1>7. InstalledInv'
  BY <1>s, <1>e, <1>o DEF InstalledInv
<1>8. CommandInv'
  BY <1>s, <1>e, <1>o DEF CommandInv
<1>9. HeldInv'
  BY <1>s, <1>e, <1>o DEF HeldInv, Holds
<1> QED BY <1>1, <1>2, <1>3, <1>4, <1>5, <1>6, <1>7, <1>8, <1>9 DEF InstallStrong

\* A rejected generation stays in the directory; the registered one keeps its backup.
LEMMA LeftRejectedInstalls ==
  ASSUME InstallStrong, lavisUp, op.at = "remove", hist' = Rejected, UpdateFailed,
         UNCHANGED <<now, approvals, descriptor, process, target, backups, linked, declared, enabled, receipt, lavisUp>>
  PROVE  InstallStrong'
<1>s. InstallShape /\ PlaceInv /\ HeldInv /\ RunInv /\ DownInv /\ WholeInv /\ ApprovedInv /\ InstalledInv /\ CommandInv
  BY DEF InstallStrong
<1>o. op' \in Ops /\ stage' = stage /\ ((op'.at = "restart" /\ op'.gen = op.gen) \/ (op'.at = "idle" /\ op' = IdleOp))
  BY <1>s, UpdateFails DEF InstallShape
<1>h. /\ hist' \in Hists /\ hist'.gen = hist.gen /\ hist'.installs = hist.installs
      /\ hist'.left = target.gen /\ (~hist'.cut => ~hist.cut /\ target.whole)
  BY <1>s, RejectedNow
<1>p. target # Absent /\ descriptor # 0 /\ process = 0 /\ Holds(backups)
  <2>1. target.gen = op.gen /\ op.gen \in Gens
    BY <1>s, OpGen DEF PlaceInv
  <2> QED BY <1>s, <2>1, TargetType, DirType DEF RunInv, HeldInv
<1>1. InstallShape'
  BY <1>s, <1>o, <1>h DEF InstallShape
<1>2. PlaceInv'
  BY <1>o, <1>h, <1>p DEF PlaceInv, Recoverable
<1>3. RunInv'
  BY <1>o, <1>p DEF RunInv
<1>4. DownInv'
  BY DEF DownInv
<1>5. WholeInv'
  BY <1>s, <1>h DEF WholeInv
<1>6. ApprovedInv'
  BY <1>s, <1>o, <1>h DEF ApprovedInv
<1>7. InstalledInv'
  BY <1>s, <1>o, <1>h DEF InstalledInv
<1>8. CommandInv'
  BY <1>s, <1>o DEF CommandInv
<1>9. HeldInv'
  BY <1>o, <1>p DEF HeldInv, Holds
<1> QED BY <1>1, <1>2, <1>3, <1>4, <1>5, <1>6, <1>7, <1>8, <1>9 DEF InstallStrong

LEMMA RemoveRejectedInstalls ==
  ASSUME InstallStrong, RemoveRejected
  PROVE  InstallStrong'
BY RolledBackInstalls, LeftRejectedInstalls DEF RemoveRejected, At, inMemory

\* The old generation is in place again, or stays in its backup.
LEMMA RestoreOldInstalls ==
  ASSUME InstallStrong, RestoreOld
  PROVE  InstallStrong'
<1>s. InstallShape /\ PlaceInv /\ HeldInv /\ RunInv /\ DownInv /\ WholeInv /\ ApprovedInv /\ InstalledInv /\ CommandInv
  BY DEF InstallStrong
<1>e. PICK b \in Kept :
        /\ lavisUp /\ op.at = "back" /\ UpdateFailed
        /\ \/ target' = b /\ backups' = backups \ {b} /\ hist' = [hist EXCEPT !.seen = b.gen]
           \/ hist' = [hist EXCEPT !.broken = TRUE] /\ UNCHANGED <<target, backups>>
        /\ UNCHANGED <<now, approvals, descriptor, process, linked, declared, enabled, receipt, lavisUp>>
  BY DEF RestoreOld, At, inMemory
<1>o. op' \in Ops /\ stage' = stage /\ ((op'.at = "restart" /\ op'.gen = op.gen) \/ (op'.at = "idle" /\ op' = IdleOp))
  BY <1>s, <1>e, UpdateFails DEF InstallShape
<1>b. b \in backups /\ b \in Trees /\ b # Absent /\ b.gen \in 0 .. MaxGen /\ b.gen \in {descriptor, hist.left}
  <2>1. b \in backups /\ b.gen = op.kept /\ op.kept # 0 /\ op.kept \in {0, descriptor, hist.left}
    BY <1>s, <1>e DEF Kept, PlaceInv
  <2> QED BY <1>s, <2>1, TreeType DEF InstallShape
<1>p. descriptor # 0 /\ process = 0 /\ Holds(backups) /\ target = Absent
  BY <1>s, <1>e DEF PlaceInv, RunInv, HeldInv
<1>h. /\ hist' \in Hists /\ hist'.gen = hist.gen /\ hist'.installs = hist.installs /\ hist'.cut = hist.cut
      /\ hist'.left = hist.left
      /\ (target' = b /\ backups' = backups \ {b}) \/ (hist'.broken /\ target' = Absent /\ backups' = backups)
  BY <1>s, <1>e, <1>b, <1>p DEF InstallShape, Hists
<1>1. InstallShape'
  BY <1>s, <1>e, <1>o, <1>h, <1>b DEF InstallShape
<1>2. PlaceInv'
  <2>1. Recoverable'
    BY <1>s, <1>h, <1>b DEF Recoverable, PlaceInv
  <2>2. target'.gen \in {0, descriptor', hist'.left}
    BY <1>e, <1>h, <1>b, <1>p, AbsentType
  <2>3. op'.at \in {"restart", "idle"}
    BY <1>o
  <2> QED BY <2>1, <2>2, <2>3 DEF PlaceInv
<1>3. RunInv'
  BY <1>e, <1>o, <1>p DEF RunInv
<1>4. DownInv'
  BY <1>e DEF DownInv
<1>5. WholeInv'
  BY <1>s, <1>h, <1>b, AbsentType DEF WholeInv
<1>6. ApprovedInv'
  BY <1>s, <1>e, <1>o, <1>h DEF ApprovedInv
<1>7. InstalledInv'
  BY <1>s, <1>e, <1>o, <1>h DEF InstalledInv
<1>8. CommandInv'
  BY <1>s, <1>e, <1>o DEF CommandInv
<1>9. HeldInv'
  BY <1>e, <1>o, <1>h, <1>b, <1>p DEF HeldInv, Holds
<1> QED BY <1>1, <1>2, <1>3, <1>4, <1>5, <1>6, <1>7, <1>8, <1>9 DEF InstallStrong

LEMMA PruneInstalls ==
  ASSUME InstallStrong, PruneModuleBackups
  PROVE  InstallStrong'
<1>s. InstallShape /\ PlaceInv /\ HeldInv /\ RunInv /\ DownInv /\ WholeInv /\ ApprovedInv /\ InstalledInv /\ CommandInv
  BY DEF InstallStrong
<1>e. PICK rest \in Remains(backups \ Kept) :
        /\ lavisUp /\ op.at = "prune" /\ op' = [op EXCEPT !.at = "register"]
        /\ backups' = Kept \cup rest /\ hist' = [hist EXCEPT !.cut = @ \/ CutIn(rest)]
        /\ UNCHANGED <<now, approvals, descriptor, process, stage, target, linked, declared, enabled, receipt, lavisUp>>
  BY DEF PruneModuleBackups, At, Goto, inMemory
<1>o. op' \in Ops /\ op'.at = "register" /\ op'.gen = op.gen
  BY <1>s, <1>e, GotoNext DEF InstallShape, InstallSteps
<1>r. rest \subseteq Trees /\ (\A d \in rest : d \in backups \/ CutIn(rest)) /\ Kept \subseteq backups /\ CutIn(rest) \in BOOLEAN
  <2>1. Kept \subseteq backups /\ backups \ Kept \in SUBSET backups
    BY DEF Kept
  <2>2. CutIn(rest) \in BOOLEAN
    BY DEF CutIn
  <2> QED BY <1>s, <2>1, <2>2, RemainsKeeps
<1>h. /\ hist' \in Hists /\ hist'.gen = hist.gen /\ hist'.installs = hist.installs
      /\ (~hist'.cut => ~hist.cut /\ ~CutIn(rest))
  BY <1>s, <1>e, <1>r DEF InstallShape, Hists
<1>1. InstallShape'
  BY <1>s, <1>e, <1>o, <1>r, <1>h DEF InstallShape
<1>2. PlaceInv'
  BY <1>s, <1>e, <1>o DEF PlaceInv
<1>3. RunInv'
  BY <1>s, <1>e, <1>o DEF RunInv
<1>4. DownInv'
  BY <1>e DEF DownInv
<1>5. WholeInv'
  BY <1>s, <1>e, <1>o, <1>r, <1>h DEF WholeInv
<1>6. ApprovedInv'
  BY <1>s, <1>e, <1>o, <1>h DEF ApprovedInv
<1>7. InstalledInv'
  BY <1>s, <1>e, <1>o, <1>h DEF InstalledInv
<1>8. CommandInv'
  BY <1>s, <1>e, <1>o DEF CommandInv
<1>9. HeldInv'
  BY <1>o DEF HeldInv
<1> QED BY <1>1, <1>2, <1>3, <1>4, <1>5, <1>6, <1>7, <1>8, <1>9 DEF InstallStrong

LEMMA RegisterUpdatedInstalls ==
  ASSUME InstallStrong, RegisterUpdated
  PROVE  InstallStrong'
<1>s. InstallShape /\ PlaceInv /\ HeldInv /\ RunInv /\ DownInv /\ WholeInv /\ ApprovedInv /\ InstalledInv /\ CommandInv
  BY DEF InstallStrong
<1>e. /\ lavisUp /\ op.at = "register" /\ descriptor' = op.gen /\ op' = [op EXCEPT !.at = IF op.was THEN "start" ELSE "record"]
      /\ UNCHANGED <<now, approvals, process, stage, target, backups, linked, declared, enabled, receipt, lavisUp, hist>>
  BY DEF RegisterUpdated, At, Goto, disk, ReplaceDescriptor
<1>o. op' \in Ops /\ op'.at \in {"start", "record"} /\ op'.gen = op.gen
  BY <1>s, <1>e, GotoNext DEF InstallShape, InstallSteps
<1>g. op.gen \in Gens /\ op.gen \in 0 .. MaxGen /\ target.gen = op.gen /\ target.whole
  BY <1>s, <1>e, OpGen, DirType DEF PlaceInv
<1>1. InstallShape'
  BY <1>s, <1>e, <1>o, <1>g DEF InstallShape
<1>2. PlaceInv'
  BY <1>s, <1>e, <1>o DEF PlaceInv
<1>3. RunInv'
  BY <1>s, <1>e, <1>o DEF RunInv
<1>4. DownInv'
  BY <1>s, <1>e, <1>o DEF DownInv
<1>5. WholeInv'
  BY <1>s, <1>e, <1>o DEF WholeInv
<1>6. ApprovedInv'
  BY <1>s, <1>e, <1>o DEF ApprovedInv
<1>7. InstalledInv'
  BY <1>s, <1>e, <1>o DEF InstalledInv
<1>8. CommandInv'
  BY <1>s, <1>e, <1>o DEF CommandInv
<1>9. HeldInv'
  BY <1>e, <1>o, <1>g DEF HeldInv, Holds
<1> QED BY <1>1, <1>2, <1>3, <1>4, <1>5, <1>6, <1>7, <1>8, <1>9 DEF InstallStrong

LEMMA StartUpdatedInstalls ==
  ASSUME InstallStrong, StartUpdated
  PROVE  InstallStrong'
<1>s. InstallShape /\ PlaceInv /\ HeldInv /\ RunInv /\ DownInv /\ WholeInv /\ ApprovedInv /\ InstalledInv /\ CommandInv
  BY DEF InstallStrong
<1>e. /\ lavisUp /\ process' \in {0, target.gen}
      /\ \/ op.at = "start" /\ op' = [op EXCEPT !.at = "record"]
         \/ op.at = "restart" /\ op' = IdleOp
      /\ UNCHANGED <<now, approvals, descriptor, stage, target, backups, linked, declared, enabled, receipt, lavisUp, hist>>
  BY DEF StartUpdated, At, Goto, disk, Started
<1>o. op' \in Ops /\ ((op.at = "start" /\ op'.at = "record" /\ op'.gen = op.gen) \/ (op.at = "restart" /\ op'.at = "idle" /\ op' = IdleOp))
  BY <1>s, <1>e, GotoNext, IdleOpType DEF InstallShape, InstallSteps
<1>t. target.gen \in 0 .. MaxGen
  BY <1>s, TargetType
<1>1. InstallShape'
  BY <1>s, <1>e, <1>o, <1>t, InstallAssumption DEF InstallShape
<1>2. PlaceInv'
  BY <1>s, <1>e, <1>o DEF PlaceInv, Recoverable
<1>3. RunInv'
  BY <1>s, <1>e, <1>o DEF RunInv
<1>4. DownInv'
  BY <1>s, <1>e, <1>o DEF DownInv
<1>5. WholeInv'
  BY <1>s, <1>e, <1>o DEF WholeInv
<1>6. ApprovedInv'
  BY <1>s, <1>e, <1>o DEF ApprovedInv
<1>7. InstalledInv'
  BY <1>s, <1>e, <1>o DEF InstalledInv
<1>8. CommandInv'
  BY <1>s, <1>e, <1>o DEF CommandInv
<1>9. HeldInv'
  BY <1>s, <1>e, <1>o DEF HeldInv, Holds
<1> QED BY <1>1, <1>2, <1>3, <1>4, <1>5, <1>6, <1>7, <1>8, <1>9 DEF InstallStrong

LEMMA RecordUpdateInstalls ==
  ASSUME InstallStrong, RecordUpdate
  PROVE  InstallStrong'
<1>s. InstallShape /\ PlaceInv /\ HeldInv /\ RunInv /\ DownInv /\ WholeInv /\ ApprovedInv /\ InstalledInv /\ CommandInv
  BY DEF InstallStrong
<1>e. /\ lavisUp /\ op.at = "record" /\ op' = IdleOp /\ receipt' \in {receipt, op.gen}
      /\ UNCHANGED <<now, approvals, descriptor, process, stage, target, backups, linked, declared, enabled, lavisUp, hist>>
  BY DEF RecordUpdate, At, WriteReceipt, inMemory
<1>o. op' \in Ops /\ op'.at = "idle" /\ op' = IdleOp
  BY <1>e, IdleOpType
<1>g. op.gen \in Gens /\ op.gen # 0 /\ op.gen \in 0 .. MaxGen /\ target.gen = op.gen /\ descriptor = op.gen /\ target # Absent
  BY <1>s, <1>e, OpGen, DirType, TargetType DEF PlaceInv, RunInv
<1>1. InstallShape'
  BY <1>s, <1>e, <1>o, <1>g DEF InstallShape
<1>2. PlaceInv'
  BY <1>e, <1>o, <1>g DEF PlaceInv, Recoverable
<1>3. RunInv'
  BY <1>s, <1>e, <1>o, <1>g DEF RunInv
<1>4. DownInv'
  BY <1>s, <1>e, <1>o DEF DownInv
<1>5. WholeInv'
  BY <1>s, <1>e, <1>o DEF WholeInv
<1>6. ApprovedInv'
  BY <1>s, <1>e, <1>o DEF ApprovedInv
<1>7. InstalledInv'
  BY <1>s, <1>e, <1>o DEF InstalledInv
<1>8. CommandInv'
  BY <1>s, <1>e, <1>o DEF CommandInv
<1>9. HeldInv'
  BY <1>s, <1>e, <1>o DEF HeldInv, Holds
<1> QED BY <1>1, <1>2, <1>3, <1>4, <1>5, <1>6, <1>7, <1>8, <1>9 DEF InstallStrong

LEMMA CancelInstalls ==
  ASSUME InstallStrong, NEW a \in approvals, CancelModuleInstall(a)
  PROVE  InstallStrong'
<1>s. InstallShape /\ PlaceInv /\ HeldInv /\ RunInv /\ DownInv /\ WholeInv /\ ApprovedInv /\ InstalledInv /\ CommandInv
  BY DEF InstallStrong
<1>e. /\ lavisUp /\ approvals' = Live \ {a} /\ stage' \in Without(Generations(approvals \ Live) \cup {a.gen})
      /\ UNCHANGED <<now, target, backups, linked, descriptor, process, declared, enabled, receipt, op, lavisUp, hist>>
  BY DEF CancelModuleInstall, At
<1>1. InstallShape'
  BY <1>s, <1>e, WithoutKeeps DEF InstallShape, Live
<1>2. PlaceInv'
  BY <1>s, <1>e DEF PlaceInv, Recoverable, Kept
<1>3. RunInv'
  BY <1>s, <1>e DEF RunInv
<1>4. DownInv'
  BY <1>s, <1>e DEF DownInv
<1>5. WholeInv'
  BY <1>s, <1>e DEF WholeInv
<1>6. ApprovedInv'
  BY <1>s, <1>e, WithoutKeeps DEF ApprovedInv, Live, Generations
<1>7. InstalledInv'
  BY <1>s, <1>e DEF InstalledInv
<1>8. CommandInv'
  BY <1>s, <1>e DEF CommandInv
<1>9. HeldInv'
  BY <1>s, <1>e DEF HeldInv, Holds
<1> QED BY <1>1, <1>2, <1>3, <1>4, <1>5, <1>6, <1>7, <1>8, <1>9 DEF InstallStrong

LEMMA ConfirmInstalls ==
  ASSUME InstallStrong, NEW a \in approvals, ConfirmModuleInstall(a)
  PROVE  InstallStrong'
<1>s. InstallShape /\ PlaceInv /\ HeldInv /\ RunInv /\ DownInv /\ WholeInv /\ ApprovedInv /\ InstalledInv /\ CommandInv
  BY DEF InstallStrong
<1>e. /\ lavisUp /\ op.at = "idle" /\ approvals' = Live \ {a} /\ stage' \in Without(Generations(approvals \ Live) \cup {a.gen}) \cup Without(Generations(approvals \ Live) \ {a.gen})
      /\ \/ declared /\ UNCHANGED op
         \/ ~declared /\ op' = [at |-> IF descriptor = 0 THEN "install" ELSE "stop", gen |-> a.gen, was |-> enabled, kept |-> 0]
      /\ UNCHANGED <<now, target, backups, linked, descriptor, process, declared, enabled, receipt, lavisUp, hist>>
  BY DEF ConfirmModuleInstall, At
<1>j. a.gen \in 0 .. MaxGen /\ a.gen \in 1 .. hist.gen
  BY <1>s, InstallAssumption DEF InstallShape, ApprovedInv, Gens, Hists
<1>o. op' \in Ops /\ (op' = op \/ (~declared /\ op'.at = (IF descriptor = 0 THEN "install" ELSE "stop") /\ op'.gen = a.gen /\ op'.kept = 0))
  <2> DEFINE new == [at |-> IF descriptor = 0 THEN "install" ELSE "stop", gen |-> a.gen, was |-> enabled, kept |-> 0]
  <2>1. new \in Ops /\ new.at = (IF descriptor = 0 THEN "install" ELSE "stop") /\ new.gen = a.gen /\ new.kept = 0
    BY <1>s, <1>j, InstallAssumption DEF InstallShape, Ops, InstallSteps
  <2>2. op' = op \/ (~declared /\ op' = new)
    BY <1>e
  <2> HIDE DEF new
  <2> QED BY <1>s, <2>1, <2>2 DEF InstallShape
<1>i. op.at = "idle" /\ (process # 0 => descriptor # 0)
  BY <1>s, <1>e DEF RunInv
<1>t. /\ DOMAIN stage' \subseteq Gens /\ approvals' \subseteq approvals /\ a \notin approvals'
      /\ \A b \in approvals' : b.gen # a.gen /\ b.gen \in DOMAIN stage' /\ stage'[b.gen] = "payload"
  <2>1. approvals' \subseteq approvals /\ a \notin approvals' /\ \A b \in approvals' : b \in Live
    BY <1>e DEF Live
  <2>2. \A b \in approvals' : b.gen # a.gen /\ b.gen \notin Generations(approvals \ Live)
    BY <1>s, <2>1 DEF ApprovedInv, Generations
  <2>3. PICK gs : stage' \in Without(gs) /\ gs \subseteq Generations(approvals \ Live) \cup {a.gen}
    BY <1>e
  <2>4. /\ DOMAIN stage' \subseteq DOMAIN stage /\ \A g \in DOMAIN stage : g \notin gs => g \in DOMAIN stage'
        /\ \A g \in DOMAIN stage' : stage'[g] = stage[g]
    BY <2>3, WithoutKeeps
  <2> QED BY <1>s, <2>1, <2>2, <2>3, <2>4 DEF ApprovedInv, InstallShape
<1>1. InstallShape'
  BY <1>s, <1>e, <1>o, <1>t DEF InstallShape
<1>2. PlaceInv'
  BY <1>s, <1>e, <1>o DEF PlaceInv, Recoverable
<1>3. RunInv'
  BY <1>s, <1>e, <1>o, <1>i DEF RunInv
<1>4. DownInv'
  BY <1>s, <1>e DEF DownInv
<1>5. WholeInv'
  BY <1>s, <1>e DEF WholeInv
<1>6. ApprovedInv'
  BY <1>s, <1>e, <1>o, <1>t DEF ApprovedInv
<1>7. InstalledInv'
  BY <1>s, <1>e, <1>o, <1>i, <1>j DEF InstalledInv, ApprovedInv
<1>8. CommandInv'
  BY <1>s, <1>e, <1>o DEF CommandInv
<1>9. HeldInv'
  BY <1>s, <1>e, <1>o DEF HeldInv, Holds
<1> QED BY <1>1, <1>2, <1>3, <1>4, <1>5, <1>6, <1>7, <1>8, <1>9 DEF InstallStrong

LEMMA SetEnabledInstalls ==
  ASSUME InstallStrong, NEW v \in BOOLEAN, SetEnabled(v)
  PROVE  InstallStrong'
<1>s. InstallShape /\ PlaceInv /\ HeldInv /\ RunInv /\ DownInv /\ WholeInv /\ ApprovedInv /\ InstalledInv /\ CommandInv
  BY DEF InstallStrong
<1>e. /\ enabled' \in BOOLEAN
      /\ UNCHANGED <<now, approvals, descriptor, process, stage, target, backups, linked, declared, receipt, op, lavisUp, hist>>
  BY DEF SetEnabled, CommitEnabled, inMemory
<1>1. InstallShape'
  BY <1>s, <1>e DEF InstallShape
<1>2. PlaceInv'
  BY <1>s, <1>e DEF PlaceInv, Recoverable, Kept
<1>3. RunInv'
  BY <1>s, <1>e DEF RunInv
<1>4. DownInv'
  BY <1>s, <1>e DEF DownInv
<1>5. WholeInv'
  BY <1>s, <1>e DEF WholeInv
<1>6. ApprovedInv'
  BY <1>s, <1>e DEF ApprovedInv
<1>7. InstalledInv'
  BY <1>s, <1>e DEF InstalledInv
<1>8. CommandInv'
  BY <1>s, <1>e DEF CommandInv
<1>9. HeldInv'
  BY <1>s, <1>e DEF HeldInv, Holds
<1> QED BY <1>1, <1>2, <1>3, <1>4, <1>5, <1>6, <1>7, <1>8, <1>9 DEF InstallStrong

LEMMA LeavesLinkInstalls ==
  ASSUME InstallStrong, ModuleLeavesLink
  PROVE  InstallStrong'
<1>s. InstallShape /\ PlaceInv /\ HeldInv /\ RunInv /\ DownInv /\ WholeInv /\ ApprovedInv /\ InstalledInv /\ CommandInv
  BY DEF InstallStrong
<1>e. /\ process # 0 /\ process = target.gen /\ target' \in {target, [target EXCEPT !.mtime = Moment]}
      /\ UNCHANGED <<now, approvals, descriptor, process, stage, backups, declared, enabled, receipt, op, lavisUp, hist>>
  BY DEF ModuleLeavesLink, inMemory
<1>t. /\ target \in Trees /\ target' \in Trees /\ target # Absent /\ target' # Absent
      /\ target'.gen = target.gen /\ target'.whole = target.whole
  <2>1. target \in Trees /\ target # Absent
    BY <1>s, <1>e, TargetType
  <2>2. Moment \in Int
    BY <1>s, InstallAssumption DEF InstallShape, Hists, Moment
  <2>3. target' \in Trees /\ target'.gen = target.gen /\ target'.whole = target.whole
    BY <1>e, <2>1, <2>2 DEF Trees
  <2> QED BY <2>1, <2>3, TreeType
<1>1. InstallShape'
  BY <1>s, <1>e, <1>t DEF InstallShape
<1>2. PlaceInv'
  BY <1>s, <1>e, <1>t DEF PlaceInv, Recoverable, Kept
<1>3. RunInv'
  BY <1>s, <1>e, <1>t DEF RunInv
<1>4. DownInv'
  BY <1>s, <1>e, <1>t DEF DownInv
<1>5. WholeInv'
  BY <1>s, <1>e, <1>t DEF WholeInv
<1>6. ApprovedInv'
  BY <1>s, <1>e DEF ApprovedInv
<1>7. InstalledInv'
  BY <1>s, <1>e DEF InstalledInv
<1>8. CommandInv'
  BY <1>s, <1>e DEF CommandInv
<1>9. HeldInv'
  BY <1>s, <1>e, <1>t DEF HeldInv, Holds
<1> QED BY <1>1, <1>2, <1>3, <1>4, <1>5, <1>6, <1>7, <1>8, <1>9 DEF InstallStrong

LEMMA EndInstalls ==
  ASSUME InstallStrong, Shutdown \/ Crash
  PROVE  InstallStrong'
<1>s. InstallShape /\ PlaceInv /\ HeldInv /\ RunInv /\ DownInv /\ WholeInv /\ ApprovedInv /\ InstalledInv /\ CommandInv
  BY DEF InstallStrong
<1>e. /\ lavisUp /\ lavisUp' = FALSE /\ op' = IdleOp /\ approvals' = {} /\ descriptor' = 0 /\ process' = 0
      /\ stage' = stage \/ stage' \in Without(Generations(approvals))
      /\ (op.at = "idle" /\ hist' = hist) \/ hist' = [hist EXCEPT !.cut = @ \/ ~target.whole]
      /\ UNCHANGED <<now, target, backups, linked, declared, enabled, receipt>>
  BY <1>s DEF Shutdown, Crash, At, disk, CommandInv
<1>h. /\ hist' \in Hists /\ hist'.gen = hist.gen /\ hist'.installs = hist.installs /\ hist'.seen = hist.seen
      /\ ~hist'.cut => ~hist.cut /\ (op.at = "idle" \/ target.whole)
  <2>1. target.whole \in BOOLEAN
    BY <1>s, TargetType
  <2>2. (hist.cut \/ ~target.whole) \in BOOLEAN
    BY <2>1
  <2> QED BY <1>s, <1>e, <2>1, <2>2 DEF InstallShape, Hists
<1>f. hist.seen # 0 => target # Absent \/ backups # {}
  <2>1. op.at \in {"validate", "discard", "receipt", "check", "remove", "prune", "register", "start", "record"} => target # Absent
    BY <1>s, <1>e, OpGen, DirType, TargetType DEF PlaceInv
  <2>2. op.at \in {"rename", "back"} => backups # {}
    BY <1>s, <1>e DEF PlaceInv, Kept
  <2>3. op.at \in {"idle", "install", "stop", "backup", "restart"} /\ hist.seen # 0 => target # Absent \/ backups # {}
    BY <1>s, <1>e DEF PlaceInv, Recoverable
  <2> QED BY <1>s, <2>1, <2>2, <2>3 DEF InstallShape, Ops, InstallSteps
<1>1. InstallShape'
  <2>1. DOMAIN stage' \subseteq DOMAIN stage
    BY <1>e, WithoutKeeps
  <2>2. lavisUp' \in BOOLEAN
    BY <1>e, Zenon
  <2>4. 0 \in 0 .. MaxGen
    BY InstallAssumption
  <2>3. op' \in Ops /\ approvals' \subseteq [gen : Gens, exp : Int]
    BY <1>e, IdleOpType
  <2> QED BY <1>s, <1>e, <1>h, <2>1, <2>2, <2>3, <2>4 DEF InstallShape
<1>2. PlaceInv'
  BY <1>e DEF PlaceInv
<1>3. RunInv'
  BY <1>e DEF RunInv
<1>4. DownInv'
  BY <1>e, <1>f, <1>h DEF DownInv
<1>5. WholeInv'
  BY <1>s, <1>e, <1>h, IdleOpType DEF WholeInv
<1>6. ApprovedInv'
  BY <1>e DEF ApprovedInv
<1>7. InstalledInv'
  BY <1>s, <1>e, <1>h, IdleOpType DEF InstalledInv
<1>8. CommandInv'
  BY <1>e, IdleOpType DEF CommandInv
<1>9. HeldInv'
  BY <1>e DEF HeldInv
<1> QED BY <1>1, <1>2, <1>3, <1>4, <1>5, <1>6, <1>7, <1>8, <1>9 DEF InstallStrong

\* The boot finds the module wherever the last run left it.
LEMMA ReconcileKeeps ==
  ASSUME InstallShape, WholeInv, DownInv, ~lavisUp, ReconcileModuleBackups
  PROVE  /\ target' \in Trees \cup {Absent} /\ backups' \subseteq Trees
         /\ hist' \in Hists /\ hist'.gen = hist.gen /\ hist'.installs = hist.installs /\ hist'.seen = hist.seen
         /\ hist'.seen # 0 => target' # Absent \/ (hist'.broken /\ backups' # {})
         /\ ~hist'.cut => target'.whole /\ \A b \in backups' : b.whole
<1> DEFINE Goal == /\ target' \in Trees \cup {Absent} /\ backups' \subseteq Trees
                   /\ hist' \in Hists /\ hist'.gen = hist.gen /\ hist'.installs = hist.installs /\ hist'.seen = hist.seen
                   /\ hist'.seen # 0 => target' # Absent \/ (hist'.broken /\ backups' # {})
                   /\ ~hist'.cut => target'.whole /\ \A b \in backups' : b.whole
<1>0. /\ target \in Trees \cup {Absent} /\ backups \subseteq Trees /\ hist \in Hists
      /\ hist.seen # 0 => target # Absent \/ backups # {}
      /\ ~hist.cut => target.whole /\ \A b \in backups : b.whole
  BY IdleOpType DEF InstallShape, DownInv, WholeInv
<1>c. \A rest : CutIn(rest) \in BOOLEAN
  BY DEF CutIn
<1>1. CASE backups = {} /\ UNCHANGED <<target, backups, hist>>
  BY <1>0, <1>1
<1>2. CASE /\ backups # {} /\ target # Absent /\ UNCHANGED target
           /\ backups' \in Remains(backups) /\ hist' = [hist EXCEPT !.cut = @ \/ CutIn(backups')]
  <2>1. backups' \subseteq Trees /\ \A d \in backups' : d \in backups \/ CutIn(backups')
    BY <1>2, RemainsKeeps
  <2>2. CutIn(backups') \in BOOLEAN
    BY <1>c
  <2>3. /\ hist' \in Hists /\ hist'.gen = hist.gen /\ hist'.installs = hist.installs /\ hist'.seen = hist.seen
        /\ ~hist'.cut => ~hist.cut /\ ~CutIn(backups')
    BY <1>0, <1>2, <2>2 DEF Hists
  <2> QED BY <1>0, <1>2, <2>1, <2>3
<1>3. ASSUME backups # {}, target = Absent, NEW b \in Newest, target' = b, backups' \in Remains(backups \ {b}),
             hist' = [hist EXCEPT !.broken = FALSE, !.cut = @ \/ CutIn(backups')]
      PROVE  Goal
  <2>1. b \in backups /\ b \in Trees /\ b # Absent /\ backups \ {b} \in SUBSET backups
    BY <1>0, TreeType DEF Newest
  <2>2. backups' \subseteq Trees /\ \A d \in backups' : d \in backups \/ CutIn(backups')
    BY <1>3, <2>1, RemainsKeeps
  <2>3. CutIn(backups') \in BOOLEAN
    BY <1>c
  <2>4. /\ hist' \in Hists /\ hist'.gen = hist.gen /\ hist'.installs = hist.installs /\ hist'.seen = hist.seen
        /\ ~hist'.cut => ~hist.cut /\ ~CutIn(backups')
    BY <1>0, <1>3, <2>3 DEF Hists
  <2> QED BY <1>0, <1>3, <2>1, <2>2, <2>4
<1>4. CASE backups # {} /\ target = Absent /\ UNCHANGED <<target, backups>> /\ hist' = [hist EXCEPT !.broken = TRUE]
  <2>1. /\ hist' \in Hists /\ hist'.gen = hist.gen /\ hist'.installs = hist.installs /\ hist'.seen = hist.seen
        /\ hist'.broken /\ hist'.cut = hist.cut
    BY <1>0, <1>4 DEF Hists
  <2> QED BY <1>0, <1>4, <2>1
<1> QED BY <1>1, <1>2, <1>3, <1>4 DEF ReconcileModuleBackups

LEMMA BootInstalls ==
  ASSUME InstallStrong, Boot
  PROVE  InstallStrong'
<1>s. InstallShape /\ PlaceInv /\ HeldInv /\ RunInv /\ DownInv /\ WholeInv /\ ApprovedInv /\ InstalledInv /\ CommandInv
  BY DEF InstallStrong
<1>e. /\ ~lavisUp /\ lavisUp' /\ op = IdleOp /\ op.at = "idle" /\ approvals = {} /\ stage' \in Without(DOMAIN stage)
      /\ ReconcileModuleBackups /\ descriptor' = (IF target'.whole THEN target'.gen ELSE 0) /\ process' \in {0, descriptor'}
      /\ UNCHANGED <<now, approvals, linked, declared, enabled, receipt, op>>
  BY <1>s, IdleOpType DEF Boot, Started, CleanupAbandonedWrappers, DownInv
<1>r. /\ target' \in Trees \cup {Absent} /\ backups' \subseteq Trees
      /\ hist' \in Hists /\ hist'.gen = hist.gen /\ hist'.installs = hist.installs /\ hist'.seen = hist.seen
      /\ hist'.seen # 0 => target' # Absent \/ (hist'.broken /\ backups' # {})
      /\ ~hist'.cut => target'.whole /\ \A b \in backups' : b.whole
  BY <1>s, <1>e, ReconcileKeeps
<1>t. target'.gen \in 0 .. MaxGen /\ (target'.gen # 0 => target' # Absent)
  BY <1>r, TreeType, AbsentType, InstallAssumption
<1>1. InstallShape'
  BY <1>s, <1>e, <1>r, <1>t, WithoutKeeps, InstallAssumption DEF InstallShape
<1>2. PlaceInv'
  BY <1>e, <1>r, <1>t DEF PlaceInv, Recoverable
<1>3. RunInv'
  BY <1>e DEF RunInv
<1>4. DownInv'
  BY <1>e DEF DownInv
<1>5. WholeInv'
  BY <1>e, <1>r DEF WholeInv
<1>6. ApprovedInv'
  BY <1>e DEF ApprovedInv
<1>7. InstalledInv'
  BY <1>s, <1>e, <1>r DEF InstalledInv
<1>8. CommandInv'
  BY <1>s, <1>e DEF CommandInv
<1>9. HeldInv'
  BY <1>e DEF HeldInv, Holds
<1> QED BY <1>1, <1>2, <1>3, <1>4, <1>5, <1>6, <1>7, <1>8, <1>9 DEF InstallStrong

LEMMA InspectInstalls ==
  ASSUME InstallStrong, InspectModuleInstall
  PROVE  InstallStrong'
<1>s. InstallShape /\ PlaceInv /\ HeldInv /\ RunInv /\ DownInv /\ WholeInv /\ ApprovedInv /\ InstalledInv /\ CommandInv
  BY DEF InstallStrong
<1>e. /\ lavisUp /\ op.at = "idle" /\ hist.gen < MaxGen /\ hist' = [hist EXCEPT !.gen = @ + 1]
      /\ \E s \in Without(Generations(approvals \ Live)) : Issue(hist'.gen, s)
      /\ UNCHANGED <<now, target, backups, linked, descriptor, process, declared, enabled, receipt, op, lavisUp>>
  BY DEF InspectModuleInstall, At
<1>h. /\ hist' \in Hists /\ hist'.gen = hist.gen + 1 /\ hist'.gen \in Gens
      /\ hist'.seen = hist.seen /\ hist'.installs = hist.installs /\ hist'.broken = hist.broken
      /\ hist'.cut = hist.cut /\ hist'.left = hist.left
  <2>1. hist.gen \in Nat /\ hist.gen + 1 \in 0 .. MaxGen /\ hist.gen + 1 \in Gens
    BY <1>s, <1>e, InstallAssumption DEF InstallShape, Hists, Gens
  <2> QED BY <1>s, <1>e, <2>1 DEF InstallShape, Hists
<1>j. hist.gen \in Nat /\ \A g \in Gens : (g <= hist.gen => g <= hist'.gen /\ g # hist'.gen) /\ (g > hist'.gen => g > hist.gen)
  BY <1>s, <1>h DEF InstallShape, Hists, Gens
<1>t. /\ DOMAIN stage' \subseteq Gens /\ approvals' \subseteq [gen : Gens, exp : Int]
      /\ \A b \in approvals' : b \in approvals \/ (b.gen = hist'.gen /\ hist.installs[b.gen] = 0)
      /\ \A b \in approvals' : b.gen \in DOMAIN stage' /\ stage'[b.gen] = "payload"
      /\ \A b, c \in approvals' : b.gen = hist'.gen /\ c.gen = hist'.gen => b = c
  <2>1. PICK s \in Without(Generations(approvals \ Live)) : Issue(hist'.gen, s)
    BY <1>e
  <2>2. /\ DOMAIN s \subseteq Gens
        /\ \A b \in Live : b \in approvals /\ b.gen # hist'.gen /\ b.gen \in DOMAIN s /\ s[b.gen] = "payload"
    <3>1. \A b \in Live : b \in approvals /\ b.gen \in DOMAIN stage /\ stage[b.gen] = "payload" /\ b.gen # hist'.gen
      BY <1>s, <1>j DEF ApprovedInv, Live, InstallShape
    <3>2. \A b \in Live : b.gen \notin Generations(approvals \ Live)
      BY <1>s DEF ApprovedInv, Live, Generations
    <3>3. /\ DOMAIN s \subseteq DOMAIN stage /\ \A g \in DOMAIN s : s[g] = stage[g]
          /\ \A g \in DOMAIN stage : g \notin Generations(approvals \ Live) => g \in DOMAIN s
      BY WithoutKeeps
    <3> QED BY <1>s, <3>1, <3>2, <3>3 DEF InstallShape
  <2>3. \/ approvals' = Live /\ stage' \in {s, WithPayload(s, hist'.gen)}
        \/ approvals' = Live \cup {[gen |-> hist'.gen, exp |-> now + Ttl]} /\ stage' = WithPayload(s, hist'.gen)
    BY <2>1 DEF Issue
  <2>4. now + Ttl \in Int /\ hist.installs[hist'.gen] = 0
    BY <1>s, <1>h, <1>j, InstallAssumption DEF InstallShape, InstalledInv
  <2>5. DOMAIN stage' \subseteq Gens
    BY <1>h, <2>2, <2>3 DEF WithPayload
  <2>6. \A b \in approvals' : b \in Live \/ (b = [gen |-> hist'.gen, exp |-> now + Ttl] /\ stage' = WithPayload(s, hist'.gen))
    BY <2>3
  <2>7. \A b \in approvals' : b.gen \in DOMAIN stage' /\ stage'[b.gen] = "payload"
    BY <2>2, <2>3, <2>6 DEF WithPayload
  <2>8. approvals' \subseteq [gen : Gens, exp : Int]
    BY <1>s, <1>h, <2>2, <2>4, <2>6 DEF InstallShape
  <2> QED BY <2>2, <2>4, <2>5, <2>6, <2>7, <2>8
<1>1. InstallShape'
  BY <1>s, <1>e, <1>h, <1>t DEF InstallShape
<1>2. PlaceInv'
  BY <1>s, <1>e, <1>h DEF PlaceInv, Recoverable, Kept
<1>3. RunInv'
  BY <1>s, <1>e DEF RunInv
<1>4. DownInv'
  BY <1>e DEF DownInv
<1>5. WholeInv'
  BY <1>s, <1>e, <1>h DEF WholeInv
<1>6. ApprovedInv'
  BY <1>s, <1>e, <1>h, <1>t, <1>j DEF ApprovedInv
<1>7. InstalledInv'
  BY <1>s, <1>e, <1>h, <1>j DEF InstalledInv
<1>8. CommandInv'
  BY <1>s, <1>e DEF CommandInv
<1>9. HeldInv'
  BY <1>s, <1>e DEF HeldInv, Holds
<1> QED BY <1>1, <1>2, <1>3, <1>4, <1>5, <1>6, <1>7, <1>8, <1>9 DEF InstallStrong

LEMMA InstallStep ==
  ASSUME InstallStrong, [InstallNext]_installVars
  PROVE  InstallStrong'
<1>1. CASE UNCHANGED installVars
  BY <1>1 DEF installVars, InstallStrong, InstallShape, PlaceInv, HeldInv, Holds, RunInv, DownInv, WholeInv, ApprovedInv,
              InstalledInv, CommandInv, Recoverable, Kept
<1>2. CASE InstallNext
  BY <1>2, TickInstalls, LmQueryInstalls, InspectInstalls, CancelInstalls, ConfirmInstalls, InstallStagedModuleInstalls,
     ValidateInstalledInstalls, RemovePartInstalls, DiscardInstalledInstalls, RegisterInstalledInstalls, StopModuleInstalls,
     BackupOldInstalls, RenameNewInstalls, ValidateUpdatedInstalls, RemoveRejectedInstalls, RestoreOldInstalls,
     PruneInstalls, RegisterUpdatedInstalls, StartUpdatedInstalls, RecordUpdateInstalls, SetEnabledInstalls, LeavesLinkInstalls,
     EndInstalls, BootInstalls DEF InstallNext
<1> QED BY <1>1, <1>2

LEMMA InstallImplied ==
  ASSUME InstallStrong
  PROVE  InstallInv
<1>s. InstallShape /\ PlaceInv /\ HeldInv /\ RunInv /\ WholeInv /\ ApprovedInv
  BY DEF InstallStrong
<1>1. InstallTypeOK
  BY <1>s, TargetType DEF InstallTypeOK, InstallShape, Trees
<1>2. ModuleNeverLost
  BY <1>s DEF ModuleNeverLost, PlaceInv, Recoverable, WholeInv
<1>3. RegisteredOnDisk
  BY <1>s DEF RegisteredOnDisk, HeldInv, Holds
<1>4. ProcessMatchesDisk
  BY <1>s DEF ProcessMatchesDisk, RunInv, PlaceInv
<1>5. ApprovalHasStage
  BY <1>s DEF ApprovalHasStage, ApprovedInv
<1> QED BY <1>1, <1>2, <1>3, <1>4, <1>5 DEF InstallInv

\* However many archives are inspected, whichever renames and removals fail and wherever the
\* process dies: a module once installed is found again when no command is in progress, whole
\* unless a removal was cut; the registered generation is whole on disk until an accepted one
\* replaces it; a running process is of the generation in the directory; and a pending approval
\* has its payload (installer.rs, approval.rs, runtime/install.rs).
THEOREM ModulesAreNeverLost == InstallSpec => []InstallInv
<1>1. InstallInit => InstallStrong
  BY InstallInitially
<1>2. InstallStrong /\ [InstallNext]_installVars => InstallStrong'
  BY InstallStep
<1>3. InstallStrong => InstallInv
  BY InstallImplied
<1> QED BY <1>1, <1>2, <1>3, PTL DEF InstallSpec

\* An archive is made visible at most once, and only by an approval that had not expired
\* (ApprovalStore::redeem).
THEOREM ApprovalsRedeemedInTime == InstallSpec => RedeemedInTime
<1>1. InstallInit => InstallStrong
  BY InstallInitially
<1>2. InstallStrong /\ [InstallNext]_installVars => InstallStrong'
  BY InstallStep
<1>3. ASSUME InstallStrong, InstallStrong'
      PROVE  /\ \A a \in approvals : ConfirmModuleInstall(a) => now < a.exp
             /\ \A g \in Gens : hist'.installs[g] <= 1
  <2>1. ASSUME NEW a \in approvals, ConfirmModuleInstall(a)
        PROVE  now < a.exp
    <3>1. ~(now >= a.exp)
      BY <2>1 DEF ConfirmModuleInstall, Redeemable, Live, IsExpired
    <3>2. now \in Int /\ a.exp \in Int
      BY <1>3, InstallAssumption DEF InstallStrong, InstallShape
    <3> QED BY <3>1, <3>2
  <2>2. \A g \in Gens : hist'.installs[g] <= 1
    BY <1>3 DEF InstallStrong, InstalledInv
  <2> QED BY <2>1, <2>2
<1> QED BY <1>1, <1>2, <1>3, PTL DEF InstallSpec, RedeemedInTime

\* No command changes the directory or the enabled state of a module NixOS manages
\* (is_declaratively_managed, enable_module, disable_module).
THEOREM DeclaredModulesUntouched == InstallSpec => DeclarativeUntouched
<1>1. InstallInit => InstallStrong
  BY InstallInitially
<1>2. InstallStrong /\ [InstallNext]_installVars => InstallStrong'
  BY InstallStep
<1>3. ASSUME InstallStrong, [InstallNext]_installVars, declared, lavisUp, lavisUp'
      PROVE  target'.gen = target.gen /\ target'.whole = target.whole /\ enabled' = enabled
  <2>1. op.at = "idle"
    BY <1>3 DEF InstallStrong, CommandInv
  <2>2. CASE ModuleLeavesLink
    <3>1. target' \in {target, [target EXCEPT !.mtime = Moment]} /\ enabled' = enabled
      BY <2>2 DEF ModuleLeavesLink
    <3>2. target \in Trees \cup {Absent}
      BY <1>3 DEF InstallStrong, InstallShape
    <3> QED BY <3>1, <3>2 DEF Trees, Absent
  <2> QED BY <1>3, <2>1, <2>2 DEF InstallNext, installVars, inMemory, disk, At, Tick, LmQuery, InspectModuleInstall,
        CancelModuleInstall, ConfirmModuleInstall, InstallStagedModule, ValidateInstalled, RemovePart, DiscardInstalled, RegisterInstalled, StopModule,
        BackupOld, RenameNew, ValidateUpdated, RemoveRejected, RestoreOld, PruneModuleBackups, RegisterUpdated, StartUpdated, RecordUpdate,
        SetEnabled, Shutdown, Crash, Boot
<1> QED BY <1>1, <1>2, <1>3, PTL DEF InstallSpec, DeclarativeUntouched

-----------------------------------------------------------------------------
(* The owner's stores.                                                       *)

\* Every page before this one has been seen.
Reached(seen, page) == page \in Range(Pages) => \A i \in 1 .. PageIndex(page) - 1 : Pages[i] \in seen

\* A value of a store that the next start accepts.
Good(seen, store, v) ==
  IF store = "settings" THEN v \in Settings /\ ValidatePrefix(v.prefix) /\ Reached(seen, v.page)
  ELSE DOMAIN v \subseteq Names /\ IsFiniteSet(DOMAIN v) /\ ValidateAliases(v)

Loaded == [settings |-> LoadSettings(file.settings), aliases |-> file.aliases]

StoresShape ==
  /\ up \in BOOLEAN /\ strayed \in BOOLEAN /\ IsFiniteSet(temps) /\ collisions \in Nat
  /\ counter \in [Stores -> Nat]
  /\ DOMAIN memory = Stores /\ memory = [settings |-> memory.settings, aliases |-> memory.aliases]
  /\ file = [settings |-> file.settings, aliases |-> file.aliases]
  /\ Good(delivered, "settings", memory.settings) /\ Good(delivered, "aliases", memory.aliases)
  /\ SettingsLoad(file.settings) /\ Good(delivered, "settings", LoadSettings(file.settings)) /\ Good(delivered, "aliases", file.aliases)

\* Every blocking write has a temporary name of its own and writes what a start accepts.
WritesInv ==
  /\ \A w \in writes :
       /\ w = [store |-> w.store, value |-> w.value, n |-> w.n, at |-> w.at, owned |-> w.owned]
       /\ w.store \in Stores /\ Good(delivered, w.store, w.value) /\ w.n \in 1 .. counter[w.store]
       /\ w.at \in {"create", "written", "done", "failed"} /\ w.owned \in BOOLEAN
  /\ \A v, w \in writes : v.store = w.store /\ v.n = w.n => v = w

\* The write the handler waits for.
Waits(w) == w.owned /\ w.store = handler.store /\ w.value = handler.value /\ \A v \in writes : v.owned => v = w

HandlerInv ==
  /\ \/ handler = Idle
     \/ /\ handler.step = "awaiting" /\ handler = Awaiting(handler.store, handler.value, handler.then)
        /\ handler.store \in Stores /\ \E w \in writes : Waits(w)
     \/ handler = [step |-> "edit", page |-> memory.settings.page]
  /\ handler.step # "awaiting" => \A w \in writes : ~w.owned
  /\ ~strayed => \A w \in writes : w.owned
  /\ ~up => writes = {} /\ handler = Idle

\* Memory and files agree, except between a replaced file and the handler that learns of it.
DurableInv ==
  up /\ ~strayed =>
    /\ handler.step # "awaiting" => memory = Loaded
    /\ \A w \in writes : Loaded = IF w.at = "done" THEN [memory EXCEPT ![w.store] = w.value] ELSE memory

\* Each collision since the start was with a file that no write of this process touches again.
CollisionInv ==
  \E met \in SUBSET temps :
    /\ Cardinality(met) = collisions
    /\ \A t \in met : /\ t.store \in Stores /\ t.n \in 0 .. counter[t.store]
                      /\ \A w \in writes : w.at \in {"create", "written"} => Temp(w) # t

StoresStrong == StoresShape /\ WritesInv /\ HandlerInv /\ DurableInv /\ CollisionInv

LEMMA GoodGrows ==
  ASSUME NEW seen, NEW more, seen \subseteq more, NEW store, NEW v, Good(seen, store, v)
  PROVE  Good(more, store, v)
BY DEF Good, Reached

\* The tutorial pages and their numbers.
LEMMA PageNumbers ==
  /\ DOMAIN Pages = 1 .. 9 /\ Range(Pages) \subseteq Progress
  /\ \A i \in 1 .. 9 : PageIndex(Pages[i]) = i /\ Pages[i] \in Range(Pages)
  /\ \A page \in Range(Pages) : PageIndex(page) \in 1 .. 9 /\ Pages[PageIndex(page)] = page
<1>1. DOMAIN Pages = 1 .. 9
  BY DEF Pages
<1>2. \A i \in 1 .. 9 : PageIndex(Pages[i]) = i
  BY DEF Pages, PageIndex
<1>3. \A page \in Range(Pages) : \E i \in 1 .. 9 : page = Pages[i]
  BY <1>1 DEF Range
<1>4. \A i \in 1 .. 9 : Pages[i] \in Range(Pages)
  BY <1>1 DEF Range
<1> QED BY <1>1, <1>2, <1>3, <1>4 DEF Progress

\* A page that has been seen may be followed by the next one.
LEMMA NextPageReached ==
  ASSUME NEW seen, NEW page \in Progress, Reached(seen, page), page \in seen
  PROVE  NextPage(page) \in Progress /\ Reached(seen, NextPage(page))
<1>1. CASE page \in {"NotStarted", "Skipped", "Complete"}
  BY <1>1 DEF NextPage
<1>2. CASE page \notin {"NotStarted", "Skipped", "Complete"}
  <2>1. page \in Range(Pages)
    BY <1>2 DEF Progress
  <2> DEFINE i == PageIndex(page)
  <2>2. i \in 1 .. 9 /\ Pages[i] = page /\ Pages[9] = "Complete"
    BY <2>1, PageNumbers DEF Pages
  <2>3. i # 9
    BY <1>2, <2>2
  <2>4. i + 1 \in 1 .. 9
    BY <2>2, <2>3
  <2>5. NextPage(page) = Pages[i + 1] /\ PageIndex(Pages[i + 1]) = i + 1 /\ Pages[i + 1] \in Range(Pages)
    BY <1>2, <2>4, PageNumbers DEF NextPage
  <2>6. \A j \in 1 .. i - 1 : Pages[j] \in seen
    BY <2>1 DEF Reached
  <2>7. \A j \in 1 .. (i + 1) - 1 : j \in 1 .. i - 1 \/ j = i
    BY <2>2
  <2>8. \A j \in 1 .. (i + 1) - 1 : Pages[j] \in seen
    BY <2>2, <2>6, <2>7
  <2> QED BY <2>5, <2>8, PageNumbers DEF Reached
<1> QED BY <1>1, <1>2

LEMMA FirstPageReached ==
  ASSUME NEW seen, NEW page \in {"Intro", "NotStarted", "Skipped"}
  PROVE  page \in Progress /\ Reached(seen, page)
<1>1. PageIndex("Intro") = 1 /\ "Intro" \in Range(Pages)
  <2>1. Pages[1] = "Intro"
    BY DEF Pages
  <2> QED BY <2>1, PageNumbers
<1>2. "NotStarted" \notin Range(Pages) /\ "Skipped" \notin Range(Pages)
  BY PageNumbers DEF Range, Pages
<1> QED BY <1>1, <1>2 DEF Reached, Progress

\* Settings stay good when one of them is changed to something valid.
LEMMA GoodSettings ==
  ASSUME NEW seen, NEW s, Good(seen, "settings", s)
  PROVE  /\ \A prefix \in ValidPrefixes : Good(seen, "settings", [s EXCEPT !.prefix = prefix])
         /\ \A locale \in Locales : Good(seen, "settings", [s EXCEPT !.locale = locale])
         /\ \A page \in Progress : Reached(seen, page) => Good(seen, "settings", [s EXCEPT !.page = page])
<1>1. s \in Settings /\ s.prefix \in ValidPrefixes /\ Reached(seen, s.page)
  BY DEF Good, ValidatePrefix
<1>2. ASSUME NEW prefix \in ValidPrefixes
      PROVE  Good(seen, "settings", [s EXCEPT !.prefix = prefix])
  BY <1>1, ConstantsAssumption DEF Good, ValidatePrefix, Settings
<1>3. ASSUME NEW locale \in Locales
      PROVE  Good(seen, "settings", [s EXCEPT !.locale = locale])
  BY <1>1 DEF Good, ValidatePrefix, Settings
<1>4. ASSUME NEW page \in Progress, Reached(seen, page)
      PROVE  Good(seen, "settings", [s EXCEPT !.page = page])
  BY <1>1, <1>4 DEF Good, ValidatePrefix, Settings
<1> QED BY <1>2, <1>3, <1>4

\* A value written is the value a start reads.
LEMMA WrittenIsRead ==
  ASSUME NEW s \in Settings, ValidatePrefix(s.prefix)
  PROVE  LoadSettings(SettingsFile(s)) = s /\ SettingsLoad(SettingsFile(s))
<1>1. LoadSettings(SettingsFile(s)) = [prefix |-> s.prefix, locale |-> s.locale, page |-> s.page]
  BY DEF LoadSettings, SettingsFile
<1>2. s = [prefix |-> s.prefix, locale |-> s.locale, page |-> s.page]
  BY DEF Settings
<1>3. SettingsFile(s).version \in 0 .. 2
  BY DEF SettingsFile
<1> QED BY <1>1, <1>2, <1>3 DEF SettingsLoad

LEMMA StoresInitially ==
  ASSUME StoresInit
  PROVE  StoresStrong
<1>1. PICK v \in {0, 1}, p \in ValidPrefixes :
        file = [settings |-> [version |-> v, prefix |-> p, locale |-> None, page |-> "NotStarted"], aliases |-> [n \in {} |-> None]]
  BY DEF StoresInit
<1>2. /\ LoadSettings(file.settings) \in Settings /\ LoadSettings(file.settings).page = "NotStarted"
      /\ LoadSettings(file.settings).prefix \in ValidPrefixes
  BY <1>1, ConstantsAssumption, FirstPageReached DEF LoadSettings, Settings
<1>3. SettingsLoad(file.settings) /\ Good(delivered, "settings", LoadSettings(file.settings))
  BY <1>1, <1>2, FirstPageReached DEF SettingsLoad, Good, ValidatePrefix
<1>4. Good(delivered, "aliases", file.aliases)
  <2>1. DOMAIN file.aliases = {}
    BY <1>1
  <2>2. IsFiniteSet({}) /\ Cardinality({}) = 0 /\ 0 <= MaxAliases
    BY FS_EmptySet, ConstantsAssumption
  <2> QED BY <2>1, <2>2 DEF Good, ValidateAliases
<1>5. memory = Loaded /\ memory.settings = LoadSettings(file.settings) /\ memory.aliases = file.aliases /\ DOMAIN memory = Stores
  BY DEF StoresInit, Loaded, Stores
<1>6. file = [settings |-> file.settings, aliases |-> file.aliases]
  BY <1>1
<1>7. StoresShape
  BY <1>3, <1>4, <1>5, <1>6, FS_EmptySet DEF StoresInit, StoresShape, Loaded
<1>8. CollisionInv
  <2>1. {} \in SUBSET temps /\ Cardinality({}) = collisions
    BY FS_EmptySet DEF StoresInit
  <2> QED BY <2>1 DEF CollisionInv
<1>9. WritesInv /\ HandlerInv /\ DurableInv
  BY DEF StoresInit, WritesInv, HandlerInv, DurableInv
<1> QED BY <1>7, <1>8, <1>9 DEF StoresStrong

\* A write the handler begins, when it owns none of the others.
LEMMA NewWrite ==
  ASSUME StoresStrong, up, NEW rest \in SUBSET writes, \A w \in rest : ~w.owned,
         NEW store \in Stores, NEW value, NEW then,
         delivered \subseteq delivered', Good(delivered', store, value),
         counter' = TakeCounter(store), handler' = Awaiting(store, value, then),
         writes' = rest \cup {[store |-> store, value |-> value, n |-> counter[store] + 1, at |-> "create", owned |-> TRUE]},
         DOMAIN memory' = Stores, memory' = [settings |-> memory'.settings, aliases |-> memory'.aliases],
         Good(delivered, "settings", memory'.settings), Good(delivered, "aliases", memory'.aliases),
         ~strayed => memory' = Loaded,
         UNCHANGED <<up, file, temps, strayed, collisions>>
  PROVE  StoresStrong'
<1> DEFINE new == [store |-> store, value |-> value, n |-> counter[store] + 1, at |-> "create", owned |-> TRUE]
<1>s. StoresShape /\ WritesInv /\ HandlerInv /\ CollisionInv
  BY DEF StoresStrong
<1>n. /\ new = [store |-> new.store, value |-> new.value, n |-> new.n, at |-> new.at, owned |-> new.owned]
      /\ new.store = store /\ new.value = value /\ new.n = counter[store] + 1 /\ new.at = "create" /\ new.owned = TRUE
  OBVIOUS
<1>w. writes' = rest \cup {new} /\ rest \subseteq writes /\ \A w \in rest : ~w.owned
  OBVIOUS
<1> HIDE DEF new
<1>c. /\ counter' \in [Stores -> Nat] /\ counter'[store] = counter[store] + 1 /\ counter[store] \in Nat
      /\ \A s \in Stores : counter[s] \in Nat /\ counter'[s] \in Nat /\ counter[s] <= counter'[s]
  BY <1>s DEF StoresShape, TakeCounter
<1>h. /\ handler'.step = "awaiting" /\ handler'.store = store /\ handler'.value = value
      /\ handler' = Awaiting(handler'.store, handler'.value, handler'.then)
  BY DEF Awaiting
<1>1. StoresShape'
  BY <1>s, <1>c, GoodGrows DEF StoresShape
<1>2. WritesInv'
  <2>1. ASSUME NEW w \in writes'
        PROVE  /\ w = [store |-> w.store, value |-> w.value, n |-> w.n, at |-> w.at, owned |-> w.owned]
               /\ w.store \in Stores /\ Good(delivered', w.store, w.value) /\ w.n \in 1 .. counter'[w.store]
               /\ w.at \in {"create", "written", "done", "failed"} /\ w.owned \in BOOLEAN
    <3>1. CASE w = new
      <4>1. new.n \in 1 .. counter'[new.store]
        BY <1>n, <1>c
      <4>2. new.owned \in BOOLEAN
        BY <1>n, Zenon
      <4> QED BY <3>1, <4>1, <4>2, <1>n
    <3>2. CASE w \in rest
      <4>1. /\ w = [store |-> w.store, value |-> w.value, n |-> w.n, at |-> w.at, owned |-> w.owned]
            /\ w.store \in Stores /\ Good(delivered, w.store, w.value) /\ w.n \in 1 .. counter[w.store]
            /\ w.at \in {"create", "written", "done", "failed"} /\ w.owned \in BOOLEAN
        BY <1>s, <1>w, <3>2 DEF WritesInv
      <4>2. Good(delivered', w.store, w.value)
        BY <4>1, GoodGrows
      <4>3. w.n \in 1 .. counter'[w.store]
        BY <4>1, <1>c
      <4> QED BY <4>1, <4>2, <4>3
    <3> QED BY <1>w, <3>1, <3>2
  <2>2. \A w \in rest : w.store = store => w.n # new.n
    BY <1>s, <1>w, <1>n, <1>c DEF WritesInv
  <2>3. \A v, w \in writes' : v.store = w.store /\ v.n = w.n => v = w
    BY <1>s, <1>w, <1>n, <2>2 DEF WritesInv
  <2> QED BY <2>1, <2>3 DEF WritesInv
<1>3. HandlerInv'
  <2>1. \A v \in writes' : v.owned => v = new
    BY <1>w
  <2>2. \E w \in writes' : w.owned /\ w.store = handler'.store /\ w.value = handler'.value /\ \A v \in writes' : v.owned => v = w
    BY <1>w, <1>n, <1>h, <2>1
  <2>3. ~strayed => rest = {}
    BY <1>s, <1>w DEF HandlerInv
  <2>4. \E w \in writes' : Waits(w)'
    BY <2>2 DEF Waits
  <2>5. ~strayed' => \A w \in writes' : w.owned
    BY <1>w, <1>n, <2>3
  <2> QED BY <1>h, <2>4, <2>5 DEF HandlerInv
<1>4. DurableInv'
  <2>1. ~strayed => writes' = {new}
    BY <1>s, <1>w DEF HandlerInv
  <2> QED BY <1>h, <1>n, <2>1 DEF DurableInv, Loaded
<1>5. CollisionInv'
  <2>1. PICK met \in SUBSET temps :
          /\ Cardinality(met) = collisions
          /\ \A t \in met : /\ t.store \in Stores /\ t.n \in 0 .. counter[t.store]
                            /\ \A w \in writes : w.at \in {"create", "written"} => Temp(w) # t
    BY <1>s DEF CollisionInv
  <2>2. ASSUME NEW t \in met
        PROVE  t.n \in 0 .. counter'[t.store] /\ Temp(new) # t
    <3>1. Temp(new).store = store /\ Temp(new).n = counter[store] + 1
      BY <1>n DEF Temp
    <3>2. t.n # counter[store] + 1 \/ t.store # store
      BY <2>1, <1>c
    <3> QED BY <2>1, <1>c, <3>1, <3>2
  <2> QED BY <2>1, <2>2, <1>w DEF CollisionInv
<1> QED BY <1>1, <1>2, <1>3, <1>4, <1>5 DEF StoresStrong

\* The handler goes on without a write of its own.
LEMMA NoWrite ==
  ASSUME StoresStrong, up, NEW rest \in SUBSET writes, \A w \in rest : ~w.owned, writes' = rest,
         handler' \in {Idle, [step |-> "edit", page |-> memory'.settings.page]},
         delivered \subseteq delivered',
         DOMAIN memory' = Stores, memory' = [settings |-> memory'.settings, aliases |-> memory'.aliases],
         Good(delivered, "settings", memory'.settings), Good(delivered, "aliases", memory'.aliases),
         ~strayed => memory' = Loaded,
         UNCHANGED <<up, file, temps, counter, strayed, collisions>>
  PROVE  StoresStrong'
<1>s. StoresShape /\ WritesInv /\ HandlerInv /\ CollisionInv
  BY DEF StoresStrong
<1>h. handler'.step # "awaiting"
  BY DEF Idle
<1>1. StoresShape'
  BY <1>s, GoodGrows DEF StoresShape
<1>2. WritesInv'
  BY <1>s, GoodGrows DEF WritesInv
<1>3. HandlerInv'
  BY <1>s, <1>h DEF HandlerInv
<1>4. DurableInv'
  BY <1>s, <1>h DEF DurableInv, Loaded, HandlerInv
<1>5. CollisionInv'
  BY <1>s DEF CollisionInv
<1> QED BY <1>1, <1>2, <1>3, <1>4, <1>5 DEF StoresStrong

\* The aliases stay good when a validated one is added or one is deleted.
LEMMA GoodAliases ==
  ASSUME StoresShape
  PROVE  /\ \A name \in Names : \A alias :
              LET candidate == [n \in DOMAIN memory.aliases \cup {name} |-> IF n = name THEN alias ELSE memory.aliases[n]] IN
              ValidateAliases(candidate) => Good(delivered, "aliases", candidate)
         /\ \A name : Good(delivered, "aliases", Restrict(memory.aliases, DOMAIN memory.aliases \ {name}))
<1>1. /\ DOMAIN memory.aliases \subseteq Names /\ IsFiniteSet(DOMAIN memory.aliases)
      /\ Cardinality(DOMAIN memory.aliases) <= MaxAliases
      /\ \A name \in DOMAIN memory.aliases : ValidateAlias(name, memory.aliases[name])
  BY DEF StoresShape, Good, ValidateAliases
<1>2. ASSUME NEW name \in Names, NEW alias,
             ValidateAliases([n \in DOMAIN memory.aliases \cup {name} |-> IF n = name THEN alias ELSE memory.aliases[n]])
      PROVE  Good(delivered, "aliases", [n \in DOMAIN memory.aliases \cup {name} |-> IF n = name THEN alias ELSE memory.aliases[n]])
  <2>1. IsFiniteSet(DOMAIN memory.aliases \cup {name})
    BY <1>1, FS_AddElement
  <2> QED BY <1>1, <1>2, <2>1 DEF Good
<1>3. ASSUME NEW name
      PROVE  Good(delivered, "aliases", Restrict(memory.aliases, DOMAIN memory.aliases \ {name}))
  <2> DEFINE kept == Restrict(memory.aliases, DOMAIN memory.aliases \ {name})
  <2>1. DOMAIN kept = DOMAIN memory.aliases \ {name} /\ \A n \in DOMAIN kept : kept[n] = memory.aliases[n]
    BY DEF Restrict
  <2>2. IsFiniteSet(DOMAIN memory.aliases \ {name}) /\ Cardinality(DOMAIN memory.aliases \ {name}) <= Cardinality(DOMAIN memory.aliases)
    BY <1>1, FS_Subset
  <2>3. Cardinality(DOMAIN memory.aliases \ {name}) \in Nat /\ Cardinality(DOMAIN memory.aliases) \in Nat /\ MaxAliases \in Nat
    BY <1>1, <2>2, FS_CardinalityType, ConstantsAssumption
  <2>4. Cardinality(DOMAIN kept) <= MaxAliases
    BY <1>1, <2>1, <2>2, <2>3
  <2>5. Good(delivered, "aliases", kept)
    <3> HIDE DEF kept
    <3> QED BY <1>1, <2>1, <2>2, <2>4 DEF Good, ValidateAliases
  <2> QED BY <2>5
<1> QED BY <1>2, <1>3

\* A handler replies, or commits something good.
CommitsGood == \E store \in Stores : \E value, then : Good(delivered, store, value) /\ Commit(store, value, then)

LEMMA HandlersCommitGood ==
  ASSUME StoresShape, ExecutePrefix \/ ExecuteLanguage \/ ExecuteStart \/ ExecuteAlias
  PROVE  Reply \/ CommitsGood
<1>s. Good(delivered, "settings", memory.settings) /\ "settings" \in Stores /\ "aliases" \in Stores
  BY DEF StoresShape, Stores
<1>p. memory.settings.page \in Progress /\ Reached(delivered, memory.settings.page)
  BY <1>s DEF Good, Settings
<1>1. CASE ExecutePrefix
  <2>1. ASSUME NEW prefix, SetPrefix(prefix) PROVE Reply \/ CommitsGood
    BY <2>1, <1>s, GoodSettings DEF SetPrefix, ValidatePrefix, CommitsGood
  <2> QED BY <1>1, <2>1 DEF ExecutePrefix
<1>2. CASE ExecuteLanguage
  BY <1>2, <1>s, GoodSettings DEF ExecuteLanguage, CommitsGood
<1>3. CASE ExecuteStart
  <2>1. PageForStart(memory.settings.page) \in Progress /\ Reached(delivered, PageForStart(memory.settings.page))
    BY <1>p, FirstPageReached DEF PageForStart
  <2>2. "Skipped" \in Progress /\ Reached(delivered, "Skipped")
    BY FirstPageReached
  <2>3. StartBegin => Reply \/ CommitsGood
    BY <1>s, <2>1, GoodSettings DEF StartBegin, ShowPage, CommitsGood
  <2>4. StartSkip => Reply \/ CommitsGood
    BY <1>s, <2>2, GoodSettings DEF StartSkip, CommitsGood
  <2>5. \A locale \in Locales : StartLocale(locale) => CommitsGood
    BY <1>s, GoodSettings DEF StartLocale, CommitsGood
  <2> QED BY <1>3, <2>3, <2>4, <2>5 DEF ExecuteStart
<1>4. CASE ExecuteAlias
  <2>1. \A name \in Names : \A alias : AliasAdd(name, alias) => Reply \/ CommitsGood
    BY <1>s, GoodAliases DEF AliasAdd, CommitsGood
  <2>2. \A name : AliasDelete(name) => Reply \/ CommitsGood
    BY <1>s, GoodAliases DEF AliasDelete, CommitsGood
  <2> QED BY <1>4, <2>1, <2>2 DEF ExecuteAlias
<1> QED BY <1>1, <1>2, <1>3, <1>4

LEMMA CommandStores ==
  ASSUME StoresStrong, Command
  PROVE  StoresStrong'
<1>s. StoresShape /\ HandlerInv /\ DurableInv
  BY DEF StoresStrong
<1>e. /\ up /\ handler = Idle /\ handler.step # "awaiting"
      /\ UNCHANGED <<up, memory, file, temps, delivered, strayed, collisions>>
  BY DEF Command, Idle
<1>r. /\ \A w \in writes : ~w.owned
      /\ DOMAIN memory' = Stores /\ memory' = [settings |-> memory'.settings, aliases |-> memory'.aliases]
      /\ Good(delivered, "settings", memory'.settings) /\ Good(delivered, "aliases", memory'.aliases)
      /\ ~strayed => memory' = Loaded
  BY <1>s, <1>e DEF StoresShape, HandlerInv, DurableInv
<1>1. CASE Reply
  BY <1>1, <1>e, <1>r, NoWrite DEF Reply
<1>2. CASE CommitsGood
  <2>1. PICK store \in Stores : \E value, then : Good(delivered, store, value) /\ Commit(store, value, then)
    BY <1>2 DEF CommitsGood
  <2>2. PICK value, then : Good(delivered, store, value) /\ Commit(store, value, then)
    BY <2>1
  <2> QED BY <1>e, <1>r, <2>2, NewWrite DEF Commit
<1> QED BY <1>s, <1>1, <1>2, HandlersCommitGood DEF Command

\* One write moves on; what it writes and whose it is stay the same.
LEMMA AdvanceWrite ==
  ASSUME StoresStrong, NEW w \in writes, NEW at \in {"written", "done", "failed"}, Advance(w, at),
         UNCHANGED <<up, counter, memory, handler, delivered, strayed>>
  PROVE  WritesInv' /\ HandlerInv'
<1> DEFINE v == [w EXCEPT !.at = at]
<1>s. WritesInv /\ HandlerInv
  BY DEF StoresStrong
<1>v. /\ v = [store |-> v.store, value |-> v.value, n |-> v.n, at |-> v.at, owned |-> v.owned]
      /\ v.store = w.store /\ v.value = w.value /\ v.n = w.n /\ v.at = at /\ v.owned = w.owned
  BY <1>s DEF WritesInv
<1>w. writes' = (writes \ {w}) \cup {v}
  BY DEF Advance
<1> HIDE DEF v
<1>1. WritesInv'
  <2>1. \A x \in writes' :
          /\ x = [store |-> x.store, value |-> x.value, n |-> x.n, at |-> x.at, owned |-> x.owned]
          /\ x.store \in Stores /\ Good(delivered', x.store, x.value) /\ x.n \in 1 .. counter'[x.store]
          /\ x.at \in {"create", "written", "done", "failed"} /\ x.owned \in BOOLEAN
    BY <1>s, <1>v, <1>w DEF WritesInv
  <2>2. \A x, y \in writes' : x.store = y.store /\ x.n = y.n => x = y
    BY <1>s, <1>v, <1>w DEF WritesInv
  <2> QED BY <2>1, <2>2 DEF WritesInv
<1>2. HandlerInv'
  <2>1. (\E x \in writes : Waits(x)) => \E x \in writes' : Waits(x)'
    <3> SUFFICES ASSUME NEW x \in writes, Waits(x)
                 PROVE  \E y \in writes' : Waits(y)'
      OBVIOUS
    <3>1. CASE x = w
      <4>1. v \in writes' /\ v.owned /\ v.store = handler'.store /\ v.value = handler'.value /\ \A y \in writes' : y.owned => y = v
        BY <3>1, <1>v, <1>w DEF Waits
      <4> QED BY <4>1 DEF Waits
    <3>2. CASE x # w
      <4>1. x \in writes' /\ \A y \in writes' : y.owned => y = x
        BY <3>2, <1>v, <1>w DEF Waits
      <4> QED BY <4>1 DEF Waits
    <3> QED BY <3>1, <3>2
  <2>2. /\ (\A x \in writes : ~x.owned) => \A x \in writes' : ~x.owned
        /\ (\A x \in writes : x.owned) => \A x \in writes' : x.owned
    BY <1>v, <1>w
  <2> QED BY <1>s, <2>1, <2>2 DEF HandlerInv
<1> QED BY <1>1, <1>2

\* A write that moves on without replacing its file leaves memory and files as they are.
LEMMA DurableKept ==
  ASSUME StoresStrong, NEW w \in writes, NEW at \in {"written", "failed"}, w.at # "done", Advance(w, at),
         UNCHANGED <<up, memory, file, handler, strayed>>
  PROVE  DurableInv'
<1>1. /\ writes' = (writes \ {w}) \cup {[w EXCEPT !.at = at]}
      /\ [w EXCEPT !.at = at].at = at
  BY DEF Advance, StoresStrong, WritesInv
<1>2. DurableInv /\ UNCHANGED Loaded
  BY DEF StoresStrong, Loaded
<1> QED BY <1>1, <1>2 DEF DurableInv

\* The collisions so far, when a write moves on and only its own temporary file comes or goes.
LEMMA CollisionsKept ==
  ASSUME StoresStrong, NEW w \in writes, NEW at, Advance(w, at),
         w.at \in {"create", "written"}, UNCHANGED <<counter, collisions>>,
         temps \ {Temp(w)} \subseteq temps'
  PROVE  CollisionInv'
<1>1. PICK met \in SUBSET temps :
        /\ Cardinality(met) = collisions
        /\ \A t \in met : /\ t.store \in Stores /\ t.n \in 0 .. counter[t.store]
                          /\ \A x \in writes : x.at \in {"create", "written"} => Temp(x) # t
  BY DEF StoresStrong, CollisionInv
<1>2. met \in SUBSET temps'
  BY <1>1
<1>3. writes' = (writes \ {w}) \cup {[w EXCEPT !.at = at]} /\ Temp([w EXCEPT !.at = at]) = Temp(w)
  BY DEF Advance, Temp, StoresStrong, WritesInv
<1>4. \A t \in met : \A x \in writes' : x.at \in {"create", "written"} => Temp(x) # t
  BY <1>1, <1>3
<1> QED BY <1>1, <1>2, <1>4 DEF CollisionInv

LEMMA CreateTempStores ==
  ASSUME StoresStrong, NEW w \in writes, CreateTemp(w)
  PROVE  StoresStrong'
<1>s. StoresShape /\ WritesInv /\ CollisionInv
  BY DEF StoresStrong
<1>e. w.at = "create" /\ UNCHANGED <<up, memory, file, counter, handler, delivered, strayed>>
  BY DEF CreateTemp
<1>1. CASE Temp(w) \in temps
  <2>1. Advance(w, "failed") /\ collisions' = collisions + 1 /\ UNCHANGED temps
    BY <1>1 DEF CreateTemp
  <2>2. WritesInv' /\ HandlerInv' /\ DurableInv'
    BY <1>e, <2>1, AdvanceWrite, DurableKept
  <2>3. StoresShape'
    BY <1>s, <1>e, <2>1 DEF StoresShape
  <2>4. PICK met \in SUBSET temps :
          /\ Cardinality(met) = collisions
          /\ \A t \in met : /\ t.store \in Stores /\ t.n \in 0 .. counter[t.store]
                            /\ \A x \in writes : x.at \in {"create", "written"} => Temp(x) # t
    BY <1>s DEF CollisionInv
  <2>5. Temp(w) \notin met /\ met \cup {Temp(w)} \in SUBSET temps'
    BY <1>1, <1>e, <2>1, <2>4
  <2>6. Cardinality(met \cup {Temp(w)}) = collisions'
    <3>1. IsFiniteSet(met)
      BY <1>s, FS_Subset DEF StoresShape
    <3> QED BY <2>1, <2>4, <2>5, <3>1, FS_AddElement
  <2>7. writes' = (writes \ {w}) \cup {[w EXCEPT !.at = "failed"]} /\ [w EXCEPT !.at = "failed"].at = "failed"
    BY <1>s, <2>1 DEF Advance, WritesInv
  <2>8. /\ Temp(w).store = w.store /\ Temp(w).n = w.n /\ w.store \in Stores /\ w.n \in 0 .. counter[w.store]
        /\ \A x \in writes : x # w => Temp(x) # Temp(w)
    BY <1>s DEF Temp, WritesInv, StoresShape
  <2>9. \A t \in met \cup {Temp(w)} : /\ t.store \in Stores /\ t.n \in 0 .. counter'[t.store]
                                      /\ \A x \in writes' : x.at \in {"create", "written"} => Temp(x) # t
    BY <1>e, <2>4, <2>7, <2>8
  <2> QED BY <2>2, <2>3, <2>5, <2>6, <2>9 DEF StoresStrong, CollisionInv
<1>2. CASE Temp(w) \notin temps
  <2>1. PICK at \in {"written", "failed"} : Advance(w, at) /\ temps' \in {temps, temps \cup {Temp(w)}} /\ UNCHANGED collisions
    BY <1>2 DEF CreateTemp
  <2>2. IsFiniteSet(temps')
    BY <1>s, <2>1, FS_AddElement DEF StoresShape
  <2>3. StoresShape'
    BY <1>s, <1>e, <2>1, <2>2 DEF StoresShape
  <2> QED BY <1>e, <2>1, <2>3, AdvanceWrite, DurableKept, CollisionsKept DEF StoresStrong
<1> QED BY <1>1, <1>2

LEMMA CleanupStores ==
  ASSUME StoresStrong, NEW w \in writes, CleanupAfterFailure(w)
  PROVE  StoresStrong'
<1>e. /\ w.at = "written" /\ Advance(w, "failed") /\ temps' \in {temps, temps \ {Temp(w)}}
      /\ UNCHANGED <<up, memory, file, counter, handler, delivered, strayed, collisions>>
  BY DEF CleanupAfterFailure
<1>1. StoresShape'
  BY <1>e, FS_Subset DEF StoresStrong, StoresShape
<1> QED BY <1>e, <1>1, AdvanceWrite, DurableKept, CollisionsKept DEF StoresStrong

LEMMA ReplaceStores ==
  ASSUME StoresStrong, NEW w \in writes, Replace(w)
  PROVE  StoresStrong'
<1>s. StoresShape /\ WritesInv /\ HandlerInv /\ DurableInv
  BY DEF StoresStrong
<1>e. /\ w.at = "written" /\ Advance(w, "done") /\ temps' = temps \ {Temp(w)}
      /\ file' = [file EXCEPT ![w.store] = Serialize(w.store, w.value)]
      /\ UNCHANGED <<up, memory, counter, handler, delivered, strayed, collisions>>
  BY DEF Replace
<1>w. w.store \in Stores /\ Good(delivered, w.store, w.value)
  BY <1>s DEF WritesInv
<1>f. /\ file' = [settings |-> file'.settings, aliases |-> file'.aliases]
      /\ w.store = "settings" => file'.settings = SettingsFile(w.value) /\ file'.aliases = file.aliases
      /\ w.store = "aliases" => file'.settings = file.settings /\ file'.aliases = w.value
  BY <1>s, <1>e, <1>w DEF StoresShape, Serialize, Stores
<1>l. /\ w.store = "settings" => LoadSettings(file'.settings) = w.value /\ SettingsLoad(file'.settings)
  BY <1>f, <1>w, WrittenIsRead DEF Good
<1>1. StoresShape'
  <2>1. IsFiniteSet(temps')
    BY <1>s, <1>e, FS_Subset DEF StoresShape
  <2> QED BY <1>s, <1>e, <1>w, <1>f, <1>l, <2>1 DEF StoresShape, Stores
<1>2. DurableInv'
  <2>1. writes' = (writes \ {w}) \cup {[w EXCEPT !.at = "done"]}
    BY <1>e DEF Advance
  <2>2. [w EXCEPT !.at = "done"].at = "done" /\ [w EXCEPT !.at = "done"].store = w.store /\ [w EXCEPT !.at = "done"].value = w.value
    BY <1>s DEF WritesInv
  <2>3. ASSUME up, ~strayed
        PROVE  /\ handler.step = "awaiting" /\ writes' = {[w EXCEPT !.at = "done"]}
               /\ memory = Loaded
    <3>1. \A x \in writes : x.owned
      BY <1>s, <2>3 DEF HandlerInv
    <3>2. handler.step = "awaiting"
      BY <1>s, <3>1 DEF HandlerInv
    <3>3. \A x \in writes : x = w
      BY <1>s, <3>1, <3>2 DEF HandlerInv, Waits, Idle
    <3> QED BY <1>s, <1>e, <2>1, <2>3, <3>2, <3>3 DEF DurableInv
  <2>4. memory = Loaded => Loaded' = [memory EXCEPT ![w.store] = w.value]
    <3>1. CASE w.store = "settings"
      <4>1. Loaded' = [settings |-> w.value, aliases |-> file.aliases]
        BY <3>1, <1>f, <1>l DEF Loaded
      <4>2. memory = Loaded => [memory EXCEPT !["settings"] = w.value] = [settings |-> w.value, aliases |-> file.aliases]
        BY DEF Loaded
      <4> QED BY <3>1, <4>1, <4>2
    <3>2. CASE w.store = "aliases"
      <4>1. Loaded' = [settings |-> LoadSettings(file.settings), aliases |-> w.value]
        BY <3>2, <1>f DEF Loaded
      <4>2. memory = Loaded => [memory EXCEPT !["aliases"] = w.value] = [settings |-> LoadSettings(file.settings), aliases |-> w.value]
        BY DEF Loaded
      <4> QED BY <3>2, <4>1, <4>2
    <3> QED BY <1>w, <3>1, <3>2 DEF Stores
  <2> QED BY <1>e, <2>2, <2>3, <2>4 DEF DurableInv
<1> QED BY <1>e, <1>1, <1>2, AdvanceWrite, CollisionsKept DEF StoresStrong

\* The write the handler waited for, when it has ended.
LEMMA FinishedIsAwaited ==
  ASSUME StoresStrong, handler.step = "awaiting", NEW at, NEW w \in Finished(at)
  PROVE  /\ up /\ w \in writes /\ w.at = at /\ w.store = handler.store /\ w.value = handler.value
         /\ writes \ {w} \in SUBSET writes /\ \A v \in writes \ {w} : ~v.owned
<1>1. HandlerInv /\ handler # Idle /\ handler # [step |-> "edit", page |-> memory.settings.page]
  BY DEF StoresStrong, Idle
<1>2. PICK x \in writes : Waits(x)
  BY <1>1 DEF HandlerInv
<1>3. w = x /\ w.at = at
  BY <1>2 DEF Waits, Finished
<1>4. up
  BY <1>1 DEF HandlerInv, StoresStrong, StoresShape
<1> QED BY <1>2, <1>3, <1>4 DEF Waits

LEMMA CommittedStores ==
  ASSUME StoresStrong, Committed
  PROVE  StoresStrong'
<1>s. StoresShape /\ WritesInv /\ HandlerInv /\ DurableInv
  BY DEF StoresStrong
<1>e. /\ handler.step = "awaiting" /\ memory' = [memory EXCEPT ![handler.store] = handler.value]
      /\ UNCHANGED <<up, file, temps, delivered, strayed, collisions>>
  BY DEF Committed
<1> DEFINE next == [memory'.settings EXCEPT !.page = "Intro"]
<1>w. PICK w \in Finished("done") :
        \/ /\ counter' = TakeCounter("settings") /\ handler' = Awaiting("settings", next, "page")
           /\ writes' = (writes \ {w}) \cup {[store |-> "settings", value |-> next, n |-> counter["settings"] + 1,
                                              at |-> "create", owned |-> TRUE]}
        \/ /\ writes' = writes \ {w} /\ UNCHANGED counter
           /\ handler' \in {Idle, [step |-> "edit", page |-> memory'.settings.page]}
  BY DEF Committed
<1>a. /\ up /\ w \in writes /\ w.at = "done" /\ w.store = handler.store /\ w.value = handler.value
      /\ writes \ {w} \in SUBSET writes /\ \A v \in writes \ {w} : ~v.owned
  BY <1>e, FinishedIsAwaited
<1>g. w.store \in Stores /\ Good(delivered, w.store, w.value)
  BY <1>s, <1>a DEF WritesInv
<1>m. /\ DOMAIN memory' = Stores /\ memory' = [settings |-> memory'.settings, aliases |-> memory'.aliases]
      /\ Good(delivered, "settings", memory'.settings) /\ Good(delivered, "aliases", memory'.aliases)
  <2>1. memory = [settings |-> memory.settings, aliases |-> memory.aliases] /\ memory' = [memory EXCEPT ![w.store] = w.value]
    BY <1>s, <1>e, <1>a DEF StoresShape
  <2>2. CASE w.store = "settings"
    <3>1. memory' = [settings |-> w.value, aliases |-> memory.aliases]
      BY <2>1, <2>2
    <3> QED BY <1>s, <1>g, <2>2, <3>1 DEF StoresShape, Stores
  <2>3. CASE w.store = "aliases"
    <3>1. memory' = [settings |-> memory.settings, aliases |-> w.value]
      BY <2>1, <2>3
    <3> QED BY <1>s, <1>g, <2>3, <3>1 DEF StoresShape, Stores
  <2> QED BY <1>g, <2>2, <2>3 DEF Stores
<1>d. ~strayed => memory' = Loaded
  BY <1>s, <1>e, <1>a DEF DurableInv
<1>1. CASE counter' = TakeCounter("settings") /\ handler' = Awaiting("settings", next, "page")
           /\ writes' = (writes \ {w}) \cup {[store |-> "settings", value |-> next, n |-> counter["settings"] + 1,
                                              at |-> "create", owned |-> TRUE]}
  <2>1. Good(delivered', "settings", next) /\ "settings" \in Stores /\ delivered \subseteq delivered'
    BY <1>e, <1>m, GoodSettings, FirstPageReached DEF Stores
  <2> HIDE DEF next
  <2> QED BY <1>1, <1>e, <1>a, <1>m, <1>d, <2>1, NewWrite
<1>2. CASE writes' = writes \ {w} /\ UNCHANGED counter /\ handler' \in {Idle, [step |-> "edit", page |-> memory'.settings.page]}
  <2>1. delivered \subseteq delivered'
    BY <1>e
  <2> QED BY <1>2, <1>e, <1>a, <1>m, <1>d, <2>1, NoWrite
<1> QED BY <1>w, <1>1, <1>2

LEMMA CommitFailedStores ==
  ASSUME StoresStrong, CommitFailed
  PROVE  StoresStrong'
<1>s. StoresShape /\ DurableInv
  BY DEF StoresStrong
<1>e. handler.step = "awaiting" /\ handler' = Idle /\ UNCHANGED <<up, memory, file, counter, temps, delivered, strayed, collisions>>
  BY DEF CommitFailed
<1>w. PICK w \in Finished("failed") : writes' = writes \ {w}
  BY DEF CommitFailed
<1>a. up /\ w \in writes /\ w.at = "failed" /\ writes \ {w} \in SUBSET writes /\ \A v \in writes \ {w} : ~v.owned
  BY <1>e, FinishedIsAwaited
<1>m. /\ DOMAIN memory' = Stores /\ memory' = [settings |-> memory'.settings, aliases |-> memory'.aliases]
      /\ Good(delivered, "settings", memory'.settings) /\ Good(delivered, "aliases", memory'.aliases)
      /\ delivered \subseteq delivered' /\ (~strayed => memory' = Loaded)
  BY <1>s, <1>e, <1>a DEF StoresShape, DurableInv
<1> QED BY <1>e, <1>w, <1>a, <1>m, NoWrite

LEMMA EditPageStores ==
  ASSUME StoresStrong, EditPage
  PROVE  StoresStrong'
<1>s. StoresShape /\ HandlerInv /\ DurableInv
  BY DEF StoresStrong
<1>e. handler.step = "edit" /\ UNCHANGED <<up, memory, file, temps, strayed, collisions>>
  BY DEF EditPage
<1>p. up /\ handler.page = memory.settings.page /\ \A w \in writes : ~w.owned
  BY <1>s, <1>e DEF HandlerInv, Idle, StoresShape
<1>m. /\ DOMAIN memory' = Stores /\ memory' = [settings |-> memory'.settings, aliases |-> memory'.aliases]
      /\ Good(delivered, "settings", memory'.settings) /\ Good(delivered, "aliases", memory'.aliases)
      /\ ~strayed => memory' = Loaded
  BY <1>s, <1>e, <1>p DEF StoresShape, DurableInv
<1>1. CASE Reply /\ delivered \subseteq delivered'
  BY <1>1, <1>e, <1>p, <1>m, NoWrite DEF Reply
<1>2. CASE MarkOnboardingDelivered /\ delivered' = delivered \cup {handler.page}
  <2>1. delivered \subseteq delivered' /\ memory.settings.page \in delivered' /\ "settings" \in Stores
    BY <1>2, <1>p DEF Stores
  <2>2. Good(delivered', "settings", memory.settings)
    BY <1>m, <1>e, <2>1, GoodGrows
  <2>3. memory.settings.page \in Progress /\ Reached(delivered', memory.settings.page)
    BY <2>2 DEF Good, Settings
  <2>4. Good(delivered', "settings", [memory.settings EXCEPT !.page = NextPage(memory.settings.page)])
    BY <2>1, <2>2, <2>3, NextPageReached, GoodSettings
  <2> QED BY <1>2, <1>e, <1>p, <1>m, <2>1, <2>4, NewWrite DEF MarkOnboardingDelivered, Commit
<1> QED BY <1>1, <1>2 DEF EditPage, AfterEdit

LEMMA OwnedReset ==
  ASSUME NEW w, NEW b,
         w = [store |-> w.store, value |-> w.value, n |-> w.n, at |-> w.at, owned |-> w.owned]
  PROVE  LET x == [w EXCEPT !.owned = b] IN
         /\ x = [store |-> x.store, value |-> x.value, n |-> x.n, at |-> x.at, owned |-> x.owned]
         /\ x.store = w.store /\ x.value = w.value /\ x.n = w.n /\ x.at = w.at
         /\ x.owned = b /\ Temp(x) = Temp(w)
BY DEF Temp

LEMMA HandlerDroppedStores ==
  ASSUME StoresStrong, HandlerDropped
  PROVE  StoresStrong'
<1>s. StoresShape /\ WritesInv /\ HandlerInv /\ CollisionInv
  BY DEF StoresStrong
<1> DEFINE Left(w) == [w EXCEPT !.owned = FALSE]
<1>e. /\ handler' = Idle /\ strayed' = TRUE /\ writes' = {Left(w) : w \in writes} /\ handler # Idle
      /\ UNCHANGED <<up, memory, file, counter, temps, delivered, collisions>>
  BY DEF HandlerDropped
<1>w. \A w \in writes :
        /\ Left(w) = [store |-> Left(w).store, value |-> Left(w).value, n |-> Left(w).n, at |-> Left(w).at, owned |-> Left(w).owned]
        /\ Left(w).store = w.store /\ Left(w).value = w.value /\ Left(w).n = w.n /\ Left(w).at = w.at
        /\ Left(w).owned = FALSE /\ Temp(Left(w)) = Temp(w)
  <2> SUFFICES ASSUME NEW w \in writes
               PROVE  /\ Left(w) = [store |-> Left(w).store, value |-> Left(w).value, n |-> Left(w).n, at |-> Left(w).at, owned |-> Left(w).owned]
                      /\ Left(w).store = w.store /\ Left(w).value = w.value /\ Left(w).n = w.n /\ Left(w).at = w.at
                      /\ Left(w).owned = FALSE /\ Temp(Left(w)) = Temp(w)
    OBVIOUS
  <2>1. w = [store |-> w.store, value |-> w.value, n |-> w.n, at |-> w.at, owned |-> w.owned]
    BY <1>s DEF WritesInv
  <2> QED BY <2>1, OwnedReset
<1> HIDE DEF Left
<1>1. StoresShape'
  BY <1>s, <1>e DEF StoresShape
<1>2. WritesInv'
  <2>1. ASSUME NEW x \in writes'
        PROVE  /\ x = [store |-> x.store, value |-> x.value, n |-> x.n, at |-> x.at, owned |-> x.owned]
               /\ x.store \in Stores /\ Good(delivered', x.store, x.value) /\ x.n \in 1 .. counter'[x.store]
               /\ x.at \in {"create", "written", "done", "failed"} /\ x.owned \in BOOLEAN
    <3>1. PICK w \in writes : x = Left(w)
      BY <1>e
    <3>2. x.owned \in BOOLEAN
      BY <1>w, <3>1, Zenon
    <3> QED BY <1>s, <1>e, <1>w, <3>1, <3>2 DEF WritesInv
  <2>2. \A x, y \in writes' : x.store = y.store /\ x.n = y.n => x = y
    BY <1>s, <1>e, <1>w DEF WritesInv
  <2> QED BY <2>1, <2>2 DEF WritesInv
<1>3. HandlerInv'
  <2>1. \A x \in writes' : ~x.owned
    BY <1>e, <1>w
  <2>2. up
    BY <1>s, <1>e DEF HandlerInv
  <2> QED BY <1>e, <2>1, <2>2 DEF HandlerInv
<1>4. DurableInv'
  BY <1>e DEF DurableInv
<1>5. CollisionInv'
  BY <1>s, <1>e, <1>w DEF CollisionInv
<1> QED BY <1>1, <1>2, <1>3, <1>4, <1>5 DEF StoresStrong

LEMMA AbandonedEndsStores ==
  ASSUME StoresStrong, AbandonedEnds
  PROVE  StoresStrong'
<1>s. StoresShape /\ WritesInv /\ HandlerInv /\ DurableInv /\ CollisionInv
  BY DEF StoresStrong
<1>e. UNCHANGED <<up, memory, file, counter, temps, handler, delivered, strayed, collisions>>
  BY DEF AbandonedEnds
<1>w. PICK w \in writes : ~w.owned /\ writes' = writes \ {w}
  BY DEF AbandonedEnds
<1>1. StoresShape'
  BY <1>s, <1>e DEF StoresShape
<1>2. WritesInv'
  BY <1>s, <1>e, <1>w DEF WritesInv
<1>3. HandlerInv'
  BY <1>s, <1>e, <1>w DEF HandlerInv, Waits
<1>4. DurableInv'
  BY <1>s, <1>e, <1>w DEF DurableInv, Loaded
<1>5. CollisionInv'
  BY <1>s, <1>e, <1>w DEF CollisionInv
<1> QED BY <1>1, <1>2, <1>3, <1>4, <1>5 DEF StoresStrong

LEMMA RestartStores ==
  ASSUME StoresStrong, StoresCrash \/ StoresLoad
  PROVE  StoresStrong'
<1>s. StoresShape /\ WritesInv /\ HandlerInv /\ CollisionInv
  BY DEF StoresStrong
<1>1. CASE StoresCrash
  <2>e. up' = FALSE /\ handler' = Idle /\ writes' = {} /\ UNCHANGED <<memory, file, counter, temps, delivered, strayed, collisions>>
    BY <1>1 DEF StoresCrash
  <2>0. up' \in BOOLEAN /\ ~up'
    BY <2>e, Zenon
  <2>1. StoresShape'
    BY <1>s, <2>e, <2>0 DEF StoresShape
  <2>2. CollisionInv'
    BY <1>s, <2>e DEF CollisionInv
  <2> QED BY <2>0, <2>1, <2>2, <2>e DEF StoresStrong, WritesInv, HandlerInv, DurableInv
<1>2. CASE StoresLoad
  <2>e. /\ ~up /\ up' = TRUE /\ memory' = Loaded /\ counter' = [s \in Stores |-> 0] /\ collisions' = 0 /\ strayed' = FALSE
        /\ UNCHANGED <<file, temps, writes, handler, delivered>>
    BY <1>2 DEF StoresLoad, Loaded
  <2>0. up' \in BOOLEAN /\ strayed' \in BOOLEAN /\ up' /\ ~strayed'
    BY <2>e, Zenon
  <2>w. writes' = {} /\ handler' = Idle
    BY <1>s, <2>e DEF HandlerInv
  <2>1. StoresShape'
    <3>1. /\ DOMAIN memory' = Stores /\ memory'.settings = LoadSettings(file.settings) /\ memory'.aliases = file.aliases
          /\ memory' = [settings |-> memory'.settings, aliases |-> memory'.aliases]
      BY <2>e DEF Loaded, Stores
    <3> QED BY <1>s, <2>e, <2>0, <3>1 DEF StoresShape
  <2>2. CollisionInv'
    <3>1. {} \in SUBSET temps' /\ Cardinality({}) = collisions'
      BY <2>e, FS_EmptySet
    <3> QED BY <3>1 DEF CollisionInv
  <2>3. DurableInv'
    BY <2>e, <2>w DEF DurableInv, Loaded
  <2> QED BY <2>0, <2>1, <2>2, <2>3, <2>w DEF StoresStrong, WritesInv, HandlerInv, Idle
<1> QED BY <1>1, <1>2

LEMMA StoresStep ==
  ASSUME StoresStrong, [StoresNext]_storeVars
  PROVE  StoresStrong'
<1>1. CASE UNCHANGED storeVars
  BY <1>1 DEF storeVars, StoresStrong, StoresShape, WritesInv, HandlerInv, Waits, DurableInv, Loaded, CollisionInv
<1>2. CASE StoresNext
  BY <1>2, CommandStores, CreateTempStores, CleanupStores, ReplaceStores, CommittedStores, CommitFailedStores,
     EditPageStores, HandlerDroppedStores, AbandonedEndsStores, RestartStores DEF StoresNext, BlockingStep, Resume
<1> QED BY <1>1, <1>2

LEMMA StoresImplied ==
  ASSUME StoresStrong
  PROVE  StoresInv
<1>s. StoresShape /\ WritesInv /\ HandlerInv /\ DurableInv /\ CollisionInv
  BY DEF StoresStrong
<1>1. StoresTypeOK
  <2>1. handler.step = "awaiting" => Cardinality({w \in writes : w.owned}) = 1
    <3> SUFFICES ASSUME handler.step = "awaiting"
                 PROVE  Cardinality({w \in writes : w.owned}) = 1
      OBVIOUS
    <3>1. PICK x \in writes : Waits(x)
      BY <1>s DEF HandlerInv, Idle
    <3>2. {w \in writes : w.owned} = {x}
      BY <3>1 DEF Waits
    <3> QED BY <3>2, FS_Singleton
  <2> QED BY <1>s, <2>1 DEF StoresTypeOK, StoresShape, WritesInv, Good
<1>2. MemoryDurable
  BY <1>s DEF MemoryDurable, DurableInv, Loaded, Idle
<1>3. FilesReload
  BY <1>s DEF FilesReload, StoresShape, Good
<1>4. TutorialNeverSkips
  BY <1>s DEF TutorialNeverSkips, StoresShape, Good, Reached
<1>5. CollisionsBounded
  <2>1. PICK met \in SUBSET temps : Cardinality(met) = collisions
    BY <1>s DEF CollisionInv
  <2>2. Cardinality(met) <= Cardinality(temps)
    BY <1>s, FS_Subset DEF StoresShape
  <2> QED BY <2>1, <2>2 DEF CollisionsBounded
<1> QED BY <1>1, <1>2, <1>3, <1>4, <1>5 DEF StoresInv

\* However commands, failed writes, dropped handlers and crashes follow each other, the process
\* holds what a restart would read, no file is one the next start refuses, no tutorial page is
\* skipped, and a left-over temporary file fails one commit only (settings.rs, aliases.rs).
THEOREM StoresAreDurable == StoresSpec => []StoresInv
<1>1. StoresInit => StoresStrong
  BY StoresInitially
<1>2. StoresStrong /\ [StoresNext]_storeVars => StoresStrong'
  BY StoresStep
<1>3. StoresStrong => StoresInv
  BY StoresImplied
<1> QED BY <1>1, <1>2, <1>3, PTL DEF StoresSpec

-----------------------------------------------------------------------------
(* The local session.                                                        *)

Stages == {"idle", "credentials", "lock", "open", "startup", "stopping", "unlock", "release", "recover",
           "recovering", "list", "moving", "rollback", "remove"}
Holding == Stages \ {"idle", "credentials", "lock"}
SessionDir == [state : {"staging", "published", "gone"}, files : [Files -> 0 .. MaxSessions]]
Among(f, moved) == \E i \in DOMAIN moved : moved[i] = f

ProgramForm(r) ==
  /\ r = [cmd |-> r.cmd, at |-> r.at, n |-> r.n, client |-> r.client, modules |-> r.modules,
          result |-> r.result, moved |-> r.moved, before |-> r.before]
  /\ r.at \in Stages /\ r.before \in [Files -> 0 .. MaxSessions]
  /\ r.client \in BOOLEAN /\ r.modules \in BOOLEAN

\* Whoever is past the lock holds it; a client is open from Connect to the shutdown, and the
\* modules stop before it; a command has moved nothing before its first file, and only one that
\* has ended has a result.
HeldForm(p, r) ==
  /\ r.at \in Holding => lock = p
  /\ r.at = "startup" => r.client
  /\ r.client => r.at \in {"startup", "stopping"}
  /\ r.modules => r.client
  /\ r.at \in {"credentials", "lock", "recover"} => r.moved = <<>>
  /\ r.at \notin {"stopping", "unlock", "release"} => r.result = "none"

\* A recovery renames onto free paths only, out of one directory at a time.
RecoverForm(r) ==
  r.at = "recovering" =>
    /\ r.moved \in Seq((DOMAIN dirs) \X Files)
    /\ \A d \in Staged, f \in Files : dirs[d].files[f] # 0 => live[f] = 0
    /\ \A i \in DOMAIN r.moved :
         /\ r.moved[i][1] \in Staged
         /\ dirs[r.moved[i][1]].files[r.moved[i][2]] = 0
         /\ \A e \in Staged : dirs[e].files # Nothing => e = r.moved[i][1]
    /\ \A i, j \in DOMAIN r.moved : r.moved[i][1] = r.moved[j][1]

\* A backup being made holds exactly the files moved so far, each once.
BackupForm(r) ==
  /\ r.at = "list" => Staged = {}
  /\ r.at \in {"moving", "rollback"} =>
       /\ Current # 0 /\ Staged = {Current}
       /\ r.moved \in Seq(Files) /\ IsInjective(r.moved)
       /\ \A f \in Files :
            IF Among(f, r.moved)
            THEN live[f] = 0 /\ dirs[Current].files[f] = r.before[f] /\ r.before[f] # 0
            ELSE live[f] = r.before[f] /\ dirs[Current].files[f] = 0

ResetForm(r) ==
  r.at = "release" =>
    /\ r.result = "published" => live = Nothing /\ dirs[Current].files = r.before
    /\ r.result = "undone" => live = r.before

FilesForm(r) == RecoverForm(r) /\ BackupForm(r) /\ ResetForm(r)

\* No file is of a session that was not created yet, and one staging directory at most has files.
SessionFiles ==
  /\ live \in [Files -> 0 .. MaxSessions] /\ dirs \in Seq(SessionDir)
  /\ sessions \in 0 .. MaxSessions /\ erased \subseteq 1 .. sessions
  /\ \A f \in Files : live[f] <= sessions
  /\ \A d \in DOMAIN dirs, f \in Files : dirs[d].files[f] <= sessions
  /\ \A d, e \in Staged : dirs[d].files # Nothing /\ dirs[e].files # Nothing => d = e
  /\ SessionNeverLost

SessionStrong ==
  /\ SessionFiles /\ lock \in Procs \cup {"free"} /\ stored \in {"absent", "whole"} /\ DOMAIN program = Procs
  /\ \A p \in Procs : ProgramForm(program[p]) /\ HeldForm(p, program[p]) /\ FilesForm(program[p])

Program(c, a, k, cl, mo, re, mv, b) ==
  [cmd |-> c, at |-> a, n |-> k, client |-> cl, modules |-> mo, result |-> re, moved |-> mv, before |-> b]

LEMMA ProgramFields ==
  ASSUME NEW c, NEW a, NEW k, NEW cl, NEW mo, NEW re, NEW mv, NEW b
  PROVE  LET r == Program(c, a, k, cl, mo, re, mv, b) IN
         /\ r.cmd = c /\ r.at = a /\ r.n = k /\ r.client = cl /\ r.modules = mo /\ r.result = re
         /\ r.moved = mv /\ r.before = b
BY DEF Program

LEMMA ProgramFormed ==
  ASSUME NEW c, NEW a \in Stages, NEW k, NEW cl \in BOOLEAN, NEW mo \in BOOLEAN, NEW re, NEW mv,
         NEW b \in [Files -> 0 .. MaxSessions]
  PROVE  ProgramForm(Program(c, a, k, cl, mo, re, mv, b))
<1> DEFINE r == Program(c, a, k, cl, mo, re, mv, b)
<1>1. /\ r.cmd = c /\ r.at = a /\ r.n = k /\ r.client = cl /\ r.modules = mo /\ r.result = re
      /\ r.moved = mv /\ r.before = b
  BY ProgramFields
<1>2. r = [cmd |-> r.cmd, at |-> r.at, n |-> r.n, client |-> r.client, modules |-> r.modules,
           result |-> r.result, moved |-> r.moved, before |-> r.before]
  BY DEF Program
<1> HIDE DEF r
<1>3. r.client \in BOOLEAN /\ r.modules \in BOOLEAN
  BY <1>1, Zenon
<1>4. ProgramForm(r)
  BY <1>1, <1>2, <1>3 DEF ProgramForm
<1> QED BY <1>4 DEF r

LEMMA ProgramUpdate ==
  ASSUME NEW r, r = Program(r.cmd, r.at, r.n, r.client, r.modules, r.result, r.moved, r.before), NEW x
  PROVE  /\ [r EXCEPT !.at = x] = Program(r.cmd, x, r.n, r.client, r.modules, r.result, r.moved, r.before)
         /\ [r EXCEPT !.n = x] = Program(r.cmd, r.at, x, r.client, r.modules, r.result, r.moved, r.before)
         /\ [r EXCEPT !.client = x] = Program(r.cmd, r.at, r.n, x, r.modules, r.result, r.moved, r.before)
         /\ [r EXCEPT !.modules = x] = Program(r.cmd, r.at, r.n, r.client, x, r.result, r.moved, r.before)
         /\ [r EXCEPT !.result = x] = Program(r.cmd, r.at, r.n, r.client, r.modules, x, r.moved, r.before)
         /\ [r EXCEPT !.moved = x] = Program(r.cmd, r.at, r.n, r.client, r.modules, r.result, x, r.before)
         /\ [r EXCEPT !.before = x] = Program(r.cmd, r.at, r.n, r.client, r.modules, r.result, r.moved, x)
<1>1. [r EXCEPT !.at = x] = Program(r.cmd, x, r.n, r.client, r.modules, r.result, r.moved, r.before)
  BY DEF Program
<1>2. [r EXCEPT !.n = x] = Program(r.cmd, r.at, x, r.client, r.modules, r.result, r.moved, r.before)
  BY DEF Program
<1>3. [r EXCEPT !.client = x] = Program(r.cmd, r.at, r.n, x, r.modules, r.result, r.moved, r.before)
  BY DEF Program
<1>4. [r EXCEPT !.modules = x] = Program(r.cmd, r.at, r.n, r.client, x, r.result, r.moved, r.before)
  BY DEF Program
<1>5. [r EXCEPT !.result = x] = Program(r.cmd, r.at, r.n, r.client, r.modules, x, r.moved, r.before)
  BY DEF Program
<1>6. [r EXCEPT !.moved = x] = Program(r.cmd, r.at, r.n, r.client, r.modules, r.result, x, r.before)
  BY DEF Program
<1>7. [r EXCEPT !.before = x] = Program(r.cmd, r.at, r.n, r.client, r.modules, r.result, r.moved, x)
  BY DEF Program
<1> QED BY <1>1, <1>2, <1>3, <1>4, <1>5, <1>6, <1>7

\* The updates that the commands make of their record.
LEMMA AtUpdate ==
  ASSUME NEW r, ProgramForm(r), NEW x
  PROVE  [r EXCEPT !.at = x] = Program(r.cmd, x, r.n, r.client, r.modules, r.result, r.moved, r.before)
<1>1. r = Program(r.cmd, r.at, r.n, r.client, r.modules, r.result, r.moved, r.before)
  BY DEF ProgramForm, Program
<1> QED BY <1>1, ProgramUpdate

LEMMA OpenUpdate ==
  ASSUME NEW r, ProgramForm(r), NEW x, NEW y
  PROVE  [r EXCEPT !.at = x, !.client = y] = Program(r.cmd, x, r.n, y, r.modules, r.result, r.moved, r.before)
<1>1. r = Program(r.cmd, r.at, r.n, r.client, r.modules, r.result, r.moved, r.before)
  BY DEF ProgramForm, Program
<1> DEFINE s1 == [r EXCEPT !.at = x]
<1>2. [r EXCEPT !.at = x, !.client = y] = [s1 EXCEPT !.client = y]
  OBVIOUS
<1>3. s1 = Program(r.cmd, x, r.n, r.client, r.modules, r.result, r.moved, r.before)
  BY <1>1, ProgramUpdate
<1> HIDE DEF s1
<1>4. s1 = Program(s1.cmd, s1.at, s1.n, s1.client, s1.modules, s1.result, s1.moved, s1.before)
      /\ s1.cmd = r.cmd /\ s1.at = x /\ s1.n = r.n /\ s1.client = r.client
      /\ s1.modules = r.modules /\ s1.result = r.result /\ s1.moved = r.moved /\ s1.before = r.before
  BY <1>3, ProgramFields
<1>5. [s1 EXCEPT !.client = y] = Program(s1.cmd, s1.at, s1.n, y, s1.modules, s1.result, s1.moved, s1.before)
  BY <1>4, ProgramUpdate
<1> QED BY <1>2, <1>5, <1>4

LEMMA StartupUpdate ==
  ASSUME NEW r, ProgramForm(r), NEW x, NEW y
  PROVE  [r EXCEPT !.n = x, !.modules = y] = Program(r.cmd, r.at, x, r.client, y, r.result, r.moved, r.before)
<1>1. r = Program(r.cmd, r.at, r.n, r.client, r.modules, r.result, r.moved, r.before)
  BY DEF ProgramForm, Program
<1> DEFINE s1 == [r EXCEPT !.n = x]
<1>2. [r EXCEPT !.n = x, !.modules = y] = [s1 EXCEPT !.modules = y]
  OBVIOUS
<1>3. s1 = Program(r.cmd, r.at, x, r.client, r.modules, r.result, r.moved, r.before)
  BY <1>1, ProgramUpdate
<1> HIDE DEF s1
<1>4. s1 = Program(s1.cmd, s1.at, s1.n, s1.client, s1.modules, s1.result, s1.moved, s1.before)
      /\ s1.cmd = r.cmd /\ s1.at = r.at /\ s1.n = x /\ s1.client = r.client
      /\ s1.modules = r.modules /\ s1.result = r.result /\ s1.moved = r.moved /\ s1.before = r.before
  BY <1>3, ProgramFields
<1>5. [s1 EXCEPT !.modules = y] = Program(s1.cmd, s1.at, s1.n, s1.client, y, s1.result, s1.moved, s1.before)
  BY <1>4, ProgramUpdate
<1> QED BY <1>2, <1>5, <1>4

LEMMA FinishUpdate ==
  ASSUME NEW r, ProgramForm(r), NEW x, NEW y
  PROVE  [r EXCEPT !.at = x, !.result = y] = Program(r.cmd, x, r.n, r.client, r.modules, y, r.moved, r.before)
<1>1. r = Program(r.cmd, r.at, r.n, r.client, r.modules, r.result, r.moved, r.before)
  BY DEF ProgramForm, Program
<1> DEFINE s1 == [r EXCEPT !.at = x]
<1>2. [r EXCEPT !.at = x, !.result = y] = [s1 EXCEPT !.result = y]
  OBVIOUS
<1>3. s1 = Program(r.cmd, x, r.n, r.client, r.modules, r.result, r.moved, r.before)
  BY <1>1, ProgramUpdate
<1> HIDE DEF s1
<1>4. s1 = Program(s1.cmd, s1.at, s1.n, s1.client, s1.modules, s1.result, s1.moved, s1.before)
      /\ s1.cmd = r.cmd /\ s1.at = x /\ s1.n = r.n /\ s1.client = r.client
      /\ s1.modules = r.modules /\ s1.result = r.result /\ s1.moved = r.moved /\ s1.before = r.before
  BY <1>3, ProgramFields
<1>5. [s1 EXCEPT !.result = y] = Program(s1.cmd, s1.at, s1.n, s1.client, s1.modules, y, s1.moved, s1.before)
  BY <1>4, ProgramUpdate
<1> QED BY <1>2, <1>5, <1>4

LEMMA ModulesUpdate ==
  ASSUME NEW r, ProgramForm(r), NEW x
  PROVE  [r EXCEPT !.modules = x] = Program(r.cmd, r.at, r.n, r.client, x, r.result, r.moved, r.before)
<1>1. r = Program(r.cmd, r.at, r.n, r.client, r.modules, r.result, r.moved, r.before)
  BY DEF ProgramForm, Program
<1> QED BY <1>1, ProgramUpdate

LEMMA ClosedUpdate ==
  ASSUME NEW r, ProgramForm(r), NEW x, NEW y
  PROVE  [r EXCEPT !.client = x, !.result = y] = Program(r.cmd, r.at, r.n, x, r.modules, y, r.moved, r.before)
<1>1. r = Program(r.cmd, r.at, r.n, r.client, r.modules, r.result, r.moved, r.before)
  BY DEF ProgramForm, Program
<1> DEFINE s1 == [r EXCEPT !.client = x]
<1>2. [r EXCEPT !.client = x, !.result = y] = [s1 EXCEPT !.result = y]
  OBVIOUS
<1>3. s1 = Program(r.cmd, r.at, r.n, x, r.modules, r.result, r.moved, r.before)
  BY <1>1, ProgramUpdate
<1> HIDE DEF s1
<1>4. s1 = Program(s1.cmd, s1.at, s1.n, s1.client, s1.modules, s1.result, s1.moved, s1.before)
      /\ s1.cmd = r.cmd /\ s1.at = r.at /\ s1.n = r.n /\ s1.client = x
      /\ s1.modules = r.modules /\ s1.result = r.result /\ s1.moved = r.moved /\ s1.before = r.before
  BY <1>3, ProgramFields
<1>5. [s1 EXCEPT !.result = y] = Program(s1.cmd, s1.at, s1.n, s1.client, s1.modules, y, s1.moved, s1.before)
  BY <1>4, ProgramUpdate
<1> QED BY <1>2, <1>5, <1>4

LEMMA MovedUpdate ==
  ASSUME NEW r, ProgramForm(r), NEW x
  PROVE  [r EXCEPT !.moved = x] = Program(r.cmd, r.at, r.n, r.client, r.modules, r.result, x, r.before)
<1>1. r = Program(r.cmd, r.at, r.n, r.client, r.modules, r.result, r.moved, r.before)
  BY DEF ProgramForm, Program
<1> QED BY <1>1, ProgramUpdate

LEMMA BeginUpdate ==
  ASSUME NEW r, ProgramForm(r), NEW x, NEW y, NEW z
  PROVE  [r EXCEPT !.at = x, !.before = y, !.moved = z] = Program(r.cmd, x, r.n, r.client, r.modules, r.result, z, y)
<1>1. r = Program(r.cmd, r.at, r.n, r.client, r.modules, r.result, r.moved, r.before)
  BY DEF ProgramForm, Program
<1> DEFINE s1 == [r EXCEPT !.at = x]
           s2 == [s1 EXCEPT !.before = y]
<1>2. [r EXCEPT !.at = x, !.before = y, !.moved = z] = [s2 EXCEPT !.moved = z]
  OBVIOUS
<1>3. s1 = Program(r.cmd, x, r.n, r.client, r.modules, r.result, r.moved, r.before)
  BY <1>1, ProgramUpdate
<1> HIDE DEF s1
<1>4. s1 = Program(s1.cmd, s1.at, s1.n, s1.client, s1.modules, s1.result, s1.moved, s1.before)
      /\ s1.cmd = r.cmd /\ s1.at = x /\ s1.n = r.n /\ s1.client = r.client
      /\ s1.modules = r.modules /\ s1.result = r.result /\ s1.moved = r.moved /\ s1.before = r.before
  BY <1>3, ProgramFields
<1>5. [s1 EXCEPT !.before = y] = Program(s1.cmd, s1.at, s1.n, s1.client, s1.modules, s1.result, s1.moved, y)
  BY <1>4, ProgramUpdate
<1>6. s2 = Program(r.cmd, x, r.n, r.client, r.modules, r.result, r.moved, y)
  BY <1>4, <1>5
<1> HIDE DEF s2
<1>7. s2 = Program(s2.cmd, s2.at, s2.n, s2.client, s2.modules, s2.result, s2.moved, s2.before)
      /\ s2.cmd = r.cmd /\ s2.at = x /\ s2.n = r.n /\ s2.client = r.client
      /\ s2.modules = r.modules /\ s2.result = r.result /\ s2.moved = r.moved /\ s2.before = y
  BY <1>6, ProgramFields
<1>8. [s2 EXCEPT !.moved = z] = Program(s2.cmd, s2.at, s2.n, s2.client, s2.modules, s2.result, z, s2.before)
  BY <1>7, ProgramUpdate
<1> QED BY <1>2, <1>8, <1>7

LEMMA MoveUpdate ==
  ASSUME NEW r, ProgramForm(r), NEW x, NEW y
  PROVE  [r EXCEPT !.at = x, !.moved = y] = Program(r.cmd, x, r.n, r.client, r.modules, r.result, y, r.before)
<1>1. r = Program(r.cmd, r.at, r.n, r.client, r.modules, r.result, r.moved, r.before)
  BY DEF ProgramForm, Program
<1> DEFINE s1 == [r EXCEPT !.at = x]
<1>2. [r EXCEPT !.at = x, !.moved = y] = [s1 EXCEPT !.moved = y]
  OBVIOUS
<1>3. s1 = Program(r.cmd, x, r.n, r.client, r.modules, r.result, r.moved, r.before)
  BY <1>1, ProgramUpdate
<1> HIDE DEF s1
<1>4. s1 = Program(s1.cmd, s1.at, s1.n, s1.client, s1.modules, s1.result, s1.moved, s1.before)
      /\ s1.cmd = r.cmd /\ s1.at = x /\ s1.n = r.n /\ s1.client = r.client
      /\ s1.modules = r.modules /\ s1.result = r.result /\ s1.moved = r.moved /\ s1.before = r.before
  BY <1>3, ProgramFields
<1>5. [s1 EXCEPT !.moved = y] = Program(s1.cmd, s1.at, s1.n, s1.client, s1.modules, s1.result, y, s1.before)
  BY <1>4, ProgramUpdate
<1> QED BY <1>2, <1>5, <1>4

LEMMA SessionConstants ==
  /\ Db \in Files /\ "free" \notin Procs /\ MaxSessions \in Nat
  /\ Nothing \in [Files -> 0 .. MaxSessions] /\ \A f \in Files : Nothing[f] = 0
<1>1. FileOrder \in Seq(Files) /\ FileOrder # <<>> /\ "free" \notin Procs /\ MaxSessions \in Nat
  BY SessionAssumption
<1>2. 1 \in DOMAIN FileOrder
  BY <1>1
<1>3. Db \in Files
  BY <1>2 DEF Db, Files, Range
<1> QED BY <1>1, <1>3 DEF Nothing

\* The first file that exists is one that exists.
LEMMA FirstOfFiles ==
  ASSUME NEW files \in [Files -> 0 .. MaxSessions], files # Nothing
  PROVE  FirstOf(files) \in Files /\ files[FirstOf(files)] # 0
<1> DEFINE T == {i \in DOMAIN FileOrder : files[FileOrder[i]] # 0}
<1>1. FileOrder \in Seq(Files)
  BY SessionAssumption
<1>2. T \in SUBSET Nat
  BY <1>1
<1>3. \E f \in Files : files[f] # 0
  BY SessionConstants DEF Nothing
<1>4. T # {}
  BY <1>3 DEF Files, Range
<1>5. \E x \in T : \A y \in T : x <= y
  <2> HIDE DEF T
  <2> QED BY <1>2, <1>4, LeastNatural
<1>6. Min(T) \in T
  <2> HIDE DEF T
  <2> QED BY <1>5, Zenon DEF Min
<1>7. Min(T) \in DOMAIN FileOrder /\ files[FileOrder[Min(T)]] # 0
  BY <1>6
<1>8. FirstOf(files) = FileOrder[Min(T)]
  BY DEF FirstOf
<1> QED BY <1>7, <1>8 DEF Files, Range

LEMMA NoCommandForm ==
  ASSUME NEW c, NEW a \in Stages
  PROVE  /\ NoCommand = Program("none", "idle", 1, FALSE, FALSE, "none", <<>>, Nothing)
         /\ [NoCommand EXCEPT !.cmd = c, !.at = a] = Program(c, a, 1, FALSE, FALSE, "none", <<>>, Nothing)
<1>1. NoCommand = Program("none", "idle", 1, FALSE, FALSE, "none", <<>>, Nothing)
  BY DEF NoCommand, Program
<1>2. ASSUME NEW cl, NEW mo
      PROVE  [Program("none", "idle", 1, cl, mo, "none", <<>>, Nothing) EXCEPT !.cmd = c] =
             Program(c, "idle", 1, cl, mo, "none", <<>>, Nothing)
  BY DEF Program
<1>3. ASSUME NEW cl, NEW mo
      PROVE  [Program(c, "idle", 1, cl, mo, "none", <<>>, Nothing) EXCEPT !.at = a] =
             Program(c, a, 1, cl, mo, "none", <<>>, Nothing)
  BY DEF Program
<1>4. [NoCommand EXCEPT !.cmd = c, !.at = a] = [[NoCommand EXCEPT !.cmd = c] EXCEPT !.at = a]
  OBVIOUS
<1> QED BY <1>1, <1>2, <1>3, <1>4, Zenon

\* A step of one process: whoever else holds the lock sees its files unchanged.
LEMMA OneProgram ==
  ASSUME SessionStrong, NEW p \in Procs, NEW r,
         program' = [program EXCEPT ![p] = r], ProgramForm(r), HeldForm(p, program[p])', FilesForm(program[p])',
         \/ lock' = lock
         \/ lock \in {p, "free"} /\ lock' \in {p, "free"},
         UNCHANGED <<live, dirs>> \/ lock = p, stored' \in {"absent", "whole"}, SessionFiles'
  PROVE  SessionStrong'
<1>1. DOMAIN program' = Procs /\ program'[p] = r /\ lock' \in Procs \cup {"free"}
  BY DEF SessionStrong
<1>2. ASSUME NEW q \in Procs, q # p
      PROVE  ProgramForm(program'[q]) /\ HeldForm(q, program[q])' /\ FilesForm(program[q])'
  <2>1. program'[q] = program[q]
    BY <1>2 DEF SessionStrong
  <2>2. ProgramForm(program[q]) /\ HeldForm(q, program[q]) /\ FilesForm(program[q])
    BY DEF SessionStrong
  <2>3. CASE program[q].at \in Holding
    <3>1. lock = q /\ q # "free"
      BY <2>2, <2>3, SessionConstants DEF HeldForm
    <3>2. lock' = q /\ UNCHANGED <<live, dirs>>
      BY <1>2, <3>1
    <3>3. HeldForm(q, program[q])'
      BY <2>1, <2>2, <3>2 DEF HeldForm
    <3>4. FilesForm(program[q])'
      BY <2>1, <2>2, <3>2 DEF FilesForm, RecoverForm, BackupForm, ResetForm, Staged, Current
    <3> QED BY <2>1, <2>2, <3>3, <3>4
  <2>4. CASE program[q].at \notin Holding
    <3>1. program[q].at \notin {"recovering", "list", "moving", "rollback", "release"}
      BY <2>4 DEF Holding, Stages
    <3>2. FilesForm(program[q])'
      BY <2>1, <3>1 DEF FilesForm, RecoverForm, BackupForm, ResetForm
    <3>3. HeldForm(q, program[q])'
      BY <2>1, <2>2, <2>4 DEF HeldForm
    <3> QED BY <2>1, <2>2, <3>2, <3>3
  <2> QED BY <2>3, <2>4
<1>3. ASSUME NEW q \in Procs
      PROVE  ProgramForm(program'[q]) /\ HeldForm(q, program[q])' /\ FilesForm(program[q])'
  BY <1>1, <1>2
<1> QED BY <1>1, <1>3 DEF SessionStrong, ProgramForm, HeldForm, FilesForm

\* A step that leaves the files alone and enters no stage that says something of them.
LEMMA QuietStep ==
  ASSUME SessionStrong, NEW p \in Procs, NEW r,
         program' = [program EXCEPT ![p] = r], ProgramForm(r), HeldForm(p, program[p])',
         \/ lock' = lock
         \/ lock \in {p, "free"} /\ lock' \in {p, "free"},
         UNCHANGED fileVars, stored' \in {"absent", "whole"},
         r.at \notin {"recovering", "list", "moving", "rollback"},
         r.at = "release" => r.result \notin {"published", "undone"}
  PROVE  SessionStrong'
<1>1. SessionFiles'
  BY DEF SessionStrong, SessionFiles, fileVars, SessionNeverLost, Staged
<1>2. program'[p] = r
  BY DEF SessionStrong
<1>3. FilesForm(program[p])'
  BY <1>2 DEF FilesForm, RecoverForm, BackupForm, ResetForm
<1> QED BY <1>1, <1>3, OneProgram DEF fileVars

LEMMA GoToForm ==
  ASSUME SessionStrong, NEW p \in Procs, NEW x \in Stages, GoTo(p, x)
  PROVE  \E r : /\ program' = [program EXCEPT ![p] = r] /\ program'[p] = r /\ ProgramForm(r) /\ r.at = x
                /\ r.client = program[p].client /\ r.modules = program[p].modules
                /\ r.result = program[p].result /\ r.moved = program[p].moved /\ r.before = program[p].before
<1> DEFINE s == program[p]
           r == Program(s.cmd, x, s.n, s.client, s.modules, s.result, s.moved, s.before)
<1>1. ProgramForm(s) /\ DOMAIN program = Procs
  BY DEF SessionStrong
<1>2. [s EXCEPT !.at = x] = r
  BY <1>1, AtUpdate
<1>3. program' = [program EXCEPT ![p] = [s EXCEPT !.at = x]]
  BY DEF GoTo
<1>4. program' = [program EXCEPT ![p] = r] /\ program'[p] = r
  BY <1>1, <1>2, <1>3
<1>5. ProgramForm(r)
  <2>1. s.client \in BOOLEAN /\ s.modules \in BOOLEAN /\ s.before \in [Files -> 0 .. MaxSessions]
    BY <1>1 DEF ProgramForm
  <2> QED BY <2>1, ProgramFormed
<1>6. r.at = x /\ r.client = s.client /\ r.modules = s.modules /\ r.result = s.result /\ r.moved = s.moved
      /\ r.before = s.before
  BY ProgramFields
<1> QED BY <1>4, <1>5, <1>6

Ended(s, y, x) == [s EXCEPT !.at = y, !.result = x]

LEMMA FinishForm ==
  ASSUME NEW s, ProgramForm(s), NEW x, NEW y \in Stages, NEW r, r = Ended(s, y, x)
  PROVE  /\ ProgramForm(r) /\ r.at = y /\ r.client = s.client /\ r.modules = s.modules
         /\ r.result = x /\ r.moved = s.moved /\ r.before = s.before
<1>1. r = Program(s.cmd, y, s.n, s.client, s.modules, x, s.moved, s.before)
  BY FinishUpdate DEF Ended
<1>2. s.client \in BOOLEAN /\ s.modules \in BOOLEAN /\ s.before \in [Files -> 0 .. MaxSessions]
  BY DEF ProgramForm
<1>3. ProgramForm(r)
  BY <1>1, <1>2, ProgramFormed
<1>4. r.at = y /\ r.client = s.client /\ r.modules = s.modules /\ r.result = x /\ r.moved = s.moved
      /\ r.before = s.before
  BY <1>1, ProgramFields
<1> QED BY <1>3, <1>4

Fresh(c, a) == [NoCommand EXCEPT !.cmd = c, !.at = a]

LEMMA FreshForm ==
  ASSUME NEW c, NEW a \in Stages, NEW r, r = Fresh(c, a) \/ (r = NoCommand /\ a = "idle")
  PROVE  ProgramForm(r) /\ r.at = a /\ ~r.client /\ ~r.modules /\ r.result = "none" /\ r.moved = <<>>
<1>0. PICK no \in BOOLEAN : no = FALSE
  BY Zenon
<1>u. ASSUME NEW d, r = Program(d, a, 1, no, no, "none", <<>>, Nothing)
      PROVE  ProgramForm(r) /\ r.at = a /\ ~r.client /\ ~r.modules /\ r.result = "none" /\ r.moved = <<>>
  <2>1. ProgramForm(r)
    BY <1>u, ProgramFormed, SessionConstants
  <2>2. r.at = a /\ r.client = no /\ r.modules = no /\ r.result = "none" /\ r.moved = <<>>
    BY <1>u, ProgramFields
  <2> QED BY <1>0, <2>1, <2>2, Zenon
<1>1. CASE r = Fresh(c, a)
  <2>1. r = Program(c, a, 1, no, no, "none", <<>>, Nothing)
    BY <1>0, <1>1, NoCommandForm, Zenon DEF Fresh
  <2> QED BY <2>1, <1>u
<1>2. CASE r = NoCommand /\ a = "idle"
  <2>1. r = Program("none", a, 1, no, no, "none", <<>>, Nothing)
    BY <1>0, <1>2, NoCommandForm, Zenon
  <2> QED BY <2>1, <1>u
<1> QED BY <1>1, <1>2

\* A command that starts afresh, or ends, and gives back the lock if it has it.
LEMMA FreshStep ==
  ASSUME SessionStrong, NEW p \in Procs, NEW c, NEW a \in {"idle", "credentials", "lock"}, NEW r,
         program' = [program EXCEPT ![p] = r], r = Fresh(c, a) \/ (r = NoCommand /\ a = "idle"),
         \/ lock' = lock
         \/ lock = p /\ lock' = "free",
         UNCHANGED fileVars, stored' \in {"absent", "whole"}
  PROVE  SessionStrong'
<1>1. a \in Stages
  BY DEF Stages
<1>2. ProgramForm(r) /\ r.at = a /\ ~r.client /\ ~r.modules /\ r.result = "none" /\ r.moved = <<>>
  BY <1>1, FreshForm
<1>3. program'[p] = r
  BY DEF SessionStrong
<1>4. HeldForm(p, program[p])'
  BY <1>2, <1>3 DEF HeldForm, Holding
<1> QED BY <1>2, <1>4, QuietStep

\* A command that goes on to a stage without files.
LEMMA GoToStep ==
  ASSUME SessionStrong, NEW p \in Procs, NEW x \in Stages, GoTo(p, x),
         x \notin {"startup", "release", "recovering", "list", "moving", "rollback"},
         x \in Holding => lock' = p, program[p].client => x = "stopping",
         x \in {"credentials", "lock", "recover"} => program[p].moved = <<>>,
         x \in {"stopping", "unlock"} \/ program[p].result = "none",
         \/ lock' = lock
         \/ lock = "free" /\ lock' = p,
         UNCHANGED fileVars, stored' \in {"absent", "whole"}
  PROVE  SessionStrong'
<1>1. PICK r : /\ program' = [program EXCEPT ![p] = r] /\ program'[p] = r /\ ProgramForm(r) /\ r.at = x
               /\ r.client = program[p].client /\ r.modules = program[p].modules
               /\ r.result = program[p].result /\ r.moved = program[p].moved /\ r.before = program[p].before
  BY GoToForm
<1>2. HeldForm(p, program[p])'
  BY <1>1 DEF HeldForm, SessionStrong
<1> QED BY <1>1, <1>2, QuietStep

LEMMA EndStep ==
  ASSUME SessionStrong, NEW p \in Procs, End(p), lock' = lock \/ (lock = p /\ lock' = "free"),
         UNCHANGED fileVars, stored' \in {"absent", "whole"}
  PROVE  SessionStrong'
<1>1. program' = [program EXCEPT ![p] = NoCommand]
  BY DEF End
<1> DEFINE a == "idle"
           r == NoCommand
<1>2. a \in {"idle", "credentials", "lock"} /\ r = NoCommand /\ a = "idle" /\ program' = [program EXCEPT ![p] = r]
  BY <1>1
<1> HIDE DEF a, r
<1> QED BY <1>2, FreshStep

LEMMA FinishStep ==
  ASSUME SessionStrong, NEW p \in Procs, NEW x, Finish(p, x), x \notin {"published", "undone"},
         program[p].at \in {"recover", "recovering", "list", "moving", "rollback", "remove"},
         UNCHANGED <<fileVars, lock>>, stored' \in {"absent", "whole"}
  PROVE  SessionStrong'
<1>0. ProgramForm(program[p]) /\ "release" \in Stages /\ DOMAIN program = Procs
  BY DEF SessionStrong, Stages
<1>1. PICK r : r = Ended(program[p], "release", x)
  OBVIOUS
<1>p. program' = [program EXCEPT ![p] = r] /\ program'[p] = r
  BY <1>0, <1>1 DEF Finish, Ended
<1>r. /\ ProgramForm(r) /\ r.at = "release" /\ r.client = program[p].client /\ r.modules = program[p].modules
      /\ r.result = x
  BY <1>0, <1>1, FinishForm
<1>2. lock = p /\ ~program[p].client /\ ~program[p].modules
  BY DEF SessionStrong, HeldForm, Holding, Stages
<1>3. HeldForm(p, program[p])'
  BY <1>p, <1>r, <1>2 DEF HeldForm
<1> QED BY <1>p, <1>r, <1>3, QuietStep

LEMMA ParseCliSession ==
  ASSUME SessionStrong, NEW p \in Procs, ParseCli(p)
  PROVE  SessionStrong'
<1>1. PICK cmd \in {"run", "auth", "reset", "logout", "doctor"} :
         program' = [program EXCEPT ![p] = Fresh(cmd, IF cmd \in {"run", "auth"} THEN "credentials" ELSE "lock")]
  BY DEF ParseCli, Fresh
<1>2. UNCHANGED <<fileVars, lock>> /\ stored' \in {"absent", "whole"}
  BY DEF ParseCli, noteVars, SessionStrong
<1> DEFINE a == IF cmd \in {"run", "auth"} THEN "credentials" ELSE "lock"
           r == Fresh(cmd, a)
<1>3. a \in {"idle", "credentials", "lock"} /\ r = Fresh(cmd, a) /\ program' = [program EXCEPT ![p] = r]
  BY <1>1
<1> HIDE DEF a, r
<1> QED BY <1>2, <1>3, FreshStep

LEMMA CredentialsSession ==
  ASSUME SessionStrong, CredentialsReset \/ \E p \in Procs : ResolveOrOnboard(p)
  PROVE  SessionStrong'
<1>1. CASE CredentialsReset
  <2>1. UNCHANGED <<program, lock, fileVars>> /\ stored' = "absent"
    BY <1>1 DEF CredentialsReset
  <2>2. UNCHANGED <<live, dirs, sessions, erased>>
    BY <2>1 DEF fileVars
  <2>3. SessionFiles'
    BY <2>2 DEF SessionStrong, SessionFiles, SessionNeverLost, Staged
  <2>4. ASSUME NEW p \in Procs
        PROVE  ProgramForm(program'[p]) /\ HeldForm(p, program[p])' /\ FilesForm(program[p])'
    BY <2>1, <2>2 DEF SessionStrong, HeldForm, FilesForm, RecoverForm, BackupForm, ResetForm, Staged, Current
  <2> QED BY <2>1, <2>3, <2>4 DEF SessionStrong, ProgramForm, HeldForm, FilesForm
<1>2. ASSUME NEW p \in Procs, ResolveOrOnboard(p)
      PROVE  SessionStrong'
  <2>1. UNCHANGED <<fileVars, lock>> /\ program[p].at = "credentials"
    BY <1>2 DEF ResolveOrOnboard
  <2>2. stored' \in {"absent", "whole"} /\ (GoTo(p, "lock") \/ End(p))
    BY <1>2 DEF ResolveOrOnboard, Onboard, SaveCredentials, SessionStrong
  <2>3. program[p].moved = <<>> /\ ~program[p].client /\ program[p].result = "none"
    BY <2>1 DEF SessionStrong, HeldForm
  <2>4. "lock" \in Stages /\ "lock" \notin Holding
    BY DEF Stages, Holding
  <2>5. CASE GoTo(p, "lock")
    BY <2>1, <2>2, <2>3, <2>4, <2>5, GoToStep
  <2>6. CASE End(p)
    BY <2>1, <2>2, <2>6, EndStep
  <2> QED BY <2>2, <2>5, <2>6
<1> QED BY <1>1, <1>2

LEMMA LockSession ==
  ASSUME SessionStrong, NEW p \in Procs, Acquire(p) \/ Release(p)
  PROVE  SessionStrong'
<1>0. UNCHANGED fileVars /\ stored' \in {"absent", "whole"}
  BY DEF Acquire, Release, noteVars, SessionStrong
<1>1. CASE Acquire(p)
  <2>1. program[p].moved = <<>> /\ ~program[p].client /\ program[p].result = "none"
    BY <1>1 DEF Acquire, SessionStrong, HeldForm
  <2>2. CASE lock = "free" /\ lock' = p /\ GoTo(p, AfterLock(program[p].cmd))
    <3>1. CASE program[p].cmd # "doctor" /\ AfterLock(program[p].cmd) # "release"
      <4> DEFINE x == AfterLock(program[p].cmd)
      <4>1. x \in {"open", "recover", "remove"}
        BY <3>1 DEF AfterLock
      <4>2. x \in Stages /\ x \notin {"startup", "release", "recovering", "list", "moving", "rollback"}
        BY <4>1 DEF Stages
      <4> HIDE DEF x
      <4> QED BY <1>0, <2>1, <2>2, <4>2, GoToStep DEF x
    <3>2. CASE AfterLock(program[p].cmd) = "release"
      <4>0. GoTo(p, "release") /\ "release" \in Stages
        BY <2>2, <3>2 DEF Stages
      <4>1. PICK r : /\ program' = [program EXCEPT ![p] = r] /\ program'[p] = r /\ ProgramForm(r) /\ r.at = "release"
                     /\ r.client = program[p].client /\ r.modules = program[p].modules
                     /\ r.result = program[p].result /\ r.moved = program[p].moved /\ r.before = program[p].before
        BY <4>0, GoToForm
      <4>2. program[p].result = "none"
        BY <1>1 DEF Acquire, SessionStrong, HeldForm
      <4>3. HeldForm(p, program[p])'
        BY <2>1, <2>2, <4>1 DEF HeldForm, SessionStrong
      <4> QED BY <1>0, <2>2, <4>1, <4>2, <4>3, QuietStep
    <3> QED BY <3>1, <3>2 DEF AfterLock
  <2>3. CASE End(p) /\ lock' = lock
    BY <1>0, <2>3, EndStep
  <2> QED BY <1>1, <2>2, <2>3 DEF Acquire, LockFree
<1>2. CASE Release(p)
  <2>1. lock = p
    BY <1>2 DEF Release, SessionStrong, HeldForm, Holding, Stages
  <2> QED BY <1>0, <1>2, <2>1, EndStep DEF Release
<1> QED BY <1>1, <1>2

Opened(s, cl) == [s EXCEPT !.at = "startup", !.client = cl]
Advanced(s, k, mo) == [s EXCEPT !.n = k, !.modules = mo]
Stopped(s, mo) == [s EXCEPT !.modules = mo]
Closed(s, cl, x) == [s EXCEPT !.client = cl, !.result = x]

LEMMA OpenedForm ==
  ASSUME NEW s, ProgramForm(s), NEW cl \in BOOLEAN, NEW r, r = Opened(s, cl)
  PROVE  ProgramForm(r) /\ r.at = "startup" /\ r.client = cl /\ r.modules = s.modules /\ r.result = s.result
<1>1. r = Program(s.cmd, "startup", s.n, cl, s.modules, s.result, s.moved, s.before)
  BY OpenUpdate DEF Opened
<1>2. s.modules \in BOOLEAN /\ s.before \in [Files -> 0 .. MaxSessions] /\ "startup" \in Stages
  BY DEF ProgramForm, Stages
<1>3. ProgramForm(r)
  BY <1>1, <1>2, ProgramFormed
<1> QED BY <1>1, <1>3, ProgramFields

LEMMA AdvancedForm ==
  ASSUME NEW s, ProgramForm(s), NEW k, NEW mo \in BOOLEAN, NEW r, r = Advanced(s, k, mo)
  PROVE  ProgramForm(r) /\ r.at = s.at /\ r.client = s.client /\ r.modules = mo /\ r.result = s.result
<1>1. r = Program(s.cmd, s.at, k, s.client, mo, s.result, s.moved, s.before)
  BY StartupUpdate DEF Advanced
<1>2. s.client \in BOOLEAN /\ s.before \in [Files -> 0 .. MaxSessions] /\ s.at \in Stages
  BY DEF ProgramForm
<1>3. ProgramForm(r)
  BY <1>1, <1>2, ProgramFormed
<1> QED BY <1>1, <1>3, ProgramFields

LEMMA StoppedForm ==
  ASSUME NEW s, ProgramForm(s), NEW mo \in BOOLEAN, NEW r, r = Stopped(s, mo)
  PROVE  ProgramForm(r) /\ r.at = s.at /\ r.client = s.client /\ r.modules = mo /\ r.result = s.result
<1>1. r = Program(s.cmd, s.at, s.n, s.client, mo, s.result, s.moved, s.before)
  BY ModulesUpdate DEF Stopped
<1>2. s.client \in BOOLEAN /\ s.before \in [Files -> 0 .. MaxSessions] /\ s.at \in Stages
  BY DEF ProgramForm
<1>3. ProgramForm(r)
  BY <1>1, <1>2, ProgramFormed
<1> QED BY <1>1, <1>3, ProgramFields

LEMMA ClosedForm ==
  ASSUME NEW s, ProgramForm(s), NEW cl \in BOOLEAN, NEW x, NEW r, r = Closed(s, cl, x)
  PROVE  ProgramForm(r) /\ r.at = s.at /\ r.client = cl /\ r.modules = s.modules /\ r.result = x
<1>1. r = Program(s.cmd, s.at, s.n, cl, s.modules, x, s.moved, s.before)
  BY ClosedUpdate DEF Closed
<1>2. s.modules \in BOOLEAN /\ s.before \in [Files -> 0 .. MaxSessions] /\ s.at \in Stages
  BY DEF ProgramForm
<1>3. ProgramForm(r)
  BY <1>1, <1>2, ProgramFormed
<1> QED BY <1>1, <1>3, ProgramFields

LEMMA DirForm ==
  ASSUME dirs \in Seq(SessionDir), NEW d \in DOMAIN dirs
  PROVE  /\ dirs[d] \in SessionDir /\ dirs[d].state \in {"staging", "published", "gone"}
         /\ dirs[d].files \in [Files -> 0 .. MaxSessions] /\ dirs[d] = [state |-> dirs[d].state, files |-> dirs[d].files]
         /\ \A f \in Files : dirs[d].files[f] \in Nat
         /\ DOMAIN dirs = 1 .. Len(dirs) /\ Len(dirs) \in Nat
<1>1. dirs[d] \in SessionDir /\ DOMAIN dirs = 1 .. Len(dirs) /\ Len(dirs) \in Nat
  OBVIOUS
<1>2. /\ dirs[d].state \in {"staging", "published", "gone"} /\ dirs[d].files \in [Files -> 0 .. MaxSessions]
      /\ dirs[d] = [state |-> dirs[d].state, files |-> dirs[d].files]
  BY <1>1 DEF SessionDir
<1>3. \A f \in Files : dirs[d].files[f] \in Nat
  BY <1>2, SessionConstants
<1> QED BY <1>1, <1>2, <1>3

LEMMA ConnectSession ==
  ASSUME SessionStrong, NEW p \in Procs, Connect(p)
  PROVE  SessionStrong'
<1>0. ProgramForm(program[p]) /\ DOMAIN program = Procs /\ program[p].at = "open" /\ lock = p /\ ~program[p].modules
      /\ program[p].result = "none" /\ SessionFiles
  BY DEF SessionStrong, HeldForm, Holding, Stages, Connect
<1>1. UNCHANGED <<lock, dirs, erased>> /\ stored' \in {"absent", "whole"}
  BY DEF Connect, noteVars, SessionStrong
<1>2. PICK cl \in BOOLEAN : cl = TRUE
  BY Zenon
<1>3. PICK r : r = Opened(program[p], cl)
  OBVIOUS
<1>4. r = [program[p] EXCEPT !.at = "startup", !.client = TRUE]
  BY <1>2, <1>3, Zenon DEF Opened
<1>5. program' = [program EXCEPT ![p] = r] /\ program'[p] = r
  BY <1>0, <1>4 DEF Connect
<1>6. ProgramForm(r) /\ r.at = "startup" /\ r.client = cl /\ r.modules = program[p].modules /\ r.result = program[p].result
  BY <1>0, <1>3, OpenedForm
<1>7. r.client
  BY <1>2, <1>6, Zenon
<1>8. HeldForm(p, program[p])'
  BY <1>0, <1>1, <1>5, <1>6, <1>7 DEF HeldForm
<1>9. FilesForm(program[p])'
  BY <1>5, <1>6 DEF FilesForm, RecoverForm, BackupForm, ResetForm
<1>10. SessionFiles'
  <2>1. CASE live[Db] = 0
    <3>1. sessions < MaxSessions /\ sessions' = sessions + 1 /\ live' = [live EXCEPT ![Db] = sessions + 1]
      BY <2>1 DEF Connect
    <3>2. sessions \in Nat /\ sessions' \in 0 .. MaxSessions /\ erased \subseteq 1 .. sessions' /\ live' \in [Files -> 0 .. MaxSessions]
      BY <1>0, <3>1, SessionConstants DEF SessionFiles
    <3>3. /\ \A f \in Files : live'[f] <= sessions'
          /\ \A d \in DOMAIN dirs, f \in Files : dirs[d].files[f] <= sessions'
      <4>1. ASSUME NEW f \in Files PROVE live'[f] <= sessions'
        BY <1>0, <3>1, <3>2 DEF SessionFiles
      <4>2. ASSUME NEW d \in DOMAIN dirs, NEW f \in Files PROVE dirs[d].files[f] <= sessions'
        <5>1. dirs[d].files[f] \in Nat /\ dirs[d].files[f] <= sessions
          BY <1>0, DirForm DEF SessionFiles
        <5> QED BY <3>1, <3>2, <5>1
      <4> QED BY <4>1, <4>2
    <3>4. SessionNeverLost'
      <4> SUFFICES ASSUME NEW s \in (1 .. sessions') \ erased'
                   PROVE  live'[Db] = s \/ \E d \in DOMAIN dirs' : dirs'[d].files[Db] = s
        BY DEF SessionNeverLost
      <4>1. CASE s = sessions + 1
        BY <1>0, <3>1, <4>1, SessionConstants DEF SessionFiles
      <4>2. CASE s # sessions + 1
        <5>1. s \in (1 .. sessions) \ erased /\ s # 0
          BY <1>1, <3>1, <3>2, <4>2
        <5> QED BY <1>0, <1>1, <2>1, <5>1 DEF SessionFiles, SessionNeverLost
      <4> QED BY <4>1, <4>2
    <3> QED BY <1>0, <1>1, <3>2, <3>3, <3>4 DEF SessionFiles, Staged
  <2>2. CASE live[Db] # 0
    BY <1>0, <1>1, <2>2 DEF Connect, SessionFiles, SessionNeverLost, Staged
  <2> QED BY <2>1, <2>2
<1> QED BY <1>0, <1>1, <1>5, <1>6, <1>8, <1>9, <1>10, OneProgram

LEMMA ConnectFailsSession ==
  ASSUME SessionStrong, NEW p \in Procs, ConnectFails(p)
  PROVE  SessionStrong'
<1>0. UNCHANGED <<fileVars, lock>> /\ stored' \in {"absent", "whole"} /\ GoTo(p, "release") /\ "release" \in Stages
  BY DEF ConnectFails, SessionStrong, Stages
<1>1. PICK r : /\ program' = [program EXCEPT ![p] = r] /\ program'[p] = r /\ ProgramForm(r) /\ r.at = "release"
               /\ r.client = program[p].client /\ r.modules = program[p].modules
               /\ r.result = program[p].result /\ r.moved = program[p].moved /\ r.before = program[p].before
  BY <1>0, GoToForm
<1>2. lock = p /\ program[p].result = "none" /\ ~program[p].client /\ ~program[p].modules
  BY DEF ConnectFails, SessionStrong, HeldForm, Holding, Stages
<1>3. HeldForm(p, program[p])'
  BY <1>0, <1>1, <1>2 DEF HeldForm
<1> QED BY <1>0, <1>1, <1>2, <1>3, QuietStep

LEMMA SidecarSession ==
  ASSUME SessionStrong, NEW p \in Procs, Sidecar(p)
  PROVE  SessionStrong'
<1>0. UNCHANGED <<program, lock, dirs, sessions, erased>> /\ stored' \in {"absent", "whole"} /\ SessionFiles /\ DOMAIN program = Procs
  BY DEF Sidecar, noteVars, SessionStrong
<1>1. PICK f \in Files \ {Db} : live' = [live EXCEPT ![f] = IF live[f] = live[Db] THEN 0 ELSE live[Db]]
  BY DEF Sidecar
<1>2. program[p].at \in {"startup", "stopping"} /\ lock = p
  BY DEF Sidecar, SessionStrong, HeldForm, Holding, Stages
<1>3. live' \in [Files -> 0 .. MaxSessions] /\ live'[Db] = live[Db] /\ \A g \in Files : live'[g] <= sessions
  BY <1>0, <1>1, SessionConstants DEF SessionFiles
<1>4. SessionFiles'
  BY <1>0, <1>3 DEF SessionFiles, SessionNeverLost, Staged
<1>5. ASSUME NEW q \in Procs
      PROVE  ProgramForm(program'[q]) /\ HeldForm(q, program[q])' /\ FilesForm(program[q])'
  <2>1. program[q].at \notin {"recovering", "list", "moving", "rollback", "release"}
    <3>1. CASE q = p
      BY <1>2, <3>1
    <3>2. CASE q # p
      <4>1. program[q].at \notin Holding
        BY <1>2, <3>2 DEF SessionStrong, HeldForm
      <4> QED BY <4>1 DEF Holding, Stages
    <3> QED BY <3>1, <3>2
  <2>2. FilesForm(program[q])'
    BY <1>0, <2>1 DEF FilesForm, RecoverForm, BackupForm, ResetForm
  <2> QED BY <1>0, <2>2 DEF SessionStrong, HeldForm
<1> QED BY <1>0, <1>4, <1>5 DEF SessionStrong, ProgramForm, HeldForm, FilesForm

LEMMA StartupSession ==
  ASSUME SessionStrong, NEW p \in Procs, StartupStep(p)
  PROVE  SessionStrong'
<1>0. /\ ProgramForm(program[p]) /\ DOMAIN program = Procs /\ program[p].at = "startup" /\ lock = p
      /\ program[p].client /\ program[p].result = "none"
  BY DEF SessionStrong, HeldForm, Holding, Stages, StartupStep
<1>1. UNCHANGED <<fileVars, lock>> /\ stored' \in {"absent", "whole"}
  BY DEF StartupStep, SessionStrong
<1>2. PICK mo \in BOOLEAN : mo = (program[p].modules \/ Startup[program[p].n] = "startup_enabled")
  BY Zenon
<1>k. PICK k : k = program[p].n + 1
  OBVIOUS
<1>3. PICK r : r = Advanced(program[p], k, mo)
  OBVIOUS
<1>4. r = [program[p] EXCEPT !.n = program[p].n + 1, !.modules = program[p].modules \/ Startup[program[p].n] = "startup_enabled"]
  BY <1>2, <1>k, <1>3, Zenon DEF Advanced
<1>5. program' = [program EXCEPT ![p] = r] /\ program'[p] = r
  BY <1>0, <1>4 DEF StartupStep
<1>6. ProgramForm(r) /\ r.at = program[p].at /\ r.client = program[p].client /\ r.modules = mo /\ r.result = program[p].result
  <2>1. ProgramForm(program[p])
    BY <1>0
  <2> QED BY <1>3, <2>1, AdvancedForm
<1>7. HeldForm(p, program[p])'
  BY <1>0, <1>1, <1>5, <1>6 DEF HeldForm
<1> QED BY <1>0, <1>1, <1>5, <1>6, <1>7, QuietStep

LEMMA ApplicationEndsSession ==
  ASSUME SessionStrong, NEW p \in Procs, ApplicationEnds(p)
  PROVE  SessionStrong'
<1>0. /\ ProgramForm(program[p]) /\ DOMAIN program = Procs /\ program[p].at = "startup" /\ lock = p
      /\ program[p].client /\ "stopping" \in Stages
  BY DEF SessionStrong, HeldForm, Holding, Stages, ApplicationEnds
<1>1. UNCHANGED <<fileVars, lock>> /\ stored' \in {"absent", "whole"}
  BY DEF ApplicationEnds, SessionStrong
<1>2. PICK x : program' = [program EXCEPT ![p].at = "stopping", ![p].result = x]
  BY DEF ApplicationEnds
<1>3. PICK r : r = Ended(program[p], "stopping", x)
  OBVIOUS
<1>4. program' = [program EXCEPT ![p] = r] /\ program'[p] = r
  BY <1>0, <1>2, <1>3 DEF Ended
<1>5. ProgramForm(r) /\ r.at = "stopping" /\ r.client = program[p].client /\ r.modules = program[p].modules
  <2>1. ProgramForm(program[p]) /\ "stopping" \in Stages
    BY <1>0
  <2> QED BY <1>3, <2>1, FinishForm
<1>6. HeldForm(p, program[p])'
  BY <1>0, <1>1, <1>4, <1>5 DEF HeldForm
<1> QED BY <1>1, <1>4, <1>5, <1>6, QuietStep

\* The modules are stopped while there are any, then the client.
LEMMA ShutdownSession ==
  ASSUME SessionStrong, NEW p \in Procs, ShutdownStep(p)
  PROVE  SessionStrong'
<1> DEFINE open == {i \in DOMAIN ShutdownOrder : IF ShutdownOrder[i] = "client" THEN program[p].client
                                                 ELSE program[p].modules}
<1>0. /\ ProgramForm(program[p]) /\ DOMAIN program = Procs /\ program[p].at = "stopping" /\ lock = p
      /\ "unlock" \in Stages /\ program[p].client \in BOOLEAN /\ program[p].modules \in BOOLEAN
      /\ (program[p].modules => program[p].client)
  BY DEF SessionStrong, HeldForm, Holding, Stages, ShutdownStep, ProgramForm
<1>1. UNCHANGED <<fileVars, lock>> /\ stored' \in {"absent", "whole"}
  BY DEF ShutdownStep, noteVars, SessionStrong
<1>2. DOMAIN ShutdownOrder = {1, 2} /\ ShutdownOrder[1] = "modules" /\ ShutdownOrder[2] = "client"
  BY DEF ShutdownOrder
<1>3. open = {} => ~program[p].client
  BY <1>2
<1>4. open # {} /\ ShutdownOrder[Min(open)] # "modules" => ~program[p].modules
  <2> SUFFICES ASSUME open # {}, program[p].modules
               PROVE  ShutdownOrder[Min(open)] = "modules"
    OBVIOUS
  <2>1. 1 \in open /\ open \subseteq {1, 2}
    BY <1>2
  <2>2. \E x \in open : \A y \in open : x <= y
    BY <2>1
  <2>3. Min(open) \in open /\ \A y \in open : Min(open) <= y
    <3> HIDE DEF open
    <3> QED BY <2>2, Zenon DEF Min
  <2>4. Min(open) = 1
    <3>1. PICK m : m = Min(open)
      OBVIOUS
    <3>2. m \in {1, 2} /\ m <= 1
      BY <2>1, <2>3, <3>1, Zenon
    <3> QED BY <3>1, <3>2
  <2> QED BY <1>2, <2>4
<1>5. \/ open = {} /\ GoTo(p, "unlock")
      \/ open # {} /\ ShutdownOrder[Min(open)] = "modules" /\ program' = [program EXCEPT ![p].modules = FALSE]
      \/ /\ open # {} /\ ShutdownOrder[Min(open)] # "modules"
         /\ \E clean \in BOOLEAN : program' = [program EXCEPT ![p].client = FALSE, ![p].result = Combine(@, clean)]
  BY DEF ShutdownStep
<1> HIDE DEF open
<1>no. PICK no \in BOOLEAN : no = FALSE
  BY Zenon
<1>6. CASE open = {} /\ GoTo(p, "unlock")
  <2>1. "unlock" \notin {"startup", "release", "recovering", "list", "moving", "rollback"}
    OBVIOUS
  <2> QED BY <1>0, <1>1, <1>3, <1>6, <2>1, GoToStep
<1>7. CASE program' = [program EXCEPT ![p].modules = FALSE]
  <2>1. PICK r : r = Stopped(program[p], no)
    OBVIOUS
  <2>2. r = [program[p] EXCEPT !.modules = FALSE]
    BY <1>no, <2>1, Zenon DEF Stopped
  <2>3. program' = [program EXCEPT ![p] = r] /\ program'[p] = r
    BY <1>0, <1>7, <2>2
  <2>4. ProgramForm(r) /\ r.at = program[p].at /\ r.client = program[p].client /\ r.modules = no
    BY <1>0, <2>1, StoppedForm
  <2>5. ~r.modules
    BY <1>no, <2>4, Zenon
  <2>6. HeldForm(p, program[p])'
    BY <1>0, <1>1, <2>3, <2>4, <2>5 DEF HeldForm
  <2> QED BY <1>0, <1>1, <2>3, <2>4, <2>6, QuietStep
<1>8. ASSUME NEW clean \in BOOLEAN, ~program[p].modules,
             program' = [program EXCEPT ![p].client = FALSE, ![p].result = Combine(@, clean)]
      PROVE  SessionStrong'
  <2>1. PICK r : r = Closed(program[p], no, Combine(program[p].result, clean))
    OBVIOUS
  <2>2. r = [program[p] EXCEPT !.client = FALSE, !.result = Combine(program[p].result, clean)]
    BY <1>no, <2>1, Zenon DEF Closed
  <2>3. program' = [program EXCEPT ![p] = r] /\ program'[p] = r
    BY <1>0, <1>8, <2>2
  <2>4. ProgramForm(r) /\ r.at = program[p].at /\ r.client = no /\ r.modules = program[p].modules
    BY <1>0, <2>1, ClosedForm
  <2>5. ~r.client
    BY <1>no, <2>4, Zenon
  <2>6. HeldForm(p, program[p])'
    BY <1>0, <1>1, <1>8, <2>3, <2>4, <2>5 DEF HeldForm
  <2> QED BY <1>0, <1>1, <2>3, <2>4, <2>6, QuietStep
<1> QED BY <1>4, <1>5, <1>6, <1>7, <1>8

LEMMA UnlockSession ==
  ASSUME SessionStrong, NEW p \in Procs, Unlock(p) \/ Killed(p)
  PROVE  SessionStrong'
<1>0. UNCHANGED fileVars /\ stored' \in {"absent", "whole"}
  BY DEF Unlock, Killed, noteVars, SessionStrong
<1>1. CASE Unlock(p)
  <2>1. lock = p /\ lock' = "free"
    BY <1>1 DEF Unlock, SessionStrong, HeldForm, Holding, Stages
  <2>2. CASE End(p)
    BY <1>0, <2>1, <2>2, EndStep
  <2>3. CASE program' = [program EXCEPT ![p] = Fresh(program[p].cmd, "credentials")]
    <3>1. PICK c, r : r = Fresh(c, "credentials") /\ program' = [program EXCEPT ![p] = r]
      BY <2>3
    <3>2. PICK a \in {"idle", "credentials", "lock"} : a = "credentials"
      OBVIOUS
    <3>3. r = Fresh(c, a)
      BY <3>1, <3>2
    <3> QED BY <1>0, <2>1, <3>1, <3>3, FreshStep
  <2> QED BY <1>1, <2>2, <2>3 DEF Unlock, Fresh
<1>2. CASE Killed(p)
  BY <1>0, <1>2, EndStep DEF Killed
<1> QED BY <1>1, <1>2

Remembered(s, mv) == [s EXCEPT !.moved = mv]
Moving(s, a, mv) == [s EXCEPT !.at = a, !.moved = mv]
Begun(s, b, mv) == [s EXCEPT !.at = "moving", !.before = b, !.moved = mv]

LEMMA MovingForm ==
  ASSUME NEW s, ProgramForm(s), NEW a \in Stages, NEW mv, NEW r, r = Moving(s, a, mv)
  PROVE  /\ ProgramForm(r) /\ r.at = a /\ r.client = s.client /\ r.modules = s.modules /\ r.result = s.result
         /\ r.moved = mv /\ r.before = s.before
<1>1. r = Program(s.cmd, a, s.n, s.client, s.modules, s.result, mv, s.before)
  BY MoveUpdate DEF Moving
<1>2. s.modules \in BOOLEAN /\ s.client \in BOOLEAN /\ s.before \in [Files -> 0 .. MaxSessions]
  BY DEF ProgramForm
<1>3. ProgramForm(r)
  BY <1>1, <1>2, ProgramFormed
<1> QED BY <1>1, <1>3, ProgramFields

LEMMA RememberedForm ==
  ASSUME NEW s, ProgramForm(s), NEW mv, NEW r, r = Remembered(s, mv)
  PROVE  /\ ProgramForm(r) /\ r.at = s.at /\ r.client = s.client /\ r.modules = s.modules /\ r.result = s.result
         /\ r.moved = mv /\ r.before = s.before
<1>1. r = Program(s.cmd, s.at, s.n, s.client, s.modules, s.result, mv, s.before)
  BY MovedUpdate DEF Remembered
<1>2. s.modules \in BOOLEAN /\ s.client \in BOOLEAN /\ s.before \in [Files -> 0 .. MaxSessions] /\ s.at \in Stages
  BY DEF ProgramForm
<1>3. ProgramForm(r)
  BY <1>1, <1>2, ProgramFormed
<1> QED BY <1>1, <1>3, ProgramFields

LEMMA BegunForm ==
  ASSUME NEW s, ProgramForm(s), NEW mv, NEW b \in [Files -> 0 .. MaxSessions], NEW r, r = Begun(s, b, mv)
  PROVE  /\ ProgramForm(r) /\ r.at = "moving" /\ r.client = s.client /\ r.modules = s.modules /\ r.result = s.result
         /\ r.moved = mv /\ r.before = b
<1>1. r = Program(s.cmd, "moving", s.n, s.client, s.modules, s.result, mv, b)
  BY BeginUpdate DEF Begun
<1>2. s.modules \in BOOLEAN /\ s.client \in BOOLEAN /\ "moving" \in Stages
  BY DEF ProgramForm, Stages
<1>3. ProgramForm(r)
  BY <1>1, <1>2, ProgramFormed
<1> QED BY <1>1, <1>3, ProgramFields

LEMMA NothingIsEmpty ==
  ASSUME NEW files \in [Files -> 0 .. MaxSessions]
  PROVE  files = Nothing <=> \A f \in Files : files[f] = 0
BY DEF Nothing

Replaced(s, i, e) == [s EXCEPT ![i] = e]

LEMMA DirSet ==
  ASSUME dirs \in Seq(SessionDir), NEW d \in DOMAIN dirs, NEW D \in SessionDir, dirs' = Replaced(dirs, d, D)
  PROVE  /\ dirs' \in Seq(SessionDir) /\ DOMAIN dirs' = DOMAIN dirs /\ Len(dirs') = Len(dirs)
         /\ dirs'[d] = D /\ \A e \in DOMAIN dirs : e # d => dirs'[e] = dirs[e]
<1>1. Len(dirs) \in Nat /\ DOMAIN dirs = 1 .. Len(dirs) /\ \A j \in 1 .. Len(dirs) : dirs[j] \in SessionDir
  OBVIOUS
<1>2. DOMAIN dirs' = 1 .. Len(dirs) /\ dirs'[d] = D /\ \A j \in 1 .. Len(dirs) : j # d => dirs'[j] = dirs[j]
  BY <1>1 DEF Replaced
<1>3. dirs' \in [1 .. Len(dirs) -> SessionDir]
  BY <1>1 DEF Replaced
<1>4. dirs' \in Seq(SessionDir)
  BY <1>1, <1>3, SeqDef, Zenon
<1>5. Len(dirs') = Len(dirs)
  BY <1>1, <1>2, <1>4
<1> QED BY <1>1, <1>2, <1>4, <1>5

SetFile(d, f, v) == dirs' = [dirs EXCEPT ![d].files[f] = v]
SetState(d, st) == dirs' = [dirs EXCEPT ![d].state = st]

\* One file of one backup directory changes.
LEMMA FileSet ==
  ASSUME dirs \in Seq(SessionDir), NEW d \in DOMAIN dirs, NEW f \in Files, NEW v \in 0 .. MaxSessions,
         SetFile(d, f, v)
  PROVE  /\ dirs' \in Seq(SessionDir) /\ DOMAIN dirs' = DOMAIN dirs /\ Len(dirs') = Len(dirs) /\ Staged' = Staged
         /\ \A e \in DOMAIN dirs : dirs'[e].files \in [Files -> 0 .. MaxSessions]
         /\ \A e \in DOMAIN dirs, g \in Files :
              dirs'[e].files[g] = IF e = d /\ g = f THEN v ELSE dirs[e].files[g]
<1> DEFINE D == [state |-> dirs[d].state, files |-> [dirs[d].files EXCEPT ![f] = v]]
<1>0. dirs[d] = [state |-> dirs[d].state, files |-> dirs[d].files]
  BY DirForm
<1>x. [dirs[d] EXCEPT !.files = [dirs[d].files EXCEPT ![f] = v]] = D
  BY <1>0
<1>1. dirs' = [dirs EXCEPT ![d] = D]
  <2>1. dirs' = [dirs EXCEPT ![d] = [dirs[d] EXCEPT !.files = [dirs[d].files EXCEPT ![f] = v]]]
    BY DEF SetFile
  <2> HIDE DEF D
  <2> QED BY <1>x, <2>1, Zenon
<1>2. D \in SessionDir
  BY DirForm DEF SessionDir
<1>n. dirs' = Replaced(dirs, d, D)
  <2> HIDE DEF D
  <2> QED BY <1>1, Zenon DEF Replaced
<1>m. /\ dirs' \in Seq(SessionDir) /\ DOMAIN dirs' = DOMAIN dirs /\ Len(dirs') = Len(dirs)
      /\ dirs'[d] = D /\ \A e \in DOMAIN dirs : e # d => dirs'[e] = dirs[e]
  <2> HIDE DEF D
  <2> QED BY <1>n, <1>2, DirSet
<1>3. dirs' \in Seq(SessionDir) /\ DOMAIN dirs' = DOMAIN dirs /\ Len(dirs') = Len(dirs)
  BY <1>m
<1>4. dirs'[d] = D /\ \A e \in DOMAIN dirs : e # d => dirs'[e] = dirs[e]
  BY <1>m
<1>5. D.state = dirs[d].state /\ D.files = [dirs[d].files EXCEPT ![f] = v]
  OBVIOUS
<1>6. \A e \in DOMAIN dirs : dirs'[e].state = dirs[e].state
  BY <1>4, <1>5
<1>7. Staged' = Staged
  BY <1>3, <1>6 DEF Staged
<1>8. \A e \in DOMAIN dirs : dirs[e].files \in [Files -> 0 .. MaxSessions]
  BY DirForm
<1>9. \A g \in Files : D.files[g] = IF g = f THEN v ELSE dirs[d].files[g]
  BY <1>5, <1>8
<1>10. D.files \in [Files -> 0 .. MaxSessions]
  BY <1>5, <1>8
<1> HIDE DEF D
<1> QED BY <1>3, <1>4, <1>7, <1>8, <1>9, <1>10

\* One backup directory is published or removed.
LEMMA StateSet ==
  ASSUME dirs \in Seq(SessionDir), NEW d \in DOMAIN dirs, NEW st \in {"published", "gone"},
         SetState(d, st)
  PROVE  /\ dirs' \in Seq(SessionDir) /\ DOMAIN dirs' = DOMAIN dirs /\ Len(dirs') = Len(dirs) /\ Staged' = Staged \ {d}
         /\ \A e \in DOMAIN dirs : dirs'[e].files = dirs[e].files
<1> DEFINE D == [state |-> st, files |-> dirs[d].files]
<1>0. dirs[d] = [state |-> dirs[d].state, files |-> dirs[d].files]
  BY DirForm
<1>x. [dirs[d] EXCEPT !.state = st] = D
  BY <1>0
<1>1. dirs' = [dirs EXCEPT ![d] = D]
  <2>1. dirs' = [dirs EXCEPT ![d] = [dirs[d] EXCEPT !.state = st]]
    BY DEF SetState
  <2> HIDE DEF D
  <2> QED BY <1>x, <2>1, Zenon
<1>2. D \in SessionDir
  BY DirForm DEF SessionDir
<1>n. dirs' = Replaced(dirs, d, D)
  <2> HIDE DEF D
  <2> QED BY <1>1, Zenon DEF Replaced
<1>m. /\ dirs' \in Seq(SessionDir) /\ DOMAIN dirs' = DOMAIN dirs /\ Len(dirs') = Len(dirs)
      /\ dirs'[d] = D /\ \A e \in DOMAIN dirs : e # d => dirs'[e] = dirs[e]
  <2> HIDE DEF D
  <2> QED BY <1>n, <1>2, DirSet
<1>3. dirs' \in Seq(SessionDir) /\ DOMAIN dirs' = DOMAIN dirs /\ Len(dirs') = Len(dirs)
  BY <1>m
<1>4. dirs'[d] = D /\ \A e \in DOMAIN dirs : e # d => dirs'[e] = dirs[e]
  BY <1>m
<1>5. D.state = st /\ D.files = dirs[d].files
  OBVIOUS
<1> HIDE DEF D
<1>6. Staged' = Staged \ {d}
  BY <1>3, <1>4, <1>5 DEF Staged
<1> QED BY <1>3, <1>4, <1>5, <1>6

\* A file moves from a staging directory to its free path.
LEMMA MoveOutFiles ==
  ASSUME SessionFiles, NEW d \in Staged, NEW f \in Files, MoveOut(d, f), live[f] = 0, UNCHANGED <<sessions, erased>>
  PROVE  /\ SessionFiles' /\ DOMAIN dirs' = DOMAIN dirs /\ Len(dirs') = Len(dirs) /\ Staged' = Staged
         /\ \A e \in DOMAIN dirs : dirs'[e].files \in [Files -> 0 .. MaxSessions]
         /\ \A e \in DOMAIN dirs, g \in Files : dirs'[e].files[g] = IF e = d /\ g = f THEN 0 ELSE dirs[e].files[g]
         /\ \A g \in Files : live'[g] = IF g = f THEN dirs[d].files[f] ELSE live[g]
<1>0. /\ dirs \in Seq(SessionDir) /\ d \in DOMAIN dirs /\ 0 \in 0 .. MaxSessions /\ SetFile(d, f, 0)
      /\ live \in [Files -> 0 .. MaxSessions] /\ live' = [live EXCEPT ![f] = dirs[d].files[f]]
  BY SessionConstants DEF SessionFiles, Staged, MoveOut, SetFile
<1>1. /\ dirs' \in Seq(SessionDir) /\ DOMAIN dirs' = DOMAIN dirs /\ Len(dirs') = Len(dirs) /\ Staged' = Staged
      /\ \A e \in DOMAIN dirs : dirs'[e].files \in [Files -> 0 .. MaxSessions]
      /\ \A e \in DOMAIN dirs, g \in Files : dirs'[e].files[g] = IF e = d /\ g = f THEN 0 ELSE dirs[e].files[g]
  BY <1>0, FileSet
<1>2. \A e \in DOMAIN dirs : dirs[e].files \in [Files -> 0 .. MaxSessions]
  BY <1>0, DirForm
<1>3. live' \in [Files -> 0 .. MaxSessions] /\ \A g \in Files : live'[g] = IF g = f THEN dirs[d].files[f] ELSE live[g]
  BY <1>0, <1>2
<1>4. \A e, x \in Staged' : dirs'[e].files # Nothing /\ dirs'[x].files # Nothing => e = x
  <2>1. ASSUME NEW e \in Staged, dirs'[e].files # Nothing
        PROVE  dirs[e].files # Nothing
    <3>0. e \in DOMAIN dirs
      BY DEF Staged
    <3>1. PICK g \in Files : dirs'[e].files[g] # 0
      BY <1>1, <2>1, <3>0, NothingIsEmpty
    <3>2. dirs[e].files[g] # 0
      BY <1>1, <3>0, <3>1
    <3> QED BY <1>2, <3>0, <3>2, NothingIsEmpty
  <2> QED BY <1>1, <2>1 DEF SessionFiles
<1>5. SessionNeverLost'
  <2> SUFFICES ASSUME NEW s \in (1 .. sessions) \ erased
               PROVE  live'[Db] = s \/ \E e \in DOMAIN dirs' : dirs'[e].files[Db] = s
    BY DEF SessionNeverLost
  <2>0. s # 0 /\ Db \in Files
    BY SessionConstants DEF SessionFiles
  <2>1. CASE live[Db] = s
    BY <1>3, <2>0, <2>1
  <2>2. ASSUME NEW e \in DOMAIN dirs, dirs[e].files[Db] = s
        PROVE  live'[Db] = s \/ \E x \in DOMAIN dirs' : dirs'[x].files[Db] = s
    BY <1>1, <1>3, <2>0, <2>2
  <2> QED BY <2>1, <2>2 DEF SessionFiles, SessionNeverLost
<1>6. /\ \A g \in Files : live'[g] <= sessions
      /\ \A e \in DOMAIN dirs', g \in Files : dirs'[e].files[g] <= sessions
  <2>1. sessions \in Nat /\ 0 <= sessions
    BY SessionConstants DEF SessionFiles
  <2>2. /\ \A g \in Files : live[g] <= sessions
        /\ \A e \in DOMAIN dirs, g \in Files : dirs[e].files[g] <= sessions
    BY DEF SessionFiles
  <2>3. ASSUME NEW g \in Files
        PROVE  live'[g] <= sessions
    BY <1>0, <1>3, <2>1, <2>2
  <2>4. ASSUME NEW e \in DOMAIN dirs, NEW g \in Files
        PROVE  dirs'[e].files[g] <= sessions
    BY <1>0, <1>1, <2>1, <2>2
  <2> QED BY <1>1, <2>3, <2>4
<1> QED BY <1>1, <1>3, <1>4, <1>5, <1>6 DEF SessionFiles

\* A live file moves into the one staging directory, that has no such file.
LEMMA MoveInFiles ==
  ASSUME SessionFiles, NEW d, Staged = {d}, NEW f \in Files, MoveIn(d, f), dirs[d].files[f] = 0, UNCHANGED <<sessions, erased>>
  PROVE  /\ SessionFiles' /\ DOMAIN dirs' = DOMAIN dirs /\ Len(dirs') = Len(dirs) /\ Staged' = Staged
         /\ \A g \in Files : dirs'[d].files[g] = IF g = f THEN live[f] ELSE dirs[d].files[g]
         /\ \A g \in Files : live'[g] = IF g = f THEN 0 ELSE live[g]
<1>0. /\ dirs \in Seq(SessionDir) /\ d \in DOMAIN dirs /\ live[f] \in 0 .. MaxSessions
      /\ SetFile(d, f, live[f])
      /\ live \in [Files -> 0 .. MaxSessions] /\ live' = [live EXCEPT ![f] = 0] /\ 0 \in 0 .. MaxSessions
  BY SessionConstants DEF SessionFiles, Staged, MoveIn, SetFile
<1>1. /\ dirs' \in Seq(SessionDir) /\ DOMAIN dirs' = DOMAIN dirs /\ Len(dirs') = Len(dirs) /\ Staged' = Staged
      /\ \A e \in DOMAIN dirs, g \in Files : dirs'[e].files[g] = IF e = d /\ g = f THEN live[f] ELSE dirs[e].files[g]
  BY <1>0, FileSet
<1>3. live' \in [Files -> 0 .. MaxSessions] /\ \A g \in Files : live'[g] = IF g = f THEN 0 ELSE live[g]
  BY <1>0
<1>5. SessionNeverLost'
  <2> SUFFICES ASSUME NEW s \in (1 .. sessions) \ erased
               PROVE  live'[Db] = s \/ \E e \in DOMAIN dirs' : dirs'[e].files[Db] = s
    BY DEF SessionNeverLost
  <2>0. s # 0 /\ Db \in Files
    BY SessionConstants DEF SessionFiles
  <2>1. CASE live[Db] = s
    BY <1>0, <1>1, <1>3, <2>0, <2>1
  <2>2. ASSUME NEW e \in DOMAIN dirs, dirs[e].files[Db] = s
        PROVE  \E x \in DOMAIN dirs' : dirs'[x].files[Db] = s
    BY <1>1, <2>0, <2>2
  <2> QED BY <2>1, <2>2 DEF SessionFiles, SessionNeverLost
<1>6. /\ \A g \in Files : live'[g] <= sessions
      /\ \A e \in DOMAIN dirs', g \in Files : dirs'[e].files[g] <= sessions
  <2>1. sessions \in Nat /\ 0 <= sessions
    BY SessionConstants DEF SessionFiles
  <2>2. /\ \A g \in Files : live[g] <= sessions
        /\ \A e \in DOMAIN dirs, g \in Files : dirs[e].files[g] <= sessions
    BY DEF SessionFiles
  <2>3. ASSUME NEW g \in Files
        PROVE  live'[g] <= sessions
    BY <1>0, <1>3, <2>1, <2>2
  <2>4. ASSUME NEW e \in DOMAIN dirs, NEW g \in Files
        PROVE  dirs'[e].files[g] <= sessions
    BY <1>0, <1>1, <2>1, <2>2
  <2> QED BY <1>1, <2>3, <2>4
<1>7. \A e, x \in Staged' : dirs'[e].files # Nothing /\ dirs'[x].files # Nothing => e = x
  BY <1>1
<1> QED BY <1>0, <1>1, <1>3, <1>5, <1>6, <1>7 DEF SessionFiles

LEMMA PreflightSession ==
  ASSUME SessionStrong, NEW p \in Procs, RecoverPreflight(p)
  PROVE  SessionStrong'
<1>0. UNCHANGED <<fileVars, lock>> /\ stored' \in {"absent", "whole"} /\ program[p].at = "recover"
  BY DEF RecoverPreflight, noteVars, SessionStrong
<1>1. CASE Finish(p, "conflict")
  <2>1. "conflict" \notin {"published", "undone"}
    OBVIOUS
  <2> QED BY <1>0, <1>1, <2>1, FinishStep
<1>2. CASE ~Conflict /\ GoTo(p, "recovering")
  <2>0. "recovering" \in Stages
    BY DEF Stages
  <2>1. PICK r : /\ program' = [program EXCEPT ![p] = r] /\ program'[p] = r /\ ProgramForm(r) /\ r.at = "recovering"
                 /\ r.client = program[p].client /\ r.modules = program[p].modules
                 /\ r.result = program[p].result /\ r.moved = program[p].moved /\ r.before = program[p].before
    BY <1>2, <2>0, GoToForm
  <2>2. lock = p /\ program[p].moved = <<>> /\ ~program[p].client /\ ~program[p].modules /\ program[p].result = "none"
    BY <1>0 DEF SessionStrong, HeldForm, Holding, Stages
  <2>3. HeldForm(p, program[p])'
    BY <1>0, <2>1, <2>2 DEF HeldForm
  <2>4. UNCHANGED <<live, dirs, sessions, erased>> /\ SessionFiles
    BY <1>0 DEF fileVars, SessionStrong
  <2>5. SessionFiles'
    BY <2>4 DEF SessionFiles, SessionNeverLost, Staged
  <2>6. \A d \in Staged, f \in Files : dirs[d].files[f] # 0 => live[f] = 0
    BY <1>2 DEF Conflict
  <2>7. RecoverForm(program[p])'
    <3>1. <<>> \in Seq((DOMAIN dirs) \X Files) /\ DOMAIN <<>> = {}
      OBVIOUS
    <3>2. program'[p].moved = <<>>
      BY <2>1, <2>2
    <3>3. Staged' = Staged
      BY <2>4 DEF Staged
    <3> QED BY <2>4, <2>6, <3>1, <3>2, <3>3 DEF RecoverForm
  <2>8. FilesForm(program[p])'
    BY <2>1, <2>7 DEF FilesForm, BackupForm, ResetForm
  <2> QED BY <1>0, <2>1, <2>2, <2>3, <2>4, <2>5, <2>8, OneProgram
<1> QED BY <1>1, <1>2 DEF RecoverPreflight

\* A directory leaves the staging state; its files stay.
LEMMA DirLeavesStaging ==
  ASSUME SessionFiles, NEW d \in Staged, NEW st \in {"published", "gone"}, SetState(d, st), UNCHANGED <<live, sessions, erased>>
  PROVE  /\ SessionFiles' /\ DOMAIN dirs' = DOMAIN dirs /\ Len(dirs') = Len(dirs) /\ Staged' = Staged \ {d}
         /\ \A e \in DOMAIN dirs : dirs'[e].files = dirs[e].files
<1>0. dirs \in Seq(SessionDir) /\ d \in DOMAIN dirs
  BY DEF SessionFiles, Staged
<1>1. /\ dirs' \in Seq(SessionDir) /\ DOMAIN dirs' = DOMAIN dirs /\ Len(dirs') = Len(dirs) /\ Staged' = Staged \ {d}
      /\ \A e \in DOMAIN dirs : dirs'[e].files = dirs[e].files
  BY <1>0, StateSet
<1>2. SessionNeverLost'
  BY <1>1 DEF SessionFiles, SessionNeverLost
<1>3. \A e \in Staged' : e \in Staged /\ dirs'[e].files = dirs[e].files
  BY <1>1 DEF Staged
<1> QED BY <1>1, <1>2, <1>3 DEF SessionFiles

LEMMA Appended ==
  ASSUME NEW S, NEW s \in Seq(S), NEW x \in S
  PROVE  /\ Append(s, x) \in Seq(S) /\ Len(s) + 1 \in DOMAIN Append(s, x) /\ Append(s, x)[Len(s) + 1] = x
         /\ \A i \in DOMAIN s : i \in DOMAIN Append(s, x) /\ Append(s, x)[i] = s[i]
         /\ \A i \in DOMAIN Append(s, x) : i \in DOMAIN s \/ i = Len(s) + 1
OBVIOUS

LEMMA RecoverStepSession ==
  ASSUME SessionStrong, NEW p \in Procs, RecoverStep(p)
  PROVE  SessionStrong'
<1>0. /\ ProgramForm(program[p]) /\ DOMAIN program = Procs /\ program[p].at = "recovering" /\ lock = p
      /\ ~program[p].client /\ ~program[p].modules /\ program[p].result = "none" /\ SessionFiles
  BY DEF SessionStrong, HeldForm, Holding, Stages, RecoverStep
<1>1. UNCHANGED <<lock, sessions, erased>> /\ stored' \in {"absent", "whole"}
  BY DEF RecoverStep, noteVars, SessionStrong
<1> DEFINE mv == program[p].moved
<1>f. /\ mv \in Seq((DOMAIN dirs) \X Files)
      /\ \A d \in Staged, f \in Files : dirs[d].files[f] # 0 => live[f] = 0
      /\ \A i \in DOMAIN mv :
           /\ mv[i][1] \in Staged
           /\ dirs[mv[i][1]].files[mv[i][2]] = 0
           /\ \A e \in Staged : dirs[e].files # Nothing => e = mv[i][1]
      /\ \A i, j \in DOMAIN mv : mv[i][1] = mv[j][1]
  BY <1>0 DEF SessionStrong, FilesForm, RecoverForm
<1>2. CASE Staged = {} /\ GoTo(p, "list") /\ UNCHANGED <<live, dirs>>
  <2>0. "list" \in Stages
    BY DEF Stages
  <2>1. PICK r : /\ program' = [program EXCEPT ![p] = r] /\ program'[p] = r /\ ProgramForm(r) /\ r.at = "list"
                 /\ r.client = program[p].client /\ r.modules = program[p].modules
                 /\ r.result = program[p].result /\ r.moved = program[p].moved /\ r.before = program[p].before
    BY <1>2, <2>0, GoToForm
  <2>2. HeldForm(p, program[p])'
    BY <1>0, <1>1, <2>1 DEF HeldForm
  <2>3. SessionFiles' /\ Staged' = {}
    BY <1>0, <1>1, <1>2 DEF SessionFiles, SessionNeverLost, Staged
  <2>4. FilesForm(program[p])'
    BY <2>1, <2>3 DEF FilesForm, RecoverForm, BackupForm, ResetForm
  <2> QED BY <1>0, <1>1, <1>2, <2>1, <2>2, <2>3, <2>4, OneProgram
<1>3. ASSUME NEW mn, NEW r, r = Remembered(program[p], mn), program' = [program EXCEPT ![p] = r],
             SessionFiles', RecoverForm(program[p])'
      PROVE  SessionStrong'
  <2>1. program'[p] = r
    BY <1>0, <1>3
  <2>2. ProgramForm(program[p])
    BY <1>0
  <2>3. /\ ProgramForm(r) /\ r.at = program[p].at /\ r.client = program[p].client /\ r.modules = program[p].modules
        /\ r.result = program[p].result /\ r.moved = mn
    BY <1>3, <2>2, RememberedForm
  <2>4. HeldForm(p, program[p])'
    BY <1>0, <1>1, <2>1, <2>3 DEF HeldForm
  <2>5. FilesForm(program[p])'
    BY <1>0, <1>3, <2>1, <2>3 DEF FilesForm, BackupForm, ResetForm
  <2> QED BY <1>0, <1>1, <1>3, <2>3, <2>4, <2>5, OneProgram
<1>m. ASSUME NEW mn, NEW r, r = Remembered(program[p], mn), program' = [program EXCEPT ![p] = r]
      PROVE  program'[p].moved = mn
  <2>1. ProgramForm(program[p]) /\ program'[p] = r
    BY <1>0, <1>m
  <2> QED BY <1>m, <2>1, RememberedForm
<1>4. ASSUME NEW d \in Staged, Drop(d), UNCHANGED live, program' = [program EXCEPT ![p].moved = <<>>]
      PROVE  SessionStrong'
  <2>1. PICK r : r = Remembered(program[p], <<>>)
    OBVIOUS
  <2>2. program' = [program EXCEPT ![p] = r]
    BY <1>4, <2>1 DEF Remembered
  <2>3. SetState(d, "gone") /\ "gone" \in {"published", "gone"}
    BY <1>4 DEF Drop, SetState
  <2>4. /\ SessionFiles' /\ DOMAIN dirs' = DOMAIN dirs /\ Staged' = Staged \ {d}
        /\ \A e \in DOMAIN dirs : dirs'[e].files = dirs[e].files
    BY <1>0, <1>1, <1>4, <2>3, DirLeavesStaging
  <2>5. program'[p].moved = <<>>
    BY <2>1, <2>2, <1>m
  <2>6. RecoverForm(program[p])'
    <3>1. <<>> \in Seq((DOMAIN dirs') \X Files) /\ DOMAIN <<>> = {}
      OBVIOUS
    <3>2. \A e \in Staged', f \in Files : dirs'[e].files[f] # 0 => live'[f] = 0
      BY <1>f, <1>4, <2>4 DEF Staged
    <3> QED BY <2>5, <3>1, <3>2 DEF RecoverForm
  <2> QED BY <1>3, <2>1, <2>2, <2>4, <2>6
<1>5. ASSUME NEW d \in Staged, NEW f \in Files, dirs[d].files[f] # 0, MoveOut(d, f),
             program' = [program EXCEPT ![p].moved = Append(@, <<d, f>>)]
      PROVE  SessionStrong'
  <2>2. d \in DOMAIN dirs /\ dirs[d].files \in [Files -> 0 .. MaxSessions] /\ dirs \in Seq(SessionDir)
    BY <1>0, DirForm DEF Staged, SessionFiles
  <2>3. f \in Files /\ dirs[d].files[f] # 0 /\ dirs[d].files # Nothing
    BY <1>5, <2>2, NothingIsEmpty
  <2>4. live[f] = 0 /\ MoveOut(d, f)
    BY <1>f, <1>5, <2>3
  <2>5. /\ SessionFiles' /\ DOMAIN dirs' = DOMAIN dirs /\ Len(dirs') = Len(dirs) /\ Staged' = Staged
        /\ \A e \in DOMAIN dirs : dirs'[e].files \in [Files -> 0 .. MaxSessions]
        /\ \A e \in DOMAIN dirs, g \in Files : dirs'[e].files[g] = IF e = d /\ g = f THEN 0 ELSE dirs[e].files[g]
        /\ \A g \in Files : live'[g] = IF g = f THEN dirs[d].files[f] ELSE live[g]
    BY <1>0, <1>1, <2>3, <2>4, MoveOutFiles
  <2>6. PICK mn : mn = Append(mv, <<d, f>>)
    OBVIOUS
  <2>7. PICK r : r = Remembered(program[p], mn)
    OBVIOUS
  <2>8. program' = [program EXCEPT ![p] = r]
    BY <1>5, <2>6, <2>7 DEF Remembered
  <2>9. program'[p].moved = mn
    BY <2>7, <2>8, <1>m
  <2>10. /\ mn \in Seq((DOMAIN dirs) \X Files)
         /\ \A i \in DOMAIN mn : mn[i] = <<d, f>> \/ (i \in DOMAIN mv /\ mn[i] = mv[i])
    <3>1. <<d, f>> \in (DOMAIN dirs) \X Files
      BY <2>2, <2>3
    <3> HIDE DEF mv
    <3> QED BY <1>f, <2>6, <3>1, Appended
  <2>11. \A e \in Staged : e \in DOMAIN dirs /\ (dirs'[e].files # Nothing => dirs[e].files # Nothing)
    <3> SUFFICES ASSUME NEW e \in Staged, dirs'[e].files # Nothing
                 PROVE  dirs[e].files # Nothing
      BY DEF Staged
    <3>1. e \in DOMAIN dirs /\ dirs[e].files \in [Files -> 0 .. MaxSessions]
      BY <2>2, DirForm DEF Staged
    <3>2. PICK g \in Files : dirs'[e].files[g] # 0
      BY <2>5, <3>1, NothingIsEmpty
    <3>3. dirs[e].files[g] # 0
      BY <2>5, <3>1, <3>2
    <3> QED BY <3>1, <3>3, NothingIsEmpty
  <2>12. ASSUME NEW i \in DOMAIN mn
         PROVE  /\ mn[i][1] = d /\ mn[i][2] \in Files /\ dirs'[d].files[mn[i][2]] = 0
    <3>1. CASE mn[i] = <<d, f>>
      BY <2>2, <2>3, <2>5, <3>1
    <3>2. CASE i \in DOMAIN mv /\ mn[i] = mv[i]
      <4>1. d = mv[i][1] /\ dirs[mv[i][1]].files[mv[i][2]] = 0 /\ mv[i] \in (DOMAIN dirs) \X Files
        BY <1>f, <2>3, <3>2
      <4>2. mv[i][2] \in Files
        BY <4>1
      <4> QED BY <2>2, <2>5, <3>2, <4>1, <4>2
    <3> QED BY <2>10, <3>1, <3>2
  <2>13. \A e \in Staged : dirs'[e].files # Nothing => e = d
    BY <1>0, <1>5, <2>3, <2>11 DEF SessionFiles
  <2>14. \A e \in Staged, g \in Files : dirs'[e].files[g] # 0 => live'[g] = 0
    <3> SUFFICES ASSUME NEW e \in Staged, NEW g \in Files, dirs'[e].files[g] # 0
                 PROVE  live'[g] = 0
      OBVIOUS
    <3>1. e \in DOMAIN dirs /\ dirs'[e].files \in [Files -> 0 .. MaxSessions]
      BY <2>5 DEF Staged
    <3>2. dirs'[e].files # Nothing
      BY <3>1, NothingIsEmpty
    <3>3. e = d /\ g # f
      BY <2>2, <2>5, <2>13, <3>2
    <3> QED BY <1>f, <2>2, <2>5, <3>3
  <2>15. RecoverForm(program[p])'
    BY <2>5, <2>9, <2>10, <2>12, <2>13, <2>14 DEF RecoverForm
  <2> QED BY <1>3, <2>5, <2>7, <2>8, <2>15
<1> QED BY <1>2, <1>4, <1>5 DEF RecoverStep

LEMMA FinishFiles ==
  ASSUME SessionStrong, NEW p \in Procs, NEW x, Finish(p, x), SessionFiles',
         program[p].at \in {"recover", "recovering", "list", "moving", "rollback", "remove"},
         UNCHANGED lock, stored' \in {"absent", "whole"},
         x = "published" => live' = Nothing /\ dirs'[Len(dirs')].files = program[p].before,
         x = "undone" => live' = program[p].before
  PROVE  SessionStrong'
<1>0. ProgramForm(program[p]) /\ "release" \in Stages /\ DOMAIN program = Procs
  BY DEF SessionStrong, Stages
<1>1. PICK r : r = Ended(program[p], "release", x)
  OBVIOUS
<1>p. program' = [program EXCEPT ![p] = r] /\ program'[p] = r
  BY <1>0, <1>1 DEF Finish, Ended
<1>r. /\ ProgramForm(r) /\ r.at = "release" /\ r.client = program[p].client /\ r.modules = program[p].modules
      /\ r.result = x /\ r.before = program[p].before
  BY <1>0, <1>1, FinishForm
<1>2. lock = p /\ ~program[p].client /\ ~program[p].modules
  BY DEF SessionStrong, HeldForm, Holding, Stages
<1>3. HeldForm(p, program[p])'
  BY <1>p, <1>r, <1>2 DEF HeldForm
<1>4. FilesForm(program[p])'
  BY <1>p, <1>r DEF FilesForm, RecoverForm, BackupForm, ResetForm, Current
<1> QED BY <1>p, <1>r, <1>2, <1>3, <1>4, OneProgram

LEMMA RecoverFailsSession ==
  ASSUME SessionStrong, NEW p \in Procs, RecoverFails(p)
  PROVE  SessionStrong'
<1> DEFINE mv == program[p].moved
<1>0. /\ program[p].at = "recovering" /\ SessionFiles /\ UNCHANGED <<lock, sessions, erased>>
      /\ stored' \in {"absent", "whole"} /\ Finish(p, "unrecovered")
  BY DEF SessionStrong, RecoverFails, noteVars
<1>f. /\ mv \in Seq((DOMAIN dirs) \X Files)
      /\ \A i \in DOMAIN mv :
           /\ mv[i][1] \in Staged
           /\ dirs[mv[i][1]].files[mv[i][2]] = 0
           /\ \A e \in Staged : dirs[e].files # Nothing => e = mv[i][1]
      /\ \A i, j \in DOMAIN mv : mv[i][1] = mv[j][1]
  BY <1>0 DEF SessionStrong, FilesForm, RecoverForm
<1>1. PICK k \in 0 .. Len(mv) :
        LET back == {mv[i] : i \in Len(mv) - k + 1 .. Len(mv)} IN
        /\ dirs' = [d \in DOMAIN dirs |-> [dirs[d] EXCEPT !.files =
                      [f \in Files |-> IF <<d, f>> \in back THEN live[f] ELSE dirs[d].files[f]]]]
        /\ live' = [f \in Files |-> IF \E b \in back : b[2] = f THEN 0 ELSE live[f]]
  BY DEF RecoverFails
<1> DEFINE back == {mv[i] : i \in Len(mv) - k + 1 .. Len(mv)}
           Restored(d) == [f \in Files |-> IF <<d, f>> \in back THEN live[f] ELSE dirs[d].files[f]]
           PutBack(d) == [state |-> dirs[d].state, files |-> Restored(d)]
<1>2. \A b \in back : \E i \in DOMAIN mv : b = mv[i]
  <2>1. \A i \in Len(mv) - k + 1 .. Len(mv) : i \in DOMAIN mv
    BY <1>f
  <2> QED BY <2>1
<1>3. /\ dirs' = [d \in DOMAIN dirs |-> [dirs[d] EXCEPT !.files = Restored(d)]]
      /\ live' = [f \in Files |-> IF \E b \in back : b[2] = f THEN 0 ELSE live[f]]
  BY <1>1
<1> HIDE DEF back
<1>4. \A b \in back : /\ b[1] \in Staged /\ b[2] \in Files /\ b = <<b[1], b[2]>> /\ dirs[b[1]].files[b[2]] = 0
                      /\ \A e \in Staged : dirs[e].files # Nothing => e = b[1]
  <2> SUFFICES ASSUME NEW b \in back
               PROVE  /\ b[1] \in Staged /\ b[2] \in Files /\ b = <<b[1], b[2]>> /\ dirs[b[1]].files[b[2]] = 0
                      /\ \A e \in Staged : dirs[e].files # Nothing => e = b[1]
    OBVIOUS
  <2>1. PICK i \in DOMAIN mv : b = mv[i]
    BY <1>2
  <2>2. b \in (DOMAIN dirs) \X Files
    BY <1>f, <2>1
  <2> QED BY <1>f, <2>1, <2>2
<1>5. \A b, c \in back : b[1] = c[1]
  BY <1>2, <1>f
<1>d. /\ dirs \in Seq(SessionDir) /\ live \in [Files -> 0 .. MaxSessions] /\ sessions \in Nat
      /\ \A d \in DOMAIN dirs : dirs[d].state \in {"staging", "published", "gone"} /\ dirs[d].files \in [Files -> 0 .. MaxSessions]
      /\ \A d \in DOMAIN dirs : dirs[d] = [state |-> dirs[d].state, files |-> dirs[d].files]
  BY <1>0, DirForm, SessionConstants DEF SessionFiles
<1>6. ASSUME NEW d \in DOMAIN dirs
      PROVE  dirs'[d] = PutBack(d) /\ PutBack(d) \in SessionDir /\ PutBack(d).state = dirs[d].state /\ PutBack(d).files = Restored(d)
  <2>1. dirs'[d] = [dirs[d] EXCEPT !.files = Restored(d)]
    <3> HIDE DEF Restored
    <3> QED BY <1>3
  <2>2. Restored(d) \in [Files -> 0 .. MaxSessions]
    BY <1>d
  <2> HIDE DEF Restored
  <2>3. PutBack(d) \in SessionDir
    BY <1>d, <2>2 DEF SessionDir
  <2>4. dirs'[d] = PutBack(d)
    BY <1>d, <2>1
  <2> QED BY <2>3, <2>4
<1>7. /\ DOMAIN dirs' = DOMAIN dirs /\ dirs' \in Seq(SessionDir) /\ Staged' = Staged
  <2>1. DOMAIN dirs' = DOMAIN dirs /\ DOMAIN dirs = 1 .. Len(dirs) /\ Len(dirs) \in Nat
    <3> HIDE DEF Restored
    <3> QED BY <1>3, <1>d
  <2>2. dirs' = [d \in 1 .. Len(dirs) |-> PutBack(d)]
    <3> HIDE DEF PutBack
    <3>1. dirs' = [d \in DOMAIN dirs |-> dirs'[d]]
      <4> HIDE DEF Restored
      <4> QED BY <1>3
    <3> QED BY <2>1, <1>6, <3>1
  <2>3. dirs' \in [1 .. Len(dirs) -> SessionDir]
    <3> HIDE DEF PutBack
    <3> QED BY <1>6, <2>1, <2>2
  <2>4. dirs' \in Seq(SessionDir)
    <3>1. Len(dirs) \in Nat /\ dirs' \in [1 .. Len(dirs) -> SessionDir]
      BY <2>1, <2>3
    <3>2. dirs' \in UNION {[1 .. n -> SessionDir] : n \in Nat}
      BY <3>1, Zenon
    <3> QED BY <3>2, SeqDef
  <2>5. \A d \in DOMAIN dirs : dirs'[d].state = dirs[d].state
    <3> HIDE DEF PutBack
    <3> QED BY <1>6
  <2> QED BY <2>1, <2>4, <2>5 DEF Staged
<1>8. \A d \in DOMAIN dirs, f \in Files :
        dirs'[d].files[f] = IF <<d, f>> \in back THEN live[f] ELSE dirs[d].files[f]
  <2> SUFFICES ASSUME NEW d \in DOMAIN dirs, NEW f \in Files
               PROVE  dirs'[d].files[f] = IF <<d, f>> \in back THEN live[f] ELSE dirs[d].files[f]
    OBVIOUS
  <2>1. dirs'[d].files = Restored(d)
    <3> HIDE DEF PutBack, Restored
    <3> QED BY <1>6
  <2> QED BY <2>1
<1>9. \A f \in Files : live'[f] = IF \E b \in back : b[2] = f THEN 0 ELSE live[f]
  BY <1>3
<1>10. live' \in [Files -> 0 .. MaxSessions]
  BY <1>3, <1>d, SessionConstants
<1> HIDE DEF Restored, PutBack
<1>11. SessionNeverLost'
  <2> SUFFICES ASSUME NEW s \in (1 .. sessions) \ erased
               PROVE  live'[Db] = s \/ \E e \in DOMAIN dirs' : dirs'[e].files[Db] = s
    BY <1>0 DEF SessionNeverLost
  <2>0. s # 0 /\ Db \in Files
    BY <1>d, SessionConstants
  <2>1. CASE live[Db] = s
    <3>1. CASE \E b \in back : b[2] = Db
      <4>1. PICK b \in back : b[2] = Db
        BY <3>1
      <4>2. b[1] \in DOMAIN dirs /\ <<b[1], Db>> \in back
        BY <1>4, <4>1 DEF Staged
      <4> QED BY <1>7, <1>8, <2>0, <2>1, <4>2
    <3>2. CASE ~\E b \in back : b[2] = Db
      BY <1>9, <2>0, <2>1, <3>2
    <3> QED BY <3>1, <3>2
  <2>2. ASSUME NEW e \in DOMAIN dirs, dirs[e].files[Db] = s
        PROVE  dirs'[e].files[Db] = s
    <3>1. <<e, Db>> \notin back
      <4> SUFFICES ASSUME <<e, Db>> \in back
                   PROVE  FALSE
        OBVIOUS
      <4>1. dirs[e].files[Db] = 0
        BY <1>4
      <4> QED BY <2>0, <2>2, <4>1
    <3> QED BY <1>8, <2>0, <2>2, <3>1
  <2> QED BY <1>0, <1>7, <2>1, <2>2 DEF SessionFiles, SessionNeverLost
<1>12. \A d, e \in Staged' : dirs'[d].files # Nothing /\ dirs'[e].files # Nothing => d = e
  <2>1. ASSUME NEW d \in Staged, dirs'[d].files # Nothing
        PROVE  dirs[d].files # Nothing \/ \E b \in back : b[1] = d
    <3>0. d \in DOMAIN dirs /\ dirs'[d].files \in [Files -> 0 .. MaxSessions]
      <4>1. d \in DOMAIN dirs
        BY DEF Staged
      <4>2. dirs'[d] \in SessionDir
        BY <1>6, <4>1
      <4> QED BY <4>1, <4>2 DEF SessionDir
    <3>1. PICK f \in Files : dirs'[d].files[f] # 0
      BY <2>1, <3>0, NothingIsEmpty
    <3>2. CASE <<d, f>> \in back
      BY <3>2
    <3>3. CASE <<d, f>> \notin back
      <4>1. dirs[d].files[f] # 0
        BY <1>8, <3>0, <3>1, <3>3
      <4> QED BY <1>d, <3>0, <4>1, NothingIsEmpty
    <3> QED BY <3>2, <3>3
  <2>2. \A d, e \in Staged : dirs[d].files # Nothing /\ dirs[e].files # Nothing => d = e
    BY <1>0 DEF SessionFiles
  <2> QED BY <1>4, <1>5, <1>7, <2>1, <2>2
<1>13. /\ \A f \in Files : live'[f] <= sessions
       /\ \A d \in DOMAIN dirs', f \in Files : dirs'[d].files[f] <= sessions
  <2>1. /\ \A f \in Files : live[f] <= sessions
        /\ \A d \in DOMAIN dirs, f \in Files : dirs[d].files[f] <= sessions
        /\ 0 <= sessions
    BY <1>0, <1>d DEF SessionFiles
  <2> QED BY <1>7, <1>8, <1>9, <2>1
<1>14. SessionFiles'
  BY <1>0, <1>7, <1>10, <1>11, <1>12, <1>13 DEF SessionFiles
<1>15. "unrecovered" \notin {"published", "undone"}
  OBVIOUS
<1> QED BY <1>0, <1>14, <1>15, FinishFiles

LEMMA BeginBackupSession ==
  ASSUME SessionStrong, NEW p \in Procs, BeginBackup(p)
  PROVE  SessionStrong'
<1>0. /\ ProgramForm(program[p]) /\ DOMAIN program = Procs /\ program[p].at = "list" /\ lock = p
      /\ ~program[p].client /\ ~program[p].modules /\ program[p].result = "none" /\ SessionFiles /\ Staged = {}
  BY DEF SessionStrong, HeldForm, Holding, Stages, BeginBackup, FilesForm, BackupForm
<1>1. UNCHANGED <<lock, live, sessions, erased>> /\ stored' \in {"absent", "whole"}
  BY DEF BeginBackup, noteVars, SessionStrong
<1>2. CASE Finish(p, "none") /\ dirs' = dirs
  <2>1. "none" \notin {"published", "undone"} /\ UNCHANGED fileVars
    BY <1>1, <1>2 DEF fileVars
  <2> QED BY <1>0, <1>1, <1>2, <2>1, FinishStep
<1>3. CASE /\ dirs' = Append(dirs, StagingDirectory)
           /\ program' = [program EXCEPT ![p].at = "moving", ![p].before = live, ![p].moved = <<>>]
  <2>1. PICK r : r = Begun(program[p], live, <<>>)
    OBVIOUS
  <2>2. program' = [program EXCEPT ![p] = r] /\ program'[p] = r
    BY <1>0, <1>3, <2>1 DEF Begun
  <2>3. ProgramForm(program[p]) /\ live \in [Files -> 0 .. MaxSessions]
    BY <1>0 DEF SessionFiles
  <2>4. /\ ProgramForm(r) /\ r.at = "moving" /\ r.client = program[p].client /\ r.modules = program[p].modules
        /\ r.result = program[p].result /\ r.moved = <<>> /\ r.before = live
    BY <2>1, <2>3, BegunForm
  <2>5. HeldForm(p, program[p])'
    BY <1>0, <1>1, <2>2, <2>4 DEF HeldForm
  <2>6. /\ StagingDirectory \in SessionDir /\ StagingDirectory.state = "staging" /\ StagingDirectory.files = Nothing
        /\ dirs \in Seq(SessionDir)
    BY <1>0, SessionConstants DEF StagingDirectory, SessionDir, SessionFiles
  <2>7. PICK n : n = Len(dirs) + 1
    OBVIOUS
  <2>8. /\ dirs' \in Seq(SessionDir) /\ n \in DOMAIN dirs' /\ dirs'[n] = StagingDirectory /\ Len(dirs') = n /\ n # 0
        /\ \A e \in DOMAIN dirs : e \in DOMAIN dirs' /\ dirs'[e] = dirs[e]
        /\ \A e \in DOMAIN dirs' : e \in DOMAIN dirs \/ e = n
    <3>1. Len(Append(dirs, StagingDirectory)) = Len(dirs) + 1 /\ Len(dirs) \in Nat
      BY <2>6
    <3> QED BY <1>3, <2>6, <2>7, <3>1, Appended
  <2>9. Staged' = {n}
    BY <1>0, <2>6, <2>8 DEF Staged
  <2>10. SessionNeverLost'
    BY <1>0, <1>1, <2>8 DEF SessionFiles, SessionNeverLost
  <2>11. /\ \A e \in DOMAIN dirs', f \in Files : dirs'[e].files[f] <= sessions
    <3>1. \A e \in DOMAIN dirs, f \in Files : dirs[e].files[f] <= sessions
      BY <1>0 DEF SessionFiles
    <3>2. sessions \in Nat /\ \A f \in Files : StagingDirectory.files[f] = 0
      BY <1>0, <2>6, SessionConstants DEF SessionFiles
    <3> QED BY <2>8, <3>1, <3>2
  <2>12. \A d, e \in Staged' : dirs'[d].files # Nothing /\ dirs'[e].files # Nothing => d = e
    BY <2>9
  <2>13. SessionFiles'
    BY <1>0, <1>1, <2>8, <2>10, <2>11, <2>12 DEF SessionFiles
  <2>14. BackupForm(program[p])'
    <3>1. <<>> \in Seq(Files) /\ DOMAIN <<>> = {} /\ IsInjective(<<>>) /\ \A f \in Files : ~Among(f, <<>>)
      BY DEF IsInjective, Among
    <3>2. \A f \in Files : dirs'[n].files[f] = 0
      BY <2>6, <2>8, SessionConstants
    <3>3. Current' = n
      BY <2>8 DEF Current
    <3>4. program'[p].moved = <<>> /\ program'[p].before = live /\ program'[p].at = "moving"
      BY <2>2, <2>4
    <3> QED BY <1>1, <2>8, <2>9, <3>1, <3>2, <3>3, <3>4 DEF BackupForm
  <2>15. FilesForm(program[p])'
    BY <2>2, <2>4, <2>14 DEF FilesForm, RecoverForm, ResetForm
  <2> QED BY <1>0, <1>1, <2>2, <2>4, <2>5, <2>13, <2>15, OneProgram
<1> QED BY <1>2, <1>3 DEF BeginBackup

\* What is known of a backup that is being made, or rolled back.
LEMMA BackupKnown ==
  ASSUME SessionStrong, NEW p \in Procs, program[p].at \in {"moving", "rollback"}
  PROVE  LET r == program[p] IN
         /\ ProgramForm(r) /\ DOMAIN program = Procs /\ lock = p /\ ~r.client /\ ~r.modules /\ r.result = "none"
         /\ SessionFiles /\ Len(dirs) # 0 /\ Staged = {Len(dirs)} /\ Len(dirs) \in DOMAIN dirs
         /\ r.moved \in Seq(Files) /\ IsInjective(r.moved) /\ r.before \in [Files -> 0 .. MaxSessions]
         /\ live \in [Files -> 0 .. MaxSessions] /\ dirs[Len(dirs)].files \in [Files -> 0 .. MaxSessions]
         /\ \A f \in Files :
              IF Among(f, r.moved)
              THEN live[f] = 0 /\ dirs[Len(dirs)].files[f] = r.before[f] /\ r.before[f] # 0
              ELSE live[f] = r.before[f] /\ dirs[Len(dirs)].files[f] = 0
<1>1. /\ ProgramForm(program[p]) /\ DOMAIN program = Procs /\ lock = p /\ ~program[p].client /\ ~program[p].modules
      /\ program[p].result = "none" /\ SessionFiles /\ BackupForm(program[p])
  BY DEF SessionStrong, HeldForm, Holding, Stages, FilesForm
<1>2. Len(dirs) # 0 /\ Staged = {Len(dirs)}
  BY <1>1 DEF BackupForm, Current
<1>3. Len(dirs) \in DOMAIN dirs
  BY <1>2 DEF Staged
<1>4. program[p].before \in [Files -> 0 .. MaxSessions] /\ live \in [Files -> 0 .. MaxSessions]
      /\ dirs[Len(dirs)].files \in [Files -> 0 .. MaxSessions]
  BY <1>1, <1>3, DirForm DEF ProgramForm, SessionFiles
<1> QED BY <1>1, <1>2, <1>3, <1>4 DEF BackupForm, Current

\* Going to the rollback without moving a file.
LEMMA ToRollback ==
  ASSUME SessionStrong, NEW p \in Procs, program[p].at = "moving", GoTo(p, "rollback"),
         UNCHANGED <<fileVars, lock>>, stored' \in {"absent", "whole"}
  PROVE  SessionStrong'
<1>0. "rollback" \in Stages /\ UNCHANGED <<live, dirs, sessions, erased>>
  BY DEF Stages, fileVars
<1>1. PICK r : /\ program' = [program EXCEPT ![p] = r] /\ program'[p] = r /\ ProgramForm(r) /\ r.at = "rollback"
               /\ r.client = program[p].client /\ r.modules = program[p].modules
               /\ r.result = program[p].result /\ r.moved = program[p].moved /\ r.before = program[p].before
  BY <1>0, GoToForm
<1>2. lock = p /\ ~program[p].client /\ ~program[p].modules /\ program[p].result = "none" /\ SessionFiles /\ BackupForm(program[p])
  BY DEF SessionStrong, HeldForm, Holding, Stages, FilesForm
<1>3. HeldForm(p, program[p])'
  BY <1>1, <1>2 DEF HeldForm
<1>4. SessionFiles'
  BY <1>0, <1>2 DEF SessionFiles, SessionNeverLost, Staged
<1>5. Staged' = Staged /\ Current' = Current
  BY <1>0 DEF Staged, Current
<1>6. BackupForm(program[p])'
  BY <1>0, <1>1, <1>2, <1>5 DEF BackupForm
<1>7. FilesForm(program[p])'
  BY <1>1, <1>6 DEF FilesForm, RecoverForm, ResetForm
<1> QED BY <1>1, <1>2, <1>3, <1>4, <1>7, OneProgram

LEMMA MoveLiveFileSession ==
  ASSUME SessionStrong, NEW p \in Procs, MoveLiveFile(p)
  PROVE  SessionStrong'
<1> DEFINE mv == program[p].moved
           n == Len(dirs)
<1>0. UNCHANGED <<lock, sessions, erased>> /\ stored' \in {"absent", "whole"} /\ program[p].at = "moving" /\ live # Nothing
  BY DEF MoveLiveFile, noteVars, SessionStrong
<1>1. /\ ProgramForm(program[p]) /\ DOMAIN program = Procs /\ lock = p /\ ~program[p].client /\ ~program[p].modules
      /\ program[p].result = "none" /\ SessionFiles /\ n # 0 /\ Staged = {n} /\ n \in DOMAIN dirs
      /\ mv \in Seq(Files) /\ IsInjective(mv) /\ live \in [Files -> 0 .. MaxSessions]
      /\ \A f \in Files :
           IF Among(f, mv)
           THEN live[f] = 0 /\ dirs[n].files[f] = program[p].before[f] /\ program[p].before[f] # 0
           ELSE live[f] = program[p].before[f] /\ dirs[n].files[f] = 0
  BY <1>0, BackupKnown
<1>2. CASE GoTo(p, "rollback") /\ UNCHANGED <<live, dirs>>
  BY <1>0, <1>2, ToRollback DEF fileVars
<1>3. PICK f : f = FirstOf(live)
  OBVIOUS
<1>4. f \in Files /\ live[f] # 0 /\ ~Among(f, mv) /\ dirs[n].files[f] = 0 /\ live[f] = program[p].before[f]
  BY <1>0, <1>1, <1>3, FirstOfFiles
<1>5. ASSUME NEW next \in {"moving", "rollback"}, MoveIn(n, f),
             program' = [program EXCEPT ![p].at = next, ![p].moved = Append(@, f)]
      PROVE  SessionStrong'
  <2>1. PICK mn : mn = Append(mv, f)
    OBVIOUS
  <2>2. PICK r : r = Moving(program[p], next, mn)
    OBVIOUS
  <2>3. program' = [program EXCEPT ![p] = r] /\ program'[p] = r
    BY <1>1, <1>5, <2>1, <2>2 DEF Moving
  <2>4. next \in Stages /\ ProgramForm(program[p])
    BY <1>1 DEF Stages
  <2>5. /\ ProgramForm(r) /\ r.at = next /\ r.client = program[p].client /\ r.modules = program[p].modules
        /\ r.result = program[p].result /\ r.moved = mn /\ r.before = program[p].before
    BY <2>2, <2>4, MovingForm
  <2>6. HeldForm(p, program[p])'
    BY <1>0, <1>1, <2>3, <2>5 DEF HeldForm
  <2>7. /\ SessionFiles' /\ DOMAIN dirs' = DOMAIN dirs /\ Len(dirs') = n /\ Staged' = {n}
        /\ \A g \in Files : dirs'[n].files[g] = IF g = f THEN live[f] ELSE dirs[n].files[g]
        /\ \A g \in Files : live'[g] = IF g = f THEN 0 ELSE live[g]
    <3> HIDE DEF n
    <3> QED BY <1>0, <1>1, <1>4, <1>5, MoveInFiles DEF n
  <2>8. /\ mn \in Seq(Files) /\ Len(mv) + 1 \in DOMAIN mn /\ mn[Len(mv) + 1] = f /\ Len(mv) + 1 \notin DOMAIN mv
        /\ \A i \in DOMAIN mv : i \in DOMAIN mn /\ mn[i] = mv[i]
        /\ \A i \in DOMAIN mn : i \in DOMAIN mv \/ i = Len(mv) + 1
    <3>1. Len(mv) + 1 \notin DOMAIN mv
      BY <1>1
    <3> HIDE DEF mv
    <3> QED BY <1>1, <1>4, <2>1, <3>1, Appended
  <2>9. IsInjective(mn)
    <3> SUFFICES ASSUME NEW i \in DOMAIN mn, NEW j \in DOMAIN mn, mn[i] = mn[j]
                 PROVE  i = j
      BY DEF IsInjective
    <3> HIDE DEF mv
    <3> QED BY <1>1, <1>4, <2>8 DEF IsInjective, Among
  <2>10. \A g \in Files : Among(g, mn) <=> (Among(g, mv) \/ g = f)
    <3> HIDE DEF mv
    <3> QED BY <2>8 DEF Among
  <2>11. BackupForm(program[p])'
    <3>1. program'[p].moved = mn /\ program'[p].before = program[p].before /\ program'[p].at \in {"moving", "rollback"}
      BY <2>3, <2>5
    <3>2. Current' = n /\ Current' # 0
      BY <1>1, <2>7 DEF Current
    <3>3. ASSUME NEW g \in Files
          PROVE  IF Among(g, mn)
                 THEN live'[g] = 0 /\ dirs'[n].files[g] = program[p].before[g] /\ program[p].before[g] # 0
                 ELSE live'[g] = program[p].before[g] /\ dirs'[n].files[g] = 0
      <4> HIDE DEF mv, n
      <4> QED BY <1>1, <1>4, <2>7, <2>10
    <3> HIDE DEF mv, n
    <3> QED BY <2>7, <2>8, <2>9, <3>1, <3>2, <3>3 DEF BackupForm
  <2>12. FilesForm(program[p])'
    BY <2>3, <2>5, <2>11 DEF FilesForm, RecoverForm, ResetForm
  <2> QED BY <1>0, <1>1, <2>3, <2>5, <2>6, <2>7, <2>12, OneProgram
<1> QED BY <1>2, <1>3, <1>5 DEF MoveLiveFile, Current

LEMMA CommitSession ==
  ASSUME SessionStrong, NEW p \in Procs, CommitReset(p)
  PROVE  SessionStrong'
<1> DEFINE n == Len(dirs)
<1>0. UNCHANGED <<lock, live, sessions, erased>> /\ stored' \in {"absent", "whole"} /\ program[p].at = "moving" /\ live = Nothing
  BY DEF CommitReset, noteVars, SessionStrong
<1>1. /\ SessionFiles /\ Staged = {n} /\ n \in DOMAIN dirs /\ program[p].before \in [Files -> 0 .. MaxSessions]
      /\ dirs[n].files \in [Files -> 0 .. MaxSessions]
      /\ \A f \in Files :
           IF Among(f, program[p].moved)
           THEN live[f] = 0 /\ dirs[n].files[f] = program[p].before[f] /\ program[p].before[f] # 0
           ELSE live[f] = program[p].before[f] /\ dirs[n].files[f] = 0
  BY <1>0, BackupKnown
<1>2. CASE GoTo(p, "rollback") /\ UNCHANGED dirs
  BY <1>0, <1>2, ToRollback DEF fileVars
<1>3. CASE SetState(n, "published") /\ Finish(p, "published")
  <2>1. \A f \in Files : dirs[n].files[f] = program[p].before[f]
    BY <1>0, <1>1, SessionConstants
  <2>2. dirs[n].files = program[p].before
    BY <1>1, <2>1
  <2>3. SessionFiles' /\ Len(dirs') = n /\ dirs'[n].files = dirs[n].files
    <3>1. n \in Staged /\ "published" \in {"published", "gone"}
      BY <1>1
    <3> HIDE DEF n
    <3> QED BY <1>0, <1>1, <1>3, <3>1, DirLeavesStaging DEF n
  <2>4. live' = Nothing /\ dirs'[Len(dirs')].files = program[p].before /\ "published" # "undone"
    BY <1>0, <2>2, <2>3
  <2> QED BY <1>0, <1>3, <2>3, <2>4, FinishFiles
<1> QED BY <1>2, <1>3 DEF CommitReset, Current, SetState

LEMMA RollbackSession ==
  ASSUME SessionStrong, NEW p \in Procs, Rollback(p)
  PROVE  SessionStrong'
<1> DEFINE mv == program[p].moved
           n == Len(dirs)
<1>0. UNCHANGED <<lock, sessions, erased>> /\ stored' \in {"absent", "whole"} /\ program[p].at = "rollback"
  BY DEF Rollback, noteVars, SessionStrong
<1>1. /\ ProgramForm(program[p]) /\ DOMAIN program = Procs /\ lock = p /\ ~program[p].client /\ ~program[p].modules
      /\ program[p].result = "none" /\ SessionFiles /\ n # 0 /\ Staged = {n} /\ n \in DOMAIN dirs
      /\ mv \in Seq(Files) /\ IsInjective(mv) /\ live \in [Files -> 0 .. MaxSessions]
      /\ program[p].before \in [Files -> 0 .. MaxSessions]
      /\ \A f \in Files :
           IF Among(f, mv)
           THEN live[f] = 0 /\ dirs[n].files[f] = program[p].before[f] /\ program[p].before[f] # 0
           ELSE live[f] = program[p].before[f] /\ dirs[n].files[f] = 0
  BY <1>0, BackupKnown
<1>2. CASE Finish(p, "incomplete") /\ UNCHANGED <<live, dirs>>
  <2>1. "incomplete" \notin {"published", "undone"} /\ UNCHANGED fileVars
    BY <1>0, <1>2 DEF fileVars
  <2> QED BY <1>0, <1>2, <2>1, FinishStep
<1>3. CASE mv = <<>> /\ Finish(p, "undone") /\ UNCHANGED live /\ (SetState(n, "gone") \/ UNCHANGED dirs)
  <2>1. \A f \in Files : ~Among(f, mv)
    BY <1>3 DEF Among
  <2>2. live = program[p].before
    BY <1>1, <2>1
  <2>3. SessionFiles'
    <3>1. CASE SetState(n, "gone")
      <4>1. n \in Staged /\ "gone" \in {"published", "gone"}
        BY <1>1
      <4> HIDE DEF n
      <4> QED BY <1>0, <1>1, <1>3, <3>1, <4>1, DirLeavesStaging DEF n
    <3>2. CASE UNCHANGED dirs
      BY <1>0, <1>1, <1>3, <3>2 DEF SessionFiles, SessionNeverLost, Staged
    <3> QED BY <1>3, <3>1, <3>2
  <2>4. live' = program[p].before /\ "undone" # "published"
    BY <1>3, <2>2
  <2> QED BY <1>0, <1>3, <2>3, <2>4, FinishFiles
<1>4. CASE /\ mv # <<>> /\ MoveOut(n, Last(mv))
           /\ program' = [program EXCEPT ![p].moved = Front(mv)]
  <2>1. PICK f : f = Last(mv)
    OBVIOUS
  <2>2. PICK mn : mn = Front(mv)
    OBVIOUS
  <2>3. /\ Len(mv) \in DOMAIN mv /\ mv[Len(mv)] = f /\ f \in Files /\ mn \in Seq(Files)
        /\ \A i \in DOMAIN mn : i \in DOMAIN mv /\ mn[i] = mv[i] /\ i # Len(mv)
        /\ \A i \in DOMAIN mv : i # Len(mv) => i \in DOMAIN mn
    <3>1. mv \in Seq(Files) /\ mv # <<>>
      BY <1>1, <1>4
    <3> HIDE DEF mv
    <3> QED BY <2>1, <2>2, <3>1 DEF Last, Front
  <2>4. IsInjective(mn)
    <3> HIDE DEF mv
    <3> QED BY <1>1, <2>3 DEF IsInjective
  <2>5. \A g \in Files : Among(g, mn) <=> (Among(g, mv) /\ g # f)
    <3> HIDE DEF mv
    <3>1. ASSUME NEW g \in Files, Among(g, mn)
          PROVE  Among(g, mv) /\ g # f
      BY <1>1, <2>3, <3>1 DEF Among, IsInjective
    <3>2. ASSUME NEW g \in Files, Among(g, mv), g # f
          PROVE  Among(g, mn)
      BY <2>3, <3>2 DEF Among
    <3> QED BY <3>1, <3>2
  <2>6. Among(f, mv) /\ live[f] = 0
    <3>1. Among(f, mv)
      BY <2>3 DEF Among
    <3> QED BY <1>1, <2>3, <3>1
  <2>7. /\ SessionFiles' /\ DOMAIN dirs' = DOMAIN dirs /\ Len(dirs') = n /\ Staged' = {n}
        /\ \A g \in Files : dirs'[n].files[g] = IF g = f THEN 0 ELSE dirs[n].files[g]
        /\ \A g \in Files : live'[g] = IF g = f THEN dirs[n].files[f] ELSE live[g]
    <3>1. n \in Staged /\ MoveOut(n, f)
      BY <1>1, <1>4, <2>1
    <3>2. /\ SessionFiles' /\ DOMAIN dirs' = DOMAIN dirs /\ Len(dirs') = Len(dirs) /\ Staged' = Staged
          /\ \A e \in DOMAIN dirs, g \in Files : dirs'[e].files[g] = IF e = n /\ g = f THEN 0 ELSE dirs[e].files[g]
          /\ \A g \in Files : live'[g] = IF g = f THEN dirs[n].files[f] ELSE live[g]
      <4> HIDE DEF n
      <4> QED BY <1>0, <1>1, <2>3, <2>6, <3>1, MoveOutFiles
    <3> QED BY <1>1, <3>2
  <2>8. PICK r : r = Remembered(program[p], mn)
    OBVIOUS
  <2>9. program' = [program EXCEPT ![p] = r] /\ program'[p] = r
    BY <1>1, <1>4, <2>2, <2>8 DEF Remembered
  <2>10. ProgramForm(program[p])
    BY <1>1
  <2>11. /\ ProgramForm(r) /\ r.at = program[p].at /\ r.client = program[p].client /\ r.modules = program[p].modules
         /\ r.result = program[p].result /\ r.moved = mn /\ r.before = program[p].before
    BY <2>8, <2>10, RememberedForm
  <2>12. HeldForm(p, program[p])'
    BY <1>0, <1>1, <2>9, <2>11 DEF HeldForm
  <2>13. BackupForm(program[p])'
    <3>1. program'[p].moved = mn /\ program'[p].before = program[p].before /\ program'[p].at = "rollback"
      BY <1>0, <2>9, <2>11
    <3>2. Current' = n /\ Current' # 0
      BY <1>1, <2>7 DEF Current
    <3>3. ASSUME NEW g \in Files
          PROVE  IF Among(g, mn)
                 THEN live'[g] = 0 /\ dirs'[n].files[g] = program[p].before[g] /\ program[p].before[g] # 0
                 ELSE live'[g] = program[p].before[g] /\ dirs'[n].files[g] = 0
      <4> HIDE DEF mv, n
      <4>1. CASE g = f
        <5>1. ~Among(g, mn) /\ dirs[n].files[f] = program[p].before[f]
          BY <1>1, <2>3, <2>5, <2>6, <4>1
        <5>2. live'[g] = dirs[n].files[f] /\ dirs'[n].files[g] = 0
          BY <2>7, <4>1
        <5> QED BY <4>1, <5>1, <5>2
      <4>2. CASE g # f
        <5>1. Among(g, mn) <=> Among(g, mv)
          BY <2>5, <4>2
        <5>2. live'[g] = live[g] /\ dirs'[n].files[g] = dirs[n].files[g]
          BY <2>7, <4>2
        <5> QED BY <1>1, <5>1, <5>2
      <4> QED BY <4>1, <4>2
    <3> HIDE DEF mv, n
    <3> QED BY <2>3, <2>4, <2>7, <3>1, <3>2, <3>3 DEF BackupForm
  <2>14. FilesForm(program[p])'
    BY <1>0, <2>9, <2>11, <2>13 DEF FilesForm, RecoverForm, ResetForm
  <2> QED BY <1>0, <1>1, <2>7, <2>9, <2>11, <2>12, <2>14, OneProgram
<1> QED BY <1>2, <1>3, <1>4 DEF Rollback, RollbackOrder, Current, Drop, SetState

LEMMA RemoveFileSession ==
  ASSUME SessionStrong, NEW p \in Procs, RemoveSessionFile(p)
  PROVE  SessionStrong'
<1>0. /\ UNCHANGED <<lock, dirs, sessions>> /\ stored' \in {"absent", "whole"} /\ program[p].at = "remove" /\ SessionFiles
      /\ lock = p /\ ~program[p].client /\ ~program[p].modules /\ program[p].result = "none"
      /\ ProgramForm(program[p]) /\ DOMAIN program = Procs
  BY DEF RemoveSessionFile, noteVars, SessionStrong, HeldForm, Holding, Stages
<1>1. CASE GoTo(p, "release") /\ UNCHANGED <<live, erased>>
  <2>0. "release" \in Stages
    BY DEF Stages
  <2>1. PICK r : /\ program' = [program EXCEPT ![p] = r] /\ program'[p] = r /\ ProgramForm(r) /\ r.at = "release"
                 /\ r.client = program[p].client /\ r.modules = program[p].modules
                 /\ r.result = program[p].result /\ r.moved = program[p].moved /\ r.before = program[p].before
    BY <1>1, <2>0, GoToForm
  <2>2. HeldForm(p, program[p])'
    BY <1>0, <2>1 DEF HeldForm
  <2> QED BY <1>0, <1>1, <2>1, <2>2, QuietStep DEF fileVars
<1>2. CASE Finish(p, "error") /\ UNCHANGED <<live, erased>>
  <2>1. "error" \notin {"published", "undone"} /\ UNCHANGED fileVars
    BY <1>0, <1>2 DEF fileVars
  <2> QED BY <1>0, <1>2, <2>1, FinishStep
<1>3. PICK f : f = FirstOf(live)
  OBVIOUS
<1>4. CASE /\ live # Nothing /\ live' = [live EXCEPT ![f] = 0] /\ UNCHANGED program
           /\ erased' = IF f = Db THEN erased \cup {live[f]} ELSE erased
  <2>1. f \in Files /\ live[f] # 0 /\ live \in [Files -> 0 .. MaxSessions]
    BY <1>0, <1>3, <1>4, FirstOfFiles DEF SessionFiles
  <2>2. live' \in [Files -> 0 .. MaxSessions] /\ \A g \in Files : live'[g] = IF g = f THEN 0 ELSE live[g]
    BY <1>4, <2>1, SessionConstants
  <2>3. sessions \in Nat /\ live[f] \in 1 .. sessions
    <3>1. live[f] <= sessions /\ live[f] \in 0 .. MaxSessions /\ sessions \in 0 .. MaxSessions /\ MaxSessions \in Nat
      BY <1>0, <2>1, SessionConstants DEF SessionFiles
    <3> QED BY <2>1, <3>1
  <2>4. erased' \subseteq 1 .. sessions /\ \A g \in Files : live'[g] <= sessions
    <3>1. erased \subseteq 1 .. sessions /\ \A g \in Files : live[g] <= sessions
      BY <1>0 DEF SessionFiles
    <3>2. erased' \subseteq 1 .. sessions
      BY <1>4, <2>3, <3>1
    <3>3. \A g \in Files : live'[g] <= sessions
      BY <2>2, <2>3, <3>1
    <3> QED BY <3>2, <3>3
  <2>5. SessionNeverLost'
    <3> SUFFICES ASSUME NEW s \in (1 .. sessions) \ erased'
                 PROVE  live'[Db] = s \/ \E e \in DOMAIN dirs : dirs[e].files[Db] = s
      BY <1>0 DEF SessionNeverLost
    <3>1. s \notin erased /\ (f = Db => s # live[Db])
      BY <1>4
    <3>2. live[Db] = s \/ \E e \in DOMAIN dirs : dirs[e].files[Db] = s
      BY <1>0, <3>1 DEF SessionFiles, SessionNeverLost
    <3>3. f # Db => live'[Db] = live[Db]
      BY <2>2, SessionConstants
    <3> QED BY <3>1, <3>2, <3>3
  <2>6. SessionFiles'
    BY <1>0, <2>2, <2>4, <2>5 DEF SessionFiles, Staged
  <2>7. ASSUME NEW q \in Procs
        PROVE  ProgramForm(program'[q]) /\ HeldForm(q, program[q])' /\ FilesForm(program[q])'
    <3>1. program[q].at \notin {"recovering", "list", "moving", "rollback", "release"}
      <4>1. CASE q = p
        BY <1>0, <4>1
      <4>2. CASE q # p
        <5>1. program[q].at \notin Holding
          BY <1>0, <4>2 DEF SessionStrong, HeldForm
        <5> QED BY <5>1 DEF Holding, Stages
      <4> QED BY <4>1, <4>2
    <3>2. FilesForm(program[q])'
      BY <1>4, <3>1 DEF FilesForm, RecoverForm, BackupForm, ResetForm
    <3> QED BY <1>0, <1>4, <3>2 DEF SessionStrong, HeldForm
  <2> QED BY <1>0, <1>4, <2>6, <2>7 DEF SessionStrong, ProgramForm, HeldForm, FilesForm
<1> QED BY <1>1, <1>2, <1>3, <1>4 DEF RemoveSessionFile

LEMMA SessionInitially ==
  ASSUME SessionInit
  PROVE  SessionStrong
<1>1. /\ program = [p \in Procs |-> NoCommand] /\ lock = "free" /\ live = Nothing /\ dirs = <<>> /\ sessions = 0
      /\ erased = {} /\ stored \in {"absent", "whole"}
  BY DEF SessionInit
<1>2. "idle" \in Stages /\ "idle" \notin Holding
  BY DEF Stages, Holding
<1>3. PICK r : r = NoCommand
  OBVIOUS
<1>4. ProgramForm(r) /\ r.at = "idle" /\ ~r.client /\ ~r.modules /\ r.result = "none" /\ r.moved = <<>>
  <2>1. PICK a \in Stages : a = "idle"
    BY <1>2
  <2> QED BY <1>3, <2>1, FreshForm
<1>5. ASSUME NEW p \in Procs
      PROVE  ProgramForm(program[p]) /\ HeldForm(p, program[p]) /\ FilesForm(program[p])
  <2>1. program[p] = r
    BY <1>1, <1>3
  <2>2. HeldForm(p, r)
    BY <1>2, <1>4 DEF HeldForm
  <2>3. FilesForm(r)
    BY <1>4 DEF FilesForm, RecoverForm, BackupForm, ResetForm
  <2> QED BY <1>4, <2>1, <2>2, <2>3
<1>6. SessionFiles
  <2>1. dirs \in Seq(SessionDir) /\ DOMAIN dirs = {}
    BY <1>1
  <2>2. 1 .. sessions = {}
    BY <1>1
  <2>3. \A f \in Files : live[f] <= sessions
    BY <1>1, SessionConstants
  <2> QED BY <1>1, <2>1, <2>2, <2>3, SessionConstants DEF SessionFiles, SessionNeverLost, Staged
<1> QED BY <1>1, <1>5, <1>6 DEF SessionStrong

LEMMA SessionStep ==
  ASSUME SessionStrong, [SessionNext]_sessionVars
  PROVE  SessionStrong'
<1>1. CASE UNCHANGED sessionVars
  <2>1. UNCHANGED <<program, lock, live, dirs, sessions, erased, stored>>
    BY <1>1 DEF sessionVars, fileVars, noteVars
  <2>2. SessionFiles' /\ Staged' = Staged /\ Current' = Current
    BY <2>1 DEF SessionStrong, SessionFiles, SessionNeverLost, Staged, Current
  <2>3. ASSUME NEW p \in Procs
        PROVE  ProgramForm(program'[p]) /\ HeldForm(p, program[p])' /\ FilesForm(program[p])'
    BY <2>1, <2>2 DEF SessionStrong, HeldForm, FilesForm, RecoverForm, BackupForm, ResetForm
  <2> QED BY <2>1, <2>2, <2>3 DEF SessionStrong, ProgramForm, HeldForm, FilesForm
<1>2. CASE CredentialsReset
  BY <1>2, CredentialsSession
<1>3. ASSUME NEW p \in Procs, ParseCli(p) \/ Step(p) \/ Sidecar(p) \/ Killed(p)
      PROVE  SessionStrong'
  <2>1. CASE ParseCli(p)
    BY <2>1, ParseCliSession
  <2>2. CASE Step(p)
    BY <2>2, CredentialsSession, LockSession, ConnectSession, ConnectFailsSession, StartupSession,
       ApplicationEndsSession, ShutdownSession, UnlockSession, PreflightSession, RecoverStepSession,
       RecoverFailsSession, BeginBackupSession, MoveLiveFileSession, CommitSession, RollbackSession,
       RemoveFileSession DEF Step
  <2>3. CASE Sidecar(p)
    BY <2>3, SidecarSession
  <2>4. CASE Killed(p)
    BY <2>4, UnlockSession
  <2> QED BY <1>3, <2>1, <2>2, <2>3, <2>4
<1> QED BY <1>1, <1>2, <1>3 DEF SessionNext

LEMMA SessionImplied ==
  ASSUME SessionStrong
  PROVE  SessionInv
<1>0. SessionFiles /\ \A p \in Procs : ProgramForm(program[p]) /\ HeldForm(p, program[p]) /\ FilesForm(program[p])
  BY DEF SessionStrong
<1>1. \A p \in Procs : Uses(p) => lock = p
  BY <1>0 DEF Uses, HeldForm, Holding, Stages
<1>2. SessionTypeOK
  BY <1>0, <1>1 DEF SessionTypeOK, SessionFiles, SessionStrong, SessionDir
<1>3. ResetAllOrNothing
  BY <1>0 DEF ResetAllOrNothing, FilesForm, ResetForm
<1>4. ModulesStopFirst
  BY <1>0 DEF ModulesStopFirst, HeldForm
<1>5. OneStagedSession
  <2> DEFINE T == {d \in Staged : dirs[d].files # Nothing}
  <2>1. \A d, e \in T : d = e
    BY <1>0 DEF SessionFiles
  <2>2. CASE T = {}
    BY <2>2, FS_EmptySet DEF OneStagedSession
  <2>3. CASE T # {}
    <3>1. PICK d \in T : T = {d}
      <4> HIDE DEF T
      <4> QED BY <2>1, <2>3
    <3>2. Cardinality(T) = 1
      <4> HIDE DEF T
      <4> QED BY <3>1, FS_Singleton
    <3> QED BY <3>2 DEF OneStagedSession
  <2> QED BY <2>2, <2>3
<1> QED BY <1>0, <1>2, <1>3, <1>4, <1>5 DEF SessionInv, SessionFiles

\* However commands overlap, fail and are killed, one process at a time uses the session, a
\* session's database is live or in a backup until logout removes it, a reset is all or nothing,
\* and modules stop before the client they act through (session.rs, app.rs, client.rs).
THEOREM SessionsAreNeverLost == SessionSpec => []SessionInv
<1>1. SessionInit => SessionStrong
  BY SessionInitially
<1>2. SessionStrong /\ [SessionNext]_sessionVars => SessionStrong'
  BY SessionStep
<1>3. SessionStrong => SessionInv
  BY SessionImplied
<1> QED BY <1>1, <1>2, <1>3, PTL DEF SessionSpec

-----------------------------------------------------------------------------
(* The run, which shows one of the three models in each behaviour.         *)

\* A behaviour of the run is one of each model: the models that rest take no step.
LEMMA FilesShowEachModel == FilesSpec => StoresSpec /\ InstallSpec /\ SessionSpec
<1>1. FilesInit => StoresInit /\ InstallInit /\ SessionInit
  BY DEF FilesInit
<1>2. [FilesNext]_<<which, storeVars, installVars, sessionVars>>
        => [StoresNext]_storeVars /\ [InstallNext]_installVars /\ [SessionNext]_sessionVars
  BY DEF FilesNext
<1> QED BY <1>1, <1>2, PTL DEF FilesSpec, StoresSpec, InstallSpec, SessionSpec

\* In every behaviour of the run: no setting, module or session is lost, and the steps of a command
\* redeem an approval in time and leave a declared module alone.
THEOREM FilesAreSafe ==
  FilesSpec => [](StoresInv /\ InstallInv /\ SessionInv) /\ RedeemedInTime /\ DeclarativeUntouched
BY FilesShowEachModel, StoresAreDurable, ModulesAreNeverLost, SessionsAreNeverLost, ApprovalsRedeemedInTime,
   DeclaredModulesUntouched, PTL

=============================================================================
