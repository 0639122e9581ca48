----------------------------- MODULE SourceInspection -----------------------------
(***************************************************************************)
(* A module archive is acquired from the owner's message and inspected:    *)
(* the ZIP entries are checked,                                            *)
(* extracted into a private directory, and summarised in a plan whose      *)
(* fingerprint the approval is bound to.                                   *)
(*                                                                         *)
(* A path is the sequence of components between its slashes, so that "a/b" *)
(* and "a//b" are two spellings of one file.  The digest is opaque.  A     *)
(* definition X_Y that precedes X is a faulty variant of X.                *)
(***************************************************************************)
EXTENDS ModuleManifest, Functions

Limits ==
  [archive |-> 16 * 1024 * 1024, files |-> 256, file |-> 16 * 1024 * 1024,
   expanded |-> 32 * 1024 * 1024, depth |-> 16, path |-> 1024, ratio |-> 100]

(***************************************************************************)
(* Acquisition: the document of the very message that asks for it.         *)
(***************************************************************************)
NoSize == -1
Broken == -2   \* in place of a chunk: the transport failed

IsFreshSelfAuthoredSavedMessage(m) ==
  /\ (m.sender = "self" /\ m.outgoing) \/ m.sender = "owner"
  /\ m.id > 0 /\ m.peer = "saved"

\* push: a chunk is counted before it is retained.
PushChunk(acc, size) ==
  CASE ~acc.ok -> acc
    [] acc.ok /\ size = Broken -> Refused("Download")
    [] acc.ok /\ size # Broken ->
         IF acc.value + size > Limits.archive THEN Refused("SizeExceeded") ELSE Accepted(acc.value + size)

\* aggregate_document_chunks: the declared size is only a preflight.
AggregateDocumentChunks(declared, chunks) ==
  IF declared # NoSize /\ declared > Limits.archive THEN Refused("DeclaredSizeExceeded")
  ELSE FoldLeft(PushChunk, Accepted(0), chunks)

Acquire(m, document) ==
  CASE ~IsFreshSelfAuthoredSavedMessage(m) -> Refused("NotSavedMessage")
    [] IsFreshSelfAuthoredSavedMessage(m) /\ ~document.lmod -> Refused("NotLmodDocument")
    [] OTHER -> AggregateDocumentChunks(document.declared, document.chunks)

\* The end record names one disk, consistent counts and a central directory that ends before it.
ZipEntries(zip) ==
  IF /\ zip.eocd /\ zip.oneDisk /\ zip.count = Len(zip.entries)
     /\ zip.directoryEnd <= zip.eocdAt /\ zip.exact
  THEN (IF \A i \in DOMAIN zip.entries : zip.entries[i].utf8
        THEN Accepted(zip.entries) ELSE Refused("UnsafePath"))
  ELSE Refused("MalformedArchive")

(***************************************************************************)
(* validate_entry.                                                         *)
(***************************************************************************)
\* What stands between two slashes that follow each other.
NoName == ""

\* What the host's Path makes of a spelling: empty components vanish.
Components(path) == FoldLeft(LAMBDA kept, c : IF c = NoName THEN kept ELSE Append(kept, c), <<>>, path)

\* Without the empty components at the end.
Trim(path) == SubSeq(path, 1, Max({0} \cup {i \in DOMAIN path : path[i] # NoName}))

\* Path::parent of a spelling, and all of them up to the root.
Parents(path) == {Trim(SubSeq(path, 1, n)) : n \in 0 .. Len(path) - 1} \ {<<>>}

Kind(e) ==
  IF e.mode = (IF e.dir THEN "dir" ELSE "file") /\ ~e.special THEN "ok" ELSE "UnsafeEntryType"

PathSafe(e) ==
  /\ e.path # <<>> /\ e.path[1] # NoName
  /\ e.pathBytes <= Limits.path
  /\ \A i \in DOMAIN e.path : e.path[i] \notin {".", "..", "\\", "C:", "NUL"}

SizeOk(e) ==
  /\ e.expanded <= Limits.file
  /\ e.compressed = 0 => e.expanded = 0
  /\ e.compressed # 0 => Ceil(e.expanded, e.compressed) <= Limits.ratio

\* No second entry of this spelling, no file where a directory is, no file above.
NameFree(names, e) ==
  /\ e.path \notin DOMAIN names
  /\ ~e.dir => \A p \in DOMAIN names : ~IsStrictPrefix(e.path, p)
  /\ \A p \in Parents(e.path) \cap DOMAIN names : names[p]

ValidateEntry(names, e) == FirstFailure(<<
  Check(~e.encrypted, "EncryptedArchive"),
  Check(e.stored, "UnsupportedCompression"),
  Kind(e),
  Check(PathSafe(e), "UnsafePath"),
  Check(Len(Components(e.path)) <= Limits.depth, "LimitExceeded"),
  Check(SizeOk(e), "LimitExceeded"),
  Check(e.dir => e.compressed = 0 /\ e.expanded = 0, "UnsafeEntryType"),
  Check(NameFree(names, e), "UnsafeEntryType") >>)

(***************************************************************************)
(* inspect_into: check every entry, then extract them in archive order.    *)
(***************************************************************************)
RootManifest(e) == e.path = <<"module.json">> /\ ~e.dir
NestedManifest(e) == ~RootManifest(e) /\ Components(e.path) # <<>> /\ Last(Components(e.path)) = "module.json"

\* names.insert, and what a new directory or file is to the tree: f with a place for p.
Insert(f, p, v) == [q \in DOMAIN f \cup {p} |-> IF q \in DOMAIN f THEN f[q] ELSE v]

Judge(acc, e) ==
  LET verdict == ValidateEntry(acc.names, e)
      total == acc.expanded + e.expanded IN
  IF acc.error # "ok" THEN acc
  ELSE IF verdict # "ok" THEN [acc EXCEPT !.error = verdict]
  ELSE IF total > Limits.expanded THEN [acc EXCEPT !.error = "LimitExceeded"]
  ELSE IF NestedManifest(e) THEN [acc EXCEPT !.error = "RootManifest"]
  ELSE [names |-> Insert(acc.names, e.path, e.dir), expanded |-> total,
        files |-> acc.files + (IF e.dir THEN 0 ELSE 1),
        manifests |-> acc.manifests + (IF RootManifest(e) THEN 1 ELSE 0), error |-> "ok"]

\* The local header repeats the central one and the data lies inside the archive.
EntryData(e) == IF e.localMatches /\ e.inBounds THEN "ok" ELSE "MalformedArchive"

\* tree: what stands at a host path, a directory (0) or the entry written there.
Directory == [entry |-> 0]

CreatePrivateDir(tree, path) ==
  IF path \in DOMAIN tree THEN (IF tree[path] = Directory THEN Accepted(tree) ELSE Refused("UnsafeEntryType"))
  ELSE IF Len(path) = 1 \/ (Front(path) \in DOMAIN tree /\ tree[Front(path)] = Directory)
  THEN Accepted(Insert(tree, path, Directory)) ELSE Refused("Staging")

CreatePrivateParents(tree, path) ==
  FoldLeft(LAMBDA acc, n : IF acc.ok THEN CreatePrivateDir(acc.value, SubSeq(path, 1, n)) ELSE acc,
           Accepted(tree), [n \in 1 .. Len(path) - 1 |-> n])

\* create_new: refuses a path that exists.
WriteFile(tree, path, i) ==
  IF path \in DOMAIN tree THEN Refused("Staging") ELSE Accepted(Insert(tree, path, [entry |-> i]))

ExtractEntry(acc, e, i) ==
  LET path == Components(e.path)
      parents == CreatePrivateParents(acc.value, path) IN
  IF ~acc.ok THEN acc
  ELSE IF e.dir THEN CreatePrivateDir(acc.value, path)
  ELSE IF ~parents.ok THEN parents
  ELSE IF EntryData(e) # "ok" THEN Refused(EntryData(e))
  ELSE WriteFile(parents.value, path, i)

InspectInto(zip) ==
  LET listed == ZipEntries(zip)
      entries == zip.entries
      judged == FoldLeft(Judge, [names |-> [p \in {} |-> FALSE], expanded |-> 0, files |-> 0,
                                 manifests |-> 0, error |-> "ok"], entries)
      tree == FoldLeft(LAMBDA acc, i : ExtractEntry(acc, entries[i], i),
                       Accepted([p \in {} |-> Directory]), [i \in DOMAIN entries |-> i]) IN
  IF ~listed.ok THEN listed
  ELSE IF Len(entries) > Limits.files THEN Refused("LimitExceeded")
  ELSE IF judged.error # "ok" THEN Refused(judged.error)
  ELSE IF judged.manifests # 1 THEN Refused("RootManifest")
  ELSE IF ~tree.ok THEN tree
  ELSE Accepted([tree |-> tree.value, files |-> judged.files, expanded |-> judged.expanded])

\* The stage is removed again whatever step fails: wrapper says whether it is left.
CreateStage(root, marker) == IF root /\ marker THEN "owned" ELSE "none"
InspectPending(zip, bytes, root, marker, manifest) ==
  LET stage == CreateStage(root, marker)
      tree == InspectInto(zip) IN
  CASE bytes > Limits.archive -> [stage |-> "none", error |-> "LimitExceeded"]
    [] stage = "none" -> [stage |-> "none", error |-> "Staging"]
    [] ~tree.ok -> [stage |-> "none", error |-> tree.error]
    [] ~manifest -> [stage |-> "none", error |-> "InvalidManifest"]
    [] OTHER -> [stage |-> "owned", error |-> "ok"]

(***************************************************************************)
(* The plan's canonical bytes.  Strings are sequences of bytes.            *)
(***************************************************************************)
CanonicalString(s) == <<Len(s)>> \o s

CanonicalOption(o) == IF o = <<>> THEN <<0>> ELSE <<1>> \o CanonicalString(o[1])

CanonicalList_NoCount(l) == FlattenSeq([i \in DOMAIN l |-> CanonicalString(l[i])])
CanonicalList(l) == <<Len(l)>> \o FlattenSeq([i \in DOMAIN l |-> CanonicalString(l[i])])

\* Plan: what the owner reviews; identity is <<>> or <<repository, revision>>.
CanonicalFingerprint(p) ==
  CanonicalString(IF p.protocol = 6 THEN <<2>> ELSE <<1>>)
  \o (IF p.identity = <<>> THEN CanonicalString(<<0>>) \o CanonicalString(<<>>)
      ELSE CanonicalString(<<1>>) \o CanonicalString(p.identity[1]) \o CanonicalString(p.identity[2]))
  \o CanonicalString(p.id) \o CanonicalString(p.version) \o <<p.protocol>>
  \o (IF p.protocol = 6 THEN <<p.revision>> ELSE <<>>)
  \o CanonicalString(p.entrypoint) \o CanonicalOption(p.default) \o <<p.digest, p.files, p.expanded>>
  \o CanonicalList(p.capabilities) \o CanonicalList(p.subscriptions)
  \o (IF p.protocol = 6 THEN CanonicalList(p.methods) ELSE <<>>)
  \o CanonicalList(p.actions)

\* The descriptor fields a plan carries; the entry point must stay inside the module directory.
FromDescriptor(d, identity, digest, stats) ==
  [protocol |-> d.protocol, revision |-> d.revision, identity |-> identity, id |-> d.id,
   version |-> d.version, entrypoint |-> d.entrypoint, default |-> d.default, digest |-> digest,
   files |-> stats.files, expanded |-> stats.expanded, capabilities |-> d.capabilities,
   subscriptions |-> d.subscriptions, methods |-> d.methods, actions |-> d.actions]

=============================================================================
