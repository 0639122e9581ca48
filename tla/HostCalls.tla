-------------------------------- MODULE HostCalls --------------------------------
(***************************************************************************)
(* The authority a v6 module has over messages.  The manager registers     *)
(* opaque handles for an invocation (its message, its chat, the message it *)
(* replies to) and releases them when the invocation has ended; host calls *)
(* of the module act on a message only through such a handle               *)
(* (v6_handles.rs, v6_host.rs, manager.rs).                                *)
(*                                                                         *)
(* Invocations run concurrently.  A release may be put off while host      *)
(* calls run (V6Process models when); the setup deadline or the end of the *)
(* run loop may drop an invocation, whose handles then stay until they     *)
(* expire.  Handles are random, so a new one is never an old one.          *)
(*                                                                         *)
(* A definition X_Y that precedes X is a faulty variant of X.              *)
(***************************************************************************)
EXTENDS BotWire

CONSTANTS
  Invocations,   \* each is made at most once
  InvKind,       \* [Invocations -> what it may be: "command", "event"]
  PeerOf,        \* [Invocations -> chats]
  Own,           \* the invocations whose message the user wrote
  Replied,       \* commands that reply to a message
  HandleCap,     \* MAX_V6_HANDLES
  HandleTtl,     \* V6_HANDLE_TTL
  MaxClock,      \* bound on time
  GrantSets      \* the grants a module of the run may have

ASSUME HostCallsAssumption ==
  /\ IsFiniteSet(Invocations)
  /\ InvKind \in [Invocations -> SUBSET {"command", "event"}]
  /\ Own \subseteq Invocations /\ Replied \subseteq Invocations
  /\ HandleCap \in Nat \ {0} /\ HandleTtl \in Nat \ {0} /\ MaxClock \in Nat
  /\ GrantSets \subseteq [edit : BOOLEAN, delete : BOOLEAN, inline : BOOLEAN, read : BOOLEAN]

VARIABLES
  grant,      \* what the module may do (V6HostExecutor)
  entries,    \* V6HandleRegistry::entries, a set of records
  cache,      \* V6HandleRegistry::peer_handles
  minted,     \* handles made so far
  invocation, \* [Invocations -> where the call is and the handles it holds]
  releasing,  \* pending_handle_releases
  clock,
  alive       \* the module process has not ended

callVars == <<grant, entries, cache, minted, invocation, releasing, clock, alive>>

Handles == 1 .. 3 * Cardinality(Invocations)
NoHandle == 0
Chats == {PeerOf[c] : c \in Invocations}
Messages == {"command", "reply"} \X Invocations
Authored(m) == m[1] = "command" /\ m[2] \in Own

Stages == {"idle", "peer", "reply", "running", "dropped", "ended"}
Entries == [handle : Handles, kind : {"peer"}, target : Chats, expires : Nat, editable : {FALSE}]
           \cup [handle : Handles, kind : {"message"}, target : Messages, expires : Nat, editable : BOOLEAN]

CallsInit ==
  /\ grant \in GrantSets
  /\ entries = {} /\ cache = [p \in Chats |-> NoHandle] /\ minted = 0
  /\ invocation = [c \in Invocations |-> [at |-> "idle", message |-> NoHandle, peer |-> NoHandle, reply |-> NoHandle]]
  /\ releasing = {} /\ clock = 0 /\ alive = TRUE

-----------------------------------------------------------------------------
(* The registry.                                                             *)

PurgeExpired == {e \in entries : e.expires > clock}

IssueRefused == Cardinality(PurgeExpired) >= HandleCap

Insert(kind, target, editable) ==
  /\ entries' = PurgeExpired \cup {[handle |-> minted + 1, kind |-> kind, target |-> target,
                                    expires |-> clock + HandleTtl, editable |-> editable]}
  /\ minted' = minted + 1

\* issue_target for a peer: the chat's handle is used again while it has not expired.
CachedPeer(p) == {e \in PurgeExpired : e.handle = cache[p]}

\* issue_message and issue_reply_message; only the former may give authority.
ReplyEditable == FALSE

ResolveMessage(h) ==
  {e \in PurgeExpired : e.handle = h /\ e.kind = "message" /\ e.editable}

\* V6HandleRegistry::release.
Release(h) ==
  /\ entries' = {e \in entries : e.handle # h}
  /\ cache' = [p \in Chats |-> IF cache[p] = h THEN NoHandle ELSE cache[p]]

-----------------------------------------------------------------------------
(* Invocations: execute_with_message_context and dispatch_event.             *)

At(c, kind, stage) == alive /\ kind \in InvKind[c] /\ invocation[c].at = stage

\* The message of a command: editable if the user wrote it.  With a full registry
\* the command fails.
RegisterCurrentMessage(c) ==
  /\ At(c, "command", "idle")
  /\ IF IssueRefused
     THEN /\ entries' = PurgeExpired /\ invocation' = [invocation EXCEPT ![c].at = "ended"]
          /\ UNCHANGED minted
     ELSE /\ Insert("message", <<"command", c>>, c \in Own)
          /\ invocation' = [invocation EXCEPT ![c].at = "peer", ![c].message = minted + 1]
  /\ UNCHANGED <<grant, cache, releasing, clock, alive>>

\* The chat of a command; a refusal gives the message handle back.
RegisterPeerHandle(c) ==
  /\ At(c, "command", "peer")
  /\ LET p == PeerOf[c] IN
     IF CachedPeer(p) # {}
     THEN /\ entries' = PurgeExpired
          /\ \E e \in CachedPeer(p) : invocation' = [invocation EXCEPT ![c].at = "reply", ![c].peer = e.handle]
          /\ UNCHANGED <<cache, minted, releasing>>
     ELSE IF IssueRefused
     THEN /\ entries' = PurgeExpired
          /\ invocation' = [invocation EXCEPT ![c].at = "ended"]
          /\ releasing' = releasing \cup {invocation[c].message}
          /\ UNCHANGED <<cache, minted>>
     ELSE /\ Insert("peer", p, FALSE)
          /\ cache' = [cache EXCEPT ![p] = minted + 1]
          /\ invocation' = [invocation EXCEPT ![c].at = "reply", ![c].peer = minted + 1]
          /\ UNCHANGED releasing
  /\ UNCHANGED <<grant, clock, alive>>

\* The replied message, for a module that may read messages; a refusal is ignored.
RegisterReplyMessage(c) ==
  /\ At(c, "command", "reply")
  /\ IF c \in Replied /\ grant.read /\ ~IssueRefused
     THEN /\ Insert("message", <<"reply", c>>, ReplyEditable)
          /\ invocation' = [invocation EXCEPT ![c].at = "running", ![c].reply = minted + 1]
     ELSE /\ entries' = IF c \in Replied /\ grant.read THEN PurgeExpired ELSE entries
          /\ invocation' = [invocation EXCEPT ![c].at = "running"]
          /\ UNCHANGED minted
  /\ UNCHANGED <<grant, cache, releasing, clock, alive>>

\* dispatch_event: the module may delete an outgoing message of its event.
DispatchEvent(c) ==
  /\ At(c, "event", "idle")
  /\ IF c \in Own /\ grant.delete /\ ~IssueRefused
     THEN /\ Insert("message", <<"command", c>>, TRUE)
          /\ invocation' = [invocation EXCEPT ![c].at = "running", ![c].message = minted + 1]
     ELSE /\ entries' = IF c \in Own /\ grant.delete THEN PurgeExpired ELSE entries
          /\ invocation' = [invocation EXCEPT ![c].at = "running"]
          /\ UNCHANGED minted
  /\ UNCHANGED <<grant, cache, releasing, clock, alive>>

HeldBy(c) == {invocation[c].message, invocation[c].peer, invocation[c].reply} \ {NoHandle}

Released_NoReply(c) == {invocation[c].message, invocation[c].peer} \ {NoHandle}

Released(c) == HeldBy(c)

\* The module answered, or the call failed: the handles are released.
InvocationEnds(c) ==
  /\ invocation[c].at = "running"
  /\ invocation' = [invocation EXCEPT ![c].at = "ended"]
  /\ releasing' = releasing \cup Released(c)
  /\ UNCHANGED <<grant, entries, cache, minted, clock, alive>>

InvocationDropped(c) ==
  /\ invocation[c].at = "running"
  /\ invocation' = [invocation EXCEPT ![c].at = "dropped"]
  /\ UNCHANGED <<grant, entries, cache, minted, releasing, clock, alive>>

\* release_handle, at once or by finish_host_call.
ReleaseHandle ==
  \E h \in releasing :
    /\ Release(h) /\ releasing' = releasing \ {h}
    /\ UNCHANGED <<grant, minted, invocation, clock, alive>>

\* The supervisor's last act: an empty registry of the next generation.
ProcessEnds ==
  /\ alive /\ alive' = FALSE
  /\ entries' = {} /\ cache' = [p \in Chats |-> NoHandle]
  /\ UNCHANGED <<grant, minted, invocation, releasing, clock>>

Tick == clock < MaxClock /\ clock' = clock + 1
        /\ UNCHANGED <<grant, entries, cache, minted, invocation, releasing, alive>>

-----------------------------------------------------------------------------
(* V6HostExecutor: the host calls that act on a message.  The module may    *)
(* use any handle it was ever given, of the message or not.                 *)

Params(h) == [message |-> h, text |-> [units |-> 1, nul |-> FALSE], buttons |-> <<>>]
Shape(p) == [p EXCEPT !.message = IF @ = NoHandle THEN "" ELSE "handle"]

ExecuteEdit(h) ==
  IF grant.edit /\ ValidateEdit(Shape(Params(h))) THEN {e \in ResolveMessage(h) : Authored(e.target)} ELSE {}
ExecuteDelete(h) ==
  IF grant.delete /\ h # NoHandle THEN {e \in ResolveMessage(h) : Authored(e.target)} ELSE {}
\* The handle alone is the authority: whether the message is outgoing is not asked.
ExecuteDeleteInvoker(h) == IF grant.inline /\ h # NoHandle THEN ResolveMessage(h) ELSE {}
\* The menu is published in the chat of the message.
ExecuteInlineForm(h) ==
  IF grant.inline /\ ValidateForm(Shape(Params(h)), 2) THEN ResolveMessage(h) ELSE {}

HostExecute(h) == ExecuteEdit(h) \cup ExecuteDelete(h) \cup ExecuteDeleteInvoker(h) \cup ExecuteInlineForm(h)

Given == UNION {HeldBy(c) : c \in Invocations}

\* Resolving a handle leaves the registry without its expired entries.
HostCall ==
  /\ alive /\ Given # {} /\ PurgeExpired # entries
  /\ entries' = PurgeExpired
  /\ UNCHANGED <<grant, cache, minted, invocation, releasing, clock, alive>>

CallsNext ==
  \/ \E c \in Invocations :
       \/ RegisterCurrentMessage(c) \/ RegisterPeerHandle(c) \/ RegisterReplyMessage(c)
       \/ DispatchEvent(c) \/ InvocationEnds(c) \/ InvocationDropped(c)
  \/ ReleaseHandle \/ ProcessEnds \/ Tick \/ HostCall

CallsSpec == CallsInit /\ [][CallsNext]_callVars

-----------------------------------------------------------------------------
(* Properties.                                                               *)

\* Types, and the bound of the registry: never more than MAX_V6_HANDLES entries,
\* however invocations interleave.
CallsTypeOK ==
  /\ grant \in GrantSets /\ entries \subseteq Entries /\ cache \in [Chats -> Handles \cup {NoHandle}]
  /\ minted \in 0 .. 3 * Cardinality(Invocations)
  /\ invocation \in [Invocations -> [at : Stages, message : Handles \cup {NoHandle},
                                     peer : Handles \cup {NoHandle}, reply : Handles \cup {NoHandle}]]
  /\ releasing \subseteq Handles /\ clock \in 0 .. MaxClock /\ alive \in BOOLEAN
  /\ Cardinality(entries) <= HandleCap

\* A module acts only on messages the user wrote: not on a replied message it may
\* read, nor on a command another account wrote, although message.deleteInvoker and
\* inline.form never ask whether the message is outgoing.
OwnMessagesOnly == \A h \in Given \cup {NoHandle} : \A e \in HostExecute(h) : Authored(e.target)

InProgress(c) == invocation[c].at \in {"peer", "reply", "running", "dropped"}

\* Authority ends with the invocation it was given for: a handle that still resolves
\* belongs to an invocation that goes on, or was dropped, or its release is pending.
AuthorityEnds ==
  \A e \in PurgeExpired :
    e.handle \in releasing \/ \E c \in Invocations : InProgress(c) /\ e.handle \in HeldBy(c)

\* A handle cached for a chat never comes to stand for another chat: while it
\* resolves, the peer handle of an invocation names the invocation's own chat.
PeerHandleTrue ==
  \A c \in Invocations, e \in entries : invocation[c].peer = e.handle => e.target = PeerOf[c]

\* The invariant of the handle registry: a handle gives authority over the owner's messages only,
\* ends with its invocation and names the chat it was issued for.
CallsInv == CallsTypeOK /\ OwnMessagesOnly /\ AuthorityEnds /\ PeerHandleTrue

=============================================================================
