---------------------------- MODULE MailWatcher ----------------------------
(***************************************************************************)
(* The goroutines watchIMAPInbox of sidecar/imap.go: each connects to the  *)
(* bridge's IMAP server, polls UIDNEXT of All Mail, searches and fetches   *)
(* what is new, looks up the folder of each new message and notifies.      *)
(* Several may be alive: a monitor does not wait for the watcher it stops  *)
(* before it starts the next.                                              *)
(*                                                                         *)
(* The mailbox is the server's.  A message keeps its UID, its place in the *)
(* order of arrival, and its folder; it may be expunged at any time, even  *)
(* between a search and the fetch of what it found.                        *)
(***************************************************************************)
EXTENDS Integers, Sequences, FiniteSetsExt

CONSTANTS
    Messages,     \* what may arrive, each once
    Backlog,      \* the messages already there, a sequence
    MessageID,    \* the Message-ID of each message
    Headless,     \* those without the header, known by their UID
    Folder,       \* the folder each message is in
    Watchers,     \* watcher goroutines; a name is used again when one has ended
    FailingImap,  \* the IMAP commands that may fail
    Expunging,    \* whether messages are expunged
    maxSeenIDs    \* the bound on seen

Commands == {"status", "search", "fetch", "folders", "lookup"}

ASSUME WatcherAssumption ==
    /\ Backlog \in Seq(Messages)
    /\ Headless \subseteq Messages
    /\ FailingImap \subseteq Commands
    /\ Expunging \in BOOLEAN
    /\ maxSeenIDs \in Nat

FolderNames == {Folder[m] : m \in Messages} \cup {"unknown"}

VARIABLES
    box,      \* the messages that have arrived, by UID
    gone,     \* the UIDs of those expunged
    watcher,  \* the state of each watcher, a record
    handled   \* the messages looked up so far, each with the answer

serverVars == <<box, gone>>
vars == <<box, gone, watcher, handled>>

UIDs == 1..Len(box)
Present == UIDs \ gone
uidNext == Len(box) + 1
IdOf(uid) == MessageID[box[uid]]

\* "retry" is watchIMAPInbox between two connections.
WatcherPcs == {"none", "retry", "poll", "search", "fetch", "lookup"}

\* stop says that the channel is closed.  highUID, lastUIDNext, seen and pending
\* are the variables of the code, and conn tells whether there is a folderConn;
\* found is what the search found.  Two are history: seed is the highUID the
\* connection began with, missed what its fetches that failed were to bring.
WatcherStates ==
    [pc          : WatcherPcs,
     stop        : BOOLEAN,
     seed        : Nat,
     highUID     : Nat,
     lastUIDNext : Nat,
     found       : SUBSET Nat,
     seen        : SUBSET {MessageID[m] : m \in Messages},
     pending     : SUBSET Nat,
     conn        : BOOLEAN,
     missed      : SUBSET Nat]

NoWatcher ==
    [pc |-> "none", stop |-> FALSE, seed |-> 0, highUID |-> 0, lastUIDNext |-> 0,
     found |-> {}, seen |-> {}, pending |-> {}, conn |-> FALSE, missed |-> {}]

\* Every variable has values of its type, and no watcher knows of a UID that the
\* mailbox has not given out.
TypeOK ==
    /\ box \in Seq(Messages)
    /\ gone \subseteq UIDs
    /\ watcher \in [Watchers -> WatcherStates]
    /\ \A w \in Watchers :
         /\ {watcher[w].seed, watcher[w].highUID} \subseteq 0..Len(box)
         /\ watcher[w].lastUIDNext \in 0..uidNext
         /\ watcher[w].found \cup watcher[w].pending \cup watcher[w].missed \subseteq UIDs
    /\ handled \in Seq([by : Watchers, uid : UIDs, folder : FolderNames])

Init ==
    /\ box = Backlog
    /\ gone = {}
    /\ watcher = [w \in Watchers |-> NoWatcher]
    /\ handled = <<>>

-----------------------------------------------------------------------------
(* The mailbox.                                                            *)

Arrives(m) ==
    /\ \A uid \in UIDs : box[uid] # m
    /\ box' = Append(box, m)
    /\ UNCHANGED <<gone, watcher, handled>>

Expunge(uid) ==
    /\ Expunging
    /\ uid \notin gone
    /\ gone' = gone \cup {uid}
    /\ UNCHANGED <<box, watcher, handled>>

\* UID SEARCH from:* in IMAP: * is the last message there is, and a range may be
\* given either way round, so that the last message is always found.
UidSearch(from) ==
    {uid \in Present : uid >= from} \cup (IF Present = {} THEN {} ELSE {Max(Present)})

-----------------------------------------------------------------------------
(* The life of a watcher.                                                  *)

IsAt(w, pc) == watcher[w].pc = pc
Fails(command) == command \in FailingImap

Update(w, state) == watcher' = [watcher EXCEPT ![w] = state]

\* Nobody waits for the watchers of before to end.
StartWatcher(w) ==
    /\ IsAt(w, "none")
    /\ Update(w, [NoWatcher EXCEPT !.pc = "retry"])
    /\ UNCHANGED <<serverVars, handled>>

StopWatcher(w) ==
    /\ ~IsAt(w, "none")
    /\ ~watcher[w].stop
    /\ Update(w, [watcher[w] EXCEPT !.stop = TRUE])
    /\ UNCHANGED <<serverVars, handled>>

\* watchIMAPInbox looks at stop before each connection and while it backs off.
Returns(w) ==
    /\ IsAt(w, "retry")
    /\ watcher[w].stop
    /\ Update(w, NoWatcher)
    /\ UNCHANGED <<serverVars, handled>>

\* connectAndWatch returns, and all that it knew is lost.
Disconnected(w) ==
    Update(w, [NoWatcher EXCEPT !.pc = "retry", !.stop = watcher[w].stop])

\* Mutant: highUID starts at UIDNEXT itself.
ConnectedAtNext(w) ==
    [watcher[w] EXCEPT !.pc = "poll",
                       !.seed = uidNext - 1,
                       !.highUID = uidNext,
                       !.lastUIDNext = uidNext]

Connected(w) ==
    [watcher[w] EXCEPT !.pc = "poll",
                       !.seed = uidNext - 1,
                       !.highUID = uidNext - 1,
                       !.lastUIDNext = uidNext]

\* Mutant: stop is not looked at before a connection.
ConnectEvenStopped(w) ==
    /\ IsAt(w, "retry")
    /\ Update(w, Connected(w))
    /\ UNCHANGED <<serverVars, handled>>

\* connectAndWatch up to its STATUS, which is what the connection starts from.  When
\* it fails, watchIMAPInbox goes round its loop.
ConnectAndWatch(w) ==
    /\ IsAt(w, "retry")
    /\ ~watcher[w].stop
    /\ Update(w, Connected(w))
    /\ UNCHANGED <<serverVars, handled>>

-----------------------------------------------------------------------------
(* pollAllMail and fetchAndNotify.                                         *)

SeesStop(w) ==
    /\ IsAt(w, "poll")
    /\ watcher[w].stop
    /\ Disconnected(w)
    /\ UNCHANGED <<serverVars, handled>>

\* A tick at which UIDNEXT has changed; one at which it has not changes nothing.
Poll(w) ==
    /\ IsAt(w, "poll")
    /\ \/ /\ watcher[w].lastUIDNext # uidNext
          /\ Update(w, [watcher[w] EXCEPT !.pc = "search", !.lastUIDNext = uidNext])
       \/ Fails("status") /\ Disconnected(w)
    /\ UNCHANGED <<serverVars, handled>>

\* Mutant: highUID is brought up to the UIDNEXT of now, not of the poll.
EndPollNow(s) ==
    [s EXCEPT !.pc = "poll",
              !.found = {},
              !.conn = FALSE,
              !.highUID = Max({@, uidNext - 1}),
              !.seen = IF Cardinality(@) > maxSeenIDs THEN {} ELSE @]

\* Mutant: so is lastUIDNext.
EndPollCaughtUp(s) ==
    [s EXCEPT !.pc = "poll",
              !.found = {},
              !.conn = FALSE,
              !.lastUIDNext = uidNext,
              !.highUID = Max({@, s.lastUIDNext - 1}),
              !.seen = IF Cardinality(@) > maxSeenIDs THEN {} ELSE @]

\* The end of a poll that found UIDNEXT changed.
EndPoll(s) ==
    [s EXCEPT !.pc = "poll",
              !.found = {},
              !.conn = FALSE,
              !.highUID = Max({@, s.lastUIDNext - 1}),
              !.seen = IF Cardinality(@) > maxSeenIDs THEN {} ELSE @]

Search(w) ==
    /\ IsAt(w, "search")
    /\ \/ LET s == watcher[w]
              found == UidSearch(s.highUID + 1)
          IN  Update(w, IF found = {} THEN EndPoll(s)
                        ELSE [s EXCEPT !.pc = "fetch",
                                       !.found = found,
                                       !.highUID = Max(found \cup {@})])
       \/ Fails("search") /\ Disconnected(w)
    /\ UNCHANGED <<serverVars, handled>>

\* Mutant: seen is not consulted.
FreshAll(uids, seen) == uids

\* The messages whose Message-ID is seen for the first time.
Fresh(uids, seen) ==
    {u \in uids : IdOf(u) \notin seen /\ \A v \in uids : v < u => IdOf(v) # IdOf(u)}

\* openFolderLookupConn: without it every folder will be unknown.
OpenFolders == {TRUE} \cup (IF Fails("folders") THEN {FALSE} ELSE {})

\* UID FETCH answers for the messages that are still there, in the order of their
\* UIDs, in which they will be looked up.  When it fails, those that were read until
\* then are in seen all the same.
Fetch(w) ==
    /\ IsAt(w, "fetch")
    /\ LET s == watcher[w]
           uids == s.found \cap Present
           Seen(read) == [s EXCEPT !.seen = @ \cup {IdOf(u) : u \in read}]
           fresh == Fresh(uids, s.seen)
       IN  \/ fresh = {} /\ Update(w, EndPoll(s))
           \/ /\ fresh # {}
              /\ \E conn \in OpenFolders :
                   Update(w, [Seen(uids) EXCEPT !.pc = "lookup",
                                                !.found = {},
                                                !.pending = fresh,
                                                !.conn = conn])
           \/ /\ Fails("fetch")
              /\ \E n \in 0..Len(box) :
                   Update(w, [EndPoll(Seen({u \in uids : u <= n}))
                                EXCEPT !.missed = @ \cup uids])
    /\ UNCHANGED <<serverVars, handled>>

\* The folders where a message with the Message-ID of uid is found.
FoldersOf(uid) ==
    {Folder[box[u]] : u \in {v \in Present : IdOf(v) = IdOf(uid) /\ box[v] \notin Headless}}

\* findMessageFolder.  A folder that cannot be selected or searched is passed over;
\* of the others the first counts, and INBOX is the first.
FolderAnswers(w, uid) ==
    LET folders == FoldersOf(uid)
    IN  IF ~watcher[w].conn \/ folders = {} THEN {"unknown"}
        ELSE IF Fails("lookup") THEN folders \cup {"unknown"}
        ELSE IF "INBOX" \in folders THEN {"INBOX"} ELSE folders

skipFolders == {"Sent", "Drafts"}

\* One round of the loop over pending: the folder is looked up, and Notify called
\* unless it is to be skipped.
Lookup(w) ==
    /\ IsAt(w, "lookup")
    /\ LET s == watcher[w]
           uid == Min(s.pending)
           rest == [s EXCEPT !.pending = @ \ {uid}]
       IN  /\ \E folder \in FolderAnswers(w, uid) :
                handled' = Append(handled, [by |-> w, uid |-> uid, folder |-> folder])
           /\ Update(w, IF rest.pending = {} THEN EndPoll(rest) ELSE rest)
    /\ UNCHANGED serverVars

-----------------------------------------------------------------------------
WatcherStep(w) ==
    \/ Returns(w) \/ ConnectAndWatch(w) \/ SeesStop(w) \/ Poll(w)
    \/ Search(w) \/ Fetch(w) \/ Lookup(w)

Next ==
    \/ \E m \in Messages : Arrives(m)
    \/ \E uid \in UIDs : Expunge(uid)
    \/ \E w \in Watchers : StartWatcher(w) \/ StopWatcher(w) \/ WatcherStep(w)

Spec == Init /\ [][Next]_vars

\* A watcher runs, and its commands return: each has a timeout.
FairSpec == Spec /\ \A w \in Watchers : WF_vars(WatcherStep(w))

-----------------------------------------------------------------------------
(* Properties.                                                             *)

\* The notification for this entry of handled was sent.
Sent(entry) == entry.folder \notin skipFolders

HandledBy(w) == {handled[i].uid : i \in {j \in DOMAIN handled : handled[j].by = w}}

\* highUID is a high-water mark: every message since the connection began with a
\* UID up to it was looked up, or has the Message-ID of one that was, or is gone,
\* unless the very fetch that was to bring it failed.  No arrival or purge between
\* STATUS, SEARCH and FETCH slips through, and what a failure loses goes no further.
NoneBelowHighWater ==
    \A w \in Watchers : IsAt(w, "poll") =>
        \A uid \in Present : watcher[w].seed < uid /\ uid <= watcher[w].highUID =>
            \E h \in HandledBy(w) \cup watcher[w].missed : IdOf(h) = IdOf(uid)

\* imap.go:88-89: a watcher only looks at messages delivered after its connection
\* began.
OnlyNewMail ==
    \A w \in Watchers : \A uid \in watcher[w].pending : uid > watcher[w].seed

\* A watcher that its monitor told to stop ends: though each select may prefer its
\* tick, and connections break, it neither polls for ever nor goes on reconnecting.
StoppedEnds == \A w \in Watchers : watcher[w].stop ~> IsAt(w, "none")

\* Of a connection that lasts: it looks up every message that arrives after it
\* began, or one with the same Message-ID, if it is not expunged and no fetch of it
\* failed.
EachLookedUp ==
    \A w \in Watchers, m \in Messages :
        (\E uid \in Present : box[uid] = m /\ IsAt(w, "poll") /\ uid > watcher[w].seed)
            ~> \/ \E uid \in gone : box[uid] = m
               \/ IsAt(w, "none") \/ IsAt(w, "retry")
               \/ \E h \in HandledBy(w) \cup watcher[w].missed :
                    IdOf(h) = MessageID[m]
=============================================================================
