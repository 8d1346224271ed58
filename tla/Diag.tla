---------------------------------- MODULE Diag ----------------------------------
(***************************************************************************)
(* SecurityAccess (0x27) on the application's diagnostic connection: one    *)
(* server (comm/uds/uds.v) that the bus and the network share              *)
(* (comm/diag/diag.v), each with its own unlock and its own exchange in    *)
(* progress.  Wrong keys are counted, a lockout runs, and both go through  *)
(* the node's own reset in the keep cell (boards/common/diag_board.c),     *)
(* stored word by word.                                                    *)
(*                                                                         *)
(* Two session entries are told apart by what is kept of the first: an     *)
(* exchange or a hidden unlock of an earlier entry is gone when the next   *)
(* begins, where the code compares session_epoch.  Each level's count has  *)
(* a word of the cell to itself, and the check word is the words' tuple.   *)
(***************************************************************************)
EXTENDS Integers, Sequences

CONSTANTS
    SaLevels,       \* the levels served: 1 .. n
    SaAttempts,     \* sa_max_attempts
    SaDelay,        \* ticks: sa_delay
    SessionS3,      \* ticks: s3
    MaxTrouble      \* bound: other resets and power cuts

ASSUME DiagAssumption ==
    /\ SaLevels \in Nat /\ SaAttempts \in Nat /\ SaDelay \in Nat /\ SessionS3 \in Nat
    /\ MaxTrouble \in Nat

VARIABLES
    target,         \* owner_resets: the node resets; a host's server only returns to power-on
    sa,             \* uds.Server
    dc,             \* diag.Connection, with its RemoteReset and whether its link is busy
    keep,           \* the keep cell: the words stored, the check word last, and the magic
    owner,          \* what the comm thread does: "serves", the words of the save it has
                    \* stored, "starts"
    rng,            \* g_sa_rng
    trouble,
    \* history
    proved,         \* the level each transport unlocked and has not lost
    run, owed,      \* wrong keys in a row; ticks of lockout still to come
    early,          \* a seed was given while some were
    saved, misled   \* the last whole save nobody took; a start took something else

diagVars == <<target, sa, dc, keep, owner, rng, trouble, proved, run, owed, early, saved, misled>>

Transports == {"wire", "ip"}

Nothing == [l \in 1 .. SaLevels |-> 0]
AnyFailed(f) == \E l \in 1 .. SaLevels : f[l] > 0

\* reset_state, at power-on.
Fresh == [session |-> "default", unlocked |-> 0, failed |-> Nothing, arm |-> FALSE,
          wait |-> 0, reset |-> FALSE, quiet |-> 0]

Unconnected == [owns |-> FALSE, unlockRemote |-> FALSE, back |-> 0, backRemote |-> FALSE,
                level |-> [t \in Transports |-> 0], inflight |-> FALSE, rreset |-> FALSE,
                acked |-> FALSE, busy |-> FALSE]

\* What kept_security gives, and what a save of it leaves in the words.
Locking(s) == s.arm \/ s.wait > 0
KeptSecurity(s) == Append(s.failed, IF Locking(s) THEN 1 ELSE 0)
KeepWords == SaLevels + 1
NoneKept == [w \in 1 .. KeepWords |-> 0]
EmptyKeep == [magic |-> FALSE, words |-> NoneKept, check |-> NoneKept]

\* diag_sa_init: the RNG's clock came, or never did, and that is remembered.
SaInit == BOOLEAN

DiagInit ==
    /\ target \in BOOLEAN
    /\ sa = Fresh /\ dc = Unconnected /\ keep = EmptyKeep
    /\ owner = <<"serves", 0>>
    /\ rng \in SaInit /\ trouble = 0
    /\ proved = [t \in Transports |-> 0] /\ run = Nothing /\ owed = 0 /\ early = FALSE
    /\ saved = <<>> /\ misled = FALSE

Serving == owner[1] = "serves"
cellVars == <<target, keep, owner, rng, trouble, saved, misled>>
lockVars == <<run, owed, early>>

-------------------------------------------------------------------------------
\* The server and what the connection does around a request.

\* enter_session: relocked, and what belonged to the entry before is void.
Entered(s, session) == [s EXCEPT !.session = session, !.unlocked = 0, !.quiet = 0]
Voided(c) == [c EXCEPT !.level = [t \in Transports |-> 0], !.back = 0]

\* enter: the other transport's unlock is hidden.
Hides(t) == sa.unlocked # 0 /\ dc.unlockRemote # (t = "ip")
Seen(t) == IF Hides(t) THEN [sa EXCEPT !.unlocked = 0, !.quiet = 0] ELSE [sa EXCEPT !.quiet = 0]

\* A slip: what was hidden comes back though a session was entered since.
AlwaysBack(t, s, session) == s.unlocked = 0 /\ Hides(t)

\* It comes back, or is kept for a reset that is cancelled, unless the request earned an unlock
\* or entered a session.
ComesBack(t, s, session) == s.unlocked = 0 /\ Hides(t) /\ ~session

\* leave: s and c are what the request made of them, session whether it entered one.
Leaves(t, s, c, session) ==
    LET back == ComesBack(t, s, session)
    IN  <<[s EXCEPT !.unlocked = IF back /\ ~s.reset THEN sa.unlocked ELSE @],
          [c EXCEPT !.unlockRemote = IF s.unlocked # 0 THEN t = "ip" ELSE @,
                    !.back = IF back /\ s.reset THEN sa.unlocked ELSE @,
                    !.backRemote = IF back /\ s.reset THEN dc.unlockRemote ELSE @,
                    !.owns = IF session THEN t = "ip" ELSE @]>>

\* cancel_reset: what the reset's request hid comes back.
CancelledReset(s, c) ==
    IF c.back # 0 /\ s.unlocked = 0
    THEN <<[s EXCEPT !.reset = FALSE, !.unlocked = c.back],
           [c EXCEPT !.back = 0, !.unlockRemote = c.backRemote]>>
    ELSE <<[s EXCEPT !.reset = FALSE], [c EXCEPT !.back = 0]>>

\* A request over t is served: the bus takes one at a time, none once a reset is pending.
CanServe(t) == Serving /\ ~sa.reset /\ (t = "wire" => ~dc.busy)

\* serve, functional and serve_remote around what dispatch made of the server: the answer is
\* queued or refused by the link (`lost`: the reset it announced is off).
Answered(t, s, c, session, answers, lost) ==
    LET after == Leaves(t, s, c, session)
        d == [after[2] EXCEPT
                !.inflight = @ \/ t = "ip",
                !.rreset = IF t = "wire" THEN FALSE ELSE @ \/ s.reset,
                !.acked = IF t = "wire" \/ s.reset THEN FALSE ELSE @,
                !.busy = @ \/ (t = "wire" /\ answers /\ ~lost)]
        end == IF lost THEN CancelledReset(after[1], d) ELSE <<after[1], d>>
    IN  /\ lost => t = "wire" /\ answers
        /\ sa' = end[1] /\ dc' = end[2]
        /\ UNCHANGED cellVars

Served(t, s, c, session) ==
    \E answers, lost \in BOOLEAN : Answered(t, s, c, session, answers, lost)

\* Any other request, refused or served without a change.
Asks(t) == CanServe(t) /\ Served(t, Seen(t), dc, FALSE) /\ UNCHANGED <<proved, lockVars>>

\* While a reset is pending: acknowledged and not served.
DropsWhilePending ==
    /\ Serving /\ sa.reset
    /\ dc' = [dc EXCEPT !.inflight = TRUE]
    /\ UNCHANGED <<sa, cellVars, proved, lockVars>>

AsksSession(t) ==
    /\ CanServe(t)
    /\ \E session \in {"default", "extended"} :
         Served(t, Entered(Seen(t), session), Voided(dc), TRUE)
    /\ proved' = [o \in Transports |-> 0]
    /\ UNCHANGED lockVars

\* ecu_reset and the programming handoff: recorded, and performed once answered.
AsksReset(t) ==
    /\ CanServe(t)
    /\ Served(t, [Seen(t) EXCEPT !.reset = TRUE], dc, FALSE)
    /\ UNCHANGED <<proved, lockVars>>

-------------------------------------------------------------------------------
\* 0x27, served outside the default session, and asked physically.
CanUnlock(t) == CanServe(t) /\ sa.session # "default"

\* sa_rng_draw: a draw ends with the bytes, a health-test error, or no word in time.
RngDraw == {"drawn", "error", "stall"}

\* diag_sa_seed: an error is recovered from and the seed drawn again, three times at most.
SaSeed ==
    {rng /\ \E n \in 1 .. 3 : ends[n] = "drawn" /\ \A m \in 1 .. n - 1 : ends[m] = "error" :
        ends \in [1 .. 3 -> RngDraw]}

\* request_seed.
SeedRefused(t) ==
    /\ CanUnlock(t) /\ Locking(sa)
    /\ Served(t, Seen(t), dc, FALSE) /\ UNCHANGED <<proved, lockVars>>

AsksSeed(t) ==
    /\ CanUnlock(t) /\ ~Locking(sa)
    /\ \E l \in 1 .. SaLevels, given \in SaSeed :
         LET seed == given /\ Seen(t).unlocked # l
         IN  /\ Served(t, Seen(t), [dc EXCEPT !.level[t] = IF seed THEN l ELSE 0], FALSE)
             /\ early' = (early \/ (seed /\ owed > 0))
    /\ UNCHANGED <<proved, run, owed>>

\* send_key: a wrong key, counted; the last one allowed begins the lockout.
WrongKey(t) ==
    /\ CanUnlock(t) /\ dc.level[t] # 0
    /\ LET l == dc.level[t]
           last == sa.failed[l] + 1 >= SaAttempts
           s == [Seen(t) EXCEPT !.failed[l] = IF last THEN 0 ELSE @ + 1,
                                !.wait = IF last THEN SaDelay ELSE @]
       IN  /\ Served(t, s, [dc EXCEPT !.level[t] = 0], FALSE)
           /\ run' = [run EXCEPT ![l] = IF @ + 1 >= SaAttempts THEN 0 ELSE @ + 1]
           /\ owed' = IF run[l] + 1 >= SaAttempts THEN SaDelay ELSE owed
    /\ UNCHANGED <<proved, early>>

RightKey(t) ==
    /\ CanUnlock(t) /\ dc.level[t] # 0
    /\ LET l == dc.level[t]
       IN  /\ Served(t, [Seen(t) EXCEPT !.failed[l] = 0, !.unlocked = l],
                     [dc EXCEPT !.level[t] = 0], FALSE)
           /\ run' = [run EXCEPT ![l] = 0]
           /\ proved' = [o \in Transports |-> IF o = t THEN l ELSE 0]
    /\ UNCHANGED <<owed, early>>

-------------------------------------------------------------------------------
\* The bus answer has left the link, or the channel refused a frame of it.
AnswerLeaves ==
    /\ Serving /\ dc.busy /\ dc' = [dc EXCEPT !.busy = FALSE]
    /\ UNCHANGED <<sa, cellVars, proved, lockVars>>

AnswerLost ==
    /\ Serving /\ dc.busy
    /\ LET c == [dc EXCEPT !.busy = FALSE]
           end == IF c.rreset THEN <<sa, c>> ELSE CancelledReset(sa, c)
       IN  sa' = end[1] /\ dc' = end[2]
    /\ UNCHANGED <<cellVars, proved, lockVars>>

RemoteAcked ==
    /\ Serving /\ dc.inflight
    /\ dc' = [dc EXCEPT !.inflight = FALSE, !.acked = @ \/ dc.rreset]
    /\ UNCHANGED <<sa, cellVars, proved, lockVars>>

\* remote_dropped: the network tester's reset, session, unlock and exchange end with it.
RemoteGone ==
    /\ Serving
    /\ LET off == IF dc.rreset /\ ~dc.acked THEN CancelledReset(sa, dc) ELSE <<sa, dc>>
           c == off[2]
           s == IF c.owns THEN Entered(off[1], "default") ELSE off[1]
           d == IF c.owns THEN Voided(c) ELSE c
       IN  /\ sa' = IF c.unlockRemote THEN [s EXCEPT !.unlocked = 0] ELSE s
           /\ dc' = [d EXCEPT !.inflight = FALSE, !.owns = FALSE, !.unlockRemote = FALSE,
                              !.back = IF d.backRemote THEN 0 ELSE @, !.level["ip"] = 0]
           /\ proved' = [t \in Transports |-> IF c.owns \/ t = "ip" THEN 0 ELSE proved[t]]
    /\ UNCHANGED <<cellVars, lockVars>>

\* housekeep, a tick of time later; the delay a reset armed begins with the first.
Elapses ==
    /\ Serving /\ ~(sa.reset /\ ~dc.busy /\ ~dc.inflight)
    /\ LET held == dc.busy \/ dc.inflight \/ sa.session = "default"
           quiet == IF held THEN 0 ELSE sa.quiet + 1
           s == [sa EXCEPT !.arm = FALSE, !.quiet = quiet,
                           !.wait = IF sa.arm THEN SaDelay ELSE IF @ > 0 THEN @ - 1 ELSE 0]
           over == quiet > SessionS3
       IN  /\ sa' = IF over THEN Entered(s, "default") ELSE s
           /\ dc' = IF over THEN Voided(dc) ELSE dc
           /\ proved' = IF over THEN [t \in Transports |-> 0] ELSE proved
           /\ owed' = IF sa.arm \/ owed = 0 THEN owed ELSE owed - 1
    /\ UNCHANGED <<cellVars, run, early>>

-------------------------------------------------------------------------------
\* A reset of the node's own costs what was owed, and with wrong keys counted the whole delay.
ResetCost == IF AnyFailed(run) THEN SaDelay ELSE owed
LostAll ==
    /\ proved' = [t \in Transports |-> 0]
    /\ sa' = Fresh /\ dc' = Unconnected

DueReset == sa.reset /\ ~dc.busy /\ ~dc.inflight

\* apply_answered_reset where the owner does not reset itself: the counts and a running
\* lockout survive.
HostResets ==
    /\ Serving /\ ~target /\ DueReset
    /\ sa' = [Fresh EXCEPT !.failed = sa.failed, !.arm = AnyFailed(sa.failed), !.wait = sa.wait]
    /\ dc' = [Voided(dc) EXCEPT !.back = 0]
    /\ proved' = [t \in Transports |-> 0]
    /\ owed' = ResetCost
    /\ UNCHANGED <<cellVars, run, early>>

\* The answered reset is performed: the 0x27 state is saved first.
BeginsReset ==
    /\ Serving /\ target /\ DueReset
    /\ owner' = <<"saves", 1>>
    /\ UNCHANGED <<target, sa, dc, keep, rng, trouble, proved, lockVars, saved, misled>>

\* diag_keep_save: word by word, the check word, and the magic last.
KeepSaves ==
    /\ owner[1] = "saves" /\ owner[2] <= KeepWords + 2
    /\ LET k == owner[2]
           v == KeptSecurity(sa)
       IN  /\ keep' = [keep EXCEPT
                         !.words = IF k <= KeepWords THEN [@ EXCEPT ![k] = v[k]] ELSE @,
                         !.check = IF k = KeepWords + 1 THEN v ELSE @,
                         !.magic = @ \/ k = KeepWords + 2]
           /\ saved' = IF k = KeepWords + 2 THEN v ELSE saved
    /\ owner' = <<"saves", owner[2] + 1>>
    /\ UNCHANGED <<target, sa, dc, rng, trouble, proved, lockVars, misled>>

KeepReset ==
    /\ owner = <<"saves", KeepWords + 3>>
    /\ owner' = <<"starts", 0>>
    /\ LostAll
    /\ owed' = ResetCost
    /\ UNCHANGED <<target, keep, rng, trouble, run, early, saved, misled>>

\* diag_keep_load: what it finds, and the cell after it.
Loaded == IF keep.magic /\ keep.check = keep.words THEN keep.words ELSE <<>>
Consumed == [keep EXCEPT !.magic = FALSE]

\* The start: init, diag_sa_init, and restore_security with what the cell keeps.
Starts ==
    /\ owner[1] = "starts"
    /\ owner' = <<"serves", 0>> /\ keep' = Consumed
    /\ rng' \in SaInit
    /\ sa' = IF Loaded = <<>> THEN sa
             ELSE [sa EXCEPT !.failed = [l \in 1 .. SaLevels |-> Loaded[l]],
                             !.arm = Loaded[KeepWords] # 0 \/ \E l \in 1 .. SaLevels : Loaded[l] > 0]
    /\ misled' = (misled \/ Loaded # saved) /\ saved' = <<>>
    /\ UNCHANGED <<target, dc, trouble, proved, lockVars>>

\* Another reset, and a power cut: the counts are lost, unless a whole save was standing.
Forgets ==
    /\ target /\ trouble < MaxTrouble /\ trouble' = trouble + 1
    /\ owner' = <<"starts", 0>>
    /\ LostAll
    /\ UNCHANGED <<target, rng, early, misled>>

OtherReset ==
    /\ Forgets /\ UNCHANGED <<keep, saved>>
    /\ run' = IF saved = <<>> THEN Nothing ELSE run
    /\ owed' = IF saved = <<>> THEN 0 ELSE ResetCost
KeepPowerGone ==
    /\ Forgets /\ keep' = EmptyKeep /\ saved' = <<>>
    /\ run' = Nothing /\ owed' = 0

DiagNext ==
    \/ \E t \in Transports :
         \/ Asks(t) \/ AsksSession(t) \/ AsksReset(t)
         \/ SeedRefused(t) \/ AsksSeed(t) \/ WrongKey(t) \/ RightKey(t)
    \/ DropsWhilePending \/ AnswerLeaves \/ AnswerLost \/ RemoteAcked \/ RemoteGone
    \/ Elapses \/ HostResets \/ BeginsReset \/ KeepSaves \/ KeepReset \/ Starts
    \/ OtherReset \/ KeepPowerGone

DiagSpec == DiagInit /\ [][DiagNext]_diagVars

-------------------------------------------------------------------------------
\* What a request over t would find unlocked.
Visible(t) == IF Hides(t) THEN 0 ELSE sa.unlocked
HeldFor(t) == IF sa.reset /\ dc.back # 0 /\ dc.backRemote = (t = "ip") THEN dc.back ELSE 0

\* A transport sees the unlock it earned itself in this session entry, and no other; and it
\* does not lose it to what the other one asks, unless that unlocks in turn.
UnlockOfItsOwn == \A t \in Transports : IF Visible(t) # 0 THEN Visible(t) = proved[t]
                                         ELSE HeldFor(t) = proved[t]

\* diag.v, uds.v, diag_board.c: unlocks stay with the transport that earned them, no seed is
\* given in a lockout whatever resets came, and a start finds what the reset saved.
DiagHonest == UnlockOfItsOwn /\ ~early /\ ~misled

===============================================================================
