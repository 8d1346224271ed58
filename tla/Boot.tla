---------------------------------- MODULE Boot ----------------------------------
(***************************************************************************)
(* The boot manager: the request cell an application leaves               *)
(* (boards/common/bootcell.h, boot_handoff.c), the decision after a reset  *)
(* (boot/target/main.v, boot/boot.v), and the programming session the stay *)
(* path serves over two transports (boot/prog.v), erasing and programming  *)
(* through boards/common/flash_h72x.c.  Power goes anywhere, between two   *)
(* stores and inside an erase or a program.                                *)
(*                                                                         *)
(* The application slot is two sectors: the header word and the mark word  *)
(* in the first, the image with its signature as one word in the second.   *)
(* A word holds one of two images, "signed" passing the image key and      *)
(* "plain" only the CRC.                                                   *)
(***************************************************************************)
EXTENDS Integers, FiniteSets

CONSTANTS
    S3, IdleReturn, NetWait,    \* ticks: s3_server_us, idle_return_us, net_wait_us
    Resends,                    \* work_resend_max
    MaxMishaps                  \* bound: power cuts and failing flash operations

ASSUME BootAssumption ==
    /\ S3 \in Nat /\ IdleReturn \in Nat /\ NetWait \in Nat /\ S3 <= IdleReturn
    /\ Resends \in Nat /\ MaxMishaps \in Nat

\* Where the count of silent ticks stops: past every limit.
Longest == IF NetWait <= IdleReturn THEN IdleReturn ELSE NetWait

VARIABLES
    \* what outlives a reset
    slot,                       \* the application slot: [FlashWords -> content]
    request,                    \* the request cell: [magic, kind]
    \* the program that runs
    bootMode,                   \* "reset", "app" or "boot"
    appAt,                      \* the application's place in bootcell_request; its kind
    entered,                    \* g_requested, g_app_ok, and g_net_ready
    prog,                       \* Prog
    busOut,                     \* a response in the link or the controller
    mishaps,
    \* history
    promised,                   \* the request that was completed and not taken
    prover,                     \* the transport whose proof unlocked
    still,                      \* ticks since a tester that may use the session was there
    misread                     \* a boot took another request than was made

bootVars == <<slot, request, bootMode, appAt, entered, prog, busOut, mishaps,
              promised, prover, still, misread>>

FlashWords == {"hdr", "mark", "body"}
WordAt == <<"hdr", "mark", "body">>
Sectors == {1, 2}
SectorOf == [hdr |-> 1, mark |-> 1, body |-> 2]
Regions == {<<1, 3>>, <<3, 3>>}    \* downloaded at once: all, or the image alone
Images == {"signed", "plain"}
Via == {"bus", "net"}
Requests == {"shell"} \cup Via

-------------------------------------------------------------------------------
\* The flash.  A word is blank, torn, or holds what was programmed; a torn one reads as
\* nothing the layers above accept.

\* bflash_erase of a sector, done; what a failing or interrupted one may leave.
ErasedUnit(s) == [w \in FlashWords |-> IF SectorOf[w] = s THEN "blank" ELSE slot[w]]
HalfErasedUnit(s) ==
    {f \in [FlashWords -> {"blank", "torn"} \cup {slot[w] : w \in FlashWords}] :
        \A w \in FlashWords : f[w] \in IF SectorOf[w] = s /\ slot[w] # "blank"
                                  THEN {"blank", "torn", slot[w]} ELSE {slot[w]}}

\* bflash_program of one word: over anything but blank it only tears.
Programmed(w, c) ==
    [slot EXCEPT ![w] = IF @ \in {"blank", c} THEN c ELSE "torn"]
HalfProgrammed(w) == {slot, [slot EXCEPT ![w] = "torn"]}

\* What a flash operation leaves and returns: done, or failed.
EraseEnds(s) == {<<ErasedUnit(s), TRUE>>} \cup (HalfErasedUnit(s) \X {FALSE})
ProgramEnds(w, c) == {<<Programmed(w, c), TRUE>>} \cup (HalfProgrammed(w) \X {FALSE})
Flashes(end) ==
    /\ slot' = end[1]
    /\ mishaps' = mishaps + IF end[2] THEN 0 ELSE 1
    /\ mishaps' <= MaxMishaps

\* bflash_read, to the flash word: one that is torn reads as zeros.
ReadWord(w) == IF slot[w] = "torn" THEN "zeros" ELSE slot[w]

\* check_image_slot: header, CRC and mark; the signature is not looked at again.
CheckImageSlot ==
    slot.hdr \in Images /\ slot.body = slot.hdr /\ slot.mark = "VALD"

\* A slip: the check before the mark stops at the CRC.
CrcOnly == ReadWord("hdr") \in Images /\ ReadWord("body") = ReadWord("hdr")

\* check_and_mark, up to the mark.
Verified == ReadWord("hdr") = "signed" /\ ReadWord("body") = "signed"

-------------------------------------------------------------------------------
\* The cell after power-on and once its request is consumed: no magic, so its kind is not
\* looked at; one value stands for them all.
Garbage == [magic |-> FALSE, kind |-> "shell"]

\* Prog after init.
Locked == [session |-> "default", owner |-> "none", unlocked |-> FALSE,
           challenge |-> FALSE, erased |-> FALSE, next |-> 0, end |-> 0, image |-> "plain",
           staged |-> FALSE, spoke |-> FALSE, awaitNet |-> FALSE, reset |-> FALSE,
           inflight |-> FALSE, netReset |-> FALSE, acked |-> FALSE, work |-> "none",
           via |-> "bus", units |-> {}, out |-> FALSE, push |-> FALSE, ready |-> FALSE,
           resend |-> FALSE, tries |-> 0, quiet |-> 0]

NotEntered == [requested |-> FALSE, appOk |-> FALSE, netUp |-> FALSE]

BootInit ==
    /\ slot \in {[w \in FlashWords |-> IF w = "mark" THEN "VALD" ELSE "signed"],
                  [w \in FlashWords |-> "blank"]}
    /\ request = Garbage
    /\ bootMode = "reset"
    /\ appAt = <<"run", "shell">>
    /\ entered = NotEntered
    /\ prog = Locked /\ busOut = FALSE
    /\ mishaps = 0
    /\ promised = "none" /\ prover = "none" /\ still = 0 /\ misread = FALSE

serveVars == <<request, bootMode, appAt, entered, promised, misread>>
flashVars == <<slot, mishaps>>

\* open_handed_off.
HandedOff(via) ==
    [Locked EXCEPT !.session = "programming", !.owner = via, !.awaitNet = via = "net"]

\* bootcell_take_request, and the transport boot_take_request tells of it.
TakenRequest == IF request.magic THEN request.kind ELSE "none"
Handoff(why) == IF why \in Via THEN why ELSE "none"

\* entry: the request is taken and the slot checked; the application is started, or the
\* boot manager stays.
BootEntry ==
    /\ bootMode = "reset"
    /\ LET why == TakenRequest
           ok == CheckImageSlot
       IN  /\ request' = IF request.magic THEN Garbage ELSE request
           /\ misread' = (misread \/ why # promised)
           /\ entered' = [requested |-> why # "none", appOk |-> ok, netUp |-> FALSE]
           /\ bootMode' = IF why = "none" /\ ok THEN "app" ELSE "boot"
           /\ prog' = IF Handoff(why) = "none" THEN Locked ELSE HandedOff(Handoff(why))
    /\ promised' = "none"
    /\ UNCHANGED <<flashVars, appAt, busOut, prover, still>>

\* The application: bootcell_request, store by store, and the reset that follows.
AppAsks(kind) ==
    /\ bootMode = "app" /\ appAt[1] = "run"
    /\ appAt' = <<"asked", kind>>
    /\ UNCHANGED <<flashVars, request, bootMode, entered, prog, busOut, promised,
                   prover, still, misread>>

\* A slip: the magic is stored before the kind it makes valid.
MagicFirst ==
    /\ bootMode = "app" /\ appAt[1] \in {"asked", "half"}
    /\ request' = IF appAt[1] = "asked" THEN [request EXCEPT !.magic = TRUE]
                  ELSE [request EXCEPT !.kind = appAt[2]]
    /\ appAt' = <<IF appAt[1] = "asked" THEN "half" ELSE "done", appAt[2]>>
    /\ promised' = IF appAt[1] = "half" THEN appAt[2] ELSE promised
    /\ UNCHANGED <<flashVars, bootMode, entered, prog, busOut, prover, still, misread>>

AppStores ==
    /\ bootMode = "app" /\ appAt[1] \in {"asked", "half"}
    /\ request' = IF appAt[1] = "asked" THEN [request EXCEPT !.kind = appAt[2]]
                  ELSE [request EXCEPT !.magic = TRUE]
    /\ appAt' = <<IF appAt[1] = "asked" THEN "half" ELSE "done", appAt[2]>>
    /\ promised' = IF appAt[1] = "half" THEN appAt[2] ELSE promised
    /\ UNCHANGED <<flashVars, bootMode, entered, prog, busOut, prover, still, misread>>

\* Any reset: RAM is what start-up makes it.
RamLost ==
    /\ bootMode' = "reset"
    /\ appAt' = <<"run", "shell">> /\ entered' = NotEntered
    /\ prog' = Locked /\ busOut' = FALSE
    /\ prover' = "none" /\ still' = 0 /\ UNCHANGED misread

\* The reset after the request; its own 0x11, its watchdog, the reset pin.
AppResets ==
    /\ bootMode = "app" /\ RamLost
    /\ UNCHANGED <<flashVars, request, promised>>

\* Power goes: what SRAM4 held is garbage, and its magic does not survive.
PowerGone(f) ==
    /\ mishaps < MaxMishaps /\ mishaps' = mishaps + 1
    /\ slot' = f
    /\ request' = Garbage
    /\ promised' = "none"
    /\ RamLost

-------------------------------------------------------------------------------
\* The server.  Most of its operations are functions of Prog.

\* The transport may use the session in force.
Mine(p, via) == p.session = "default" \/ p.owner \in {"none", via}

\* A slip: any activity keeps the session alive.
HeardAll(p, via) == [p EXCEPT !.quiet = 0]

HeardVia(p, via) == IF Mine(p, via) THEN [p EXCEPT !.quiet = 0] ELSE p

\* No download, no routine, no reset: what describes one is not read again.
NoDownload(p) == [p EXCEPT !.next = 0, !.end = 0, !.image = "plain", !.staged = FALSE]
NoWork(p) ==
    [p EXCEPT !.work = "none", !.via = "bus", !.units = {}, !.out = FALSE, !.push = FALSE,
              !.ready = FALSE, !.resend = FALSE, !.tries = 0]
NoReset(p) == [p EXCEPT !.reset = FALSE, !.netReset = FALSE, !.acked = FALSE]

EndSession(p) ==
    [NoWork(NoDownload(p)) EXCEPT
        !.session = "default", !.unlocked = FALSE, !.challenge = FALSE, !.erased = FALSE,
        !.owner = "none", !.awaitNet = FALSE, !.spoke = FALSE]

ResponseLeft(p) ==
    IF ~p.out THEN p
    ELSE IF p.work = "answer" THEN NoWork(p)
    ELSE [p EXCEPT !.out = FALSE, !.tries = 0, !.ready = TRUE]

ResponseLost(p) == IF p.out THEN [p EXCEPT !.out = FALSE, !.resend = TRUE] ELSE p

BusWork(p) == p.work # "none" /\ p.via = "bus" /\ p.out
CancelReset(p) == IF p.netReset THEN p ELSE NoReset(p)

\* The routine's next response is on its way, over the transport that asked.
Responds(p) == [p EXCEPT !.out = TRUE, !.push = p.via = "net"]
AnswerOut(p) == [Responds(p) EXCEPT !.work = "answer", !.tries = 0]

\* A request over `via` can be taken: the bus one at a time, none once a reset is pending.
Takes(via) ==
    /\ bootMode = "boot" /\ ~prog.reset
    /\ IF via = "bus" THEN ~busOut ELSE entered.netUp

\* handle_via lets it through to dispatch.
Serves(via) == Takes(via) /\ Mine(prog, via) /\ prog.work \in {"none", "answer"}

\* What serve_remote and serve_step do around a request, whatever becomes of it.
Around(via, p, answered) ==
    /\ prog' = IF via = "net" THEN [p EXCEPT !.inflight = TRUE] ELSE p
    /\ busOut' = (busOut \/ (via = "bus" /\ answered))
    /\ still' = IF Mine(prog, via) THEN 0 ELSE still
    /\ UNCHANGED serveVars

\* What handle_via does after dispatch: p is what dispatch made of it.
Owned(via, p) ==
    LET o == IF p.session = "default" THEN "none" ELSE via
    IN  [p EXCEPT !.owner = o, !.spoke = o = "net"]
Dispatched(via, p) == Around(via, Owned(via, HeardVia(p, via)), TRUE)

FlashKept == UNCHANGED <<flashVars, prover>>

\* Refused for the other's session, or busy; and whatever changes nothing, refused or not.
Refuses(via) ==
    /\ Takes(via) /\ FlashKept
    /\ Around(via, IF Serves(via) THEN Owned(via, HeardVia(prog, via)) ELSE HeardVia(prog, via), TRUE)

\* While a reset is pending, and a functional request: acknowledged, not served.
DropsRemote ==
    /\ bootMode = "boot" /\ entered.netUp /\ FlashKept
    /\ prog' = [prog EXCEPT !.inflight = TRUE]
    /\ UNCHANGED <<serveVars, busOut, still>>

SessionControl(via) ==
    /\ Serves(via)
    /\ \E s \in {"default", "programming"} :
         Dispatched(via, [NoDownload(prog) EXCEPT !.session = s, !.unlocked = FALSE,
                                                  !.challenge = FALSE, !.erased = FALSE])
    /\ prover' = "none" /\ UNCHANGED flashVars

Challenge(via) ==
    /\ Serves(via) /\ prog.session = "programming"
    /\ Dispatched(via, [prog EXCEPT !.challenge = TRUE])
    /\ FlashKept

Proof(via) ==
    /\ Serves(via) /\ prog.session = "programming" /\ prog.challenge
    /\ \E right \in BOOLEAN :
         /\ Dispatched(via, [prog EXCEPT !.challenge = FALSE, !.unlocked = @ \/ right])
         /\ prover' = IF right THEN via ELSE prover
    /\ UNCHANGED flashVars

Writes(via) == Serves(via) /\ prog.session = "programming" /\ prog.unlocked

\* The routine has just started; its first response is this answer.
Started(via, p) ==
    Dispatched(via, [p EXCEPT !.via = via, !.out = TRUE, !.push = FALSE, !.ready = FALSE,
                              !.resend = FALSE, !.tries = 0])

EraseAsked(via) ==
    /\ Writes(via) /\ FlashKept
    /\ \E u \in SUBSET Sectors \ {{}} :
         Started(via, [NoDownload(prog) EXCEPT !.erased = FALSE, !.work = "erase", !.units = u])

CheckAsked(via) ==
    /\ Writes(via) /\ prog.next = 0 /\ FlashKept
    /\ Started(via, [prog EXCEPT !.work = "check"])

\* A slip: a mark the erase left is not looked for.
MarkUnseen(via) ==
    /\ Writes(via) /\ prog.erased /\ FlashKept
    /\ \E r \in Regions, i \in Images :
         Dispatched(via, [prog EXCEPT !.next = r[1], !.end = r[2], !.image = i, !.staged = FALSE])

RequestDownload(via) ==
    /\ Writes(via) /\ prog.erased /\ ReadWord("mark") # "VALD" /\ FlashKept
    /\ \E r \in Regions, i \in Images :
         Dispatched(via, [prog EXCEPT !.next = r[1], !.end = r[2], !.image = i, !.staged = FALSE])

\* program_stage: the word is programmed, the mark word left alone.
ProgramStage(via, p) ==
    LET w == WordAt[prog.next]
    IN  IF w = "mark"
        THEN Dispatched(via, p) /\ UNCHANGED flashVars
        ELSE \E end \in ProgramEnds(w, prog.image) :
               /\ Flashes(end)
               /\ Dispatched(via, IF end[2] THEN p ELSE [prog EXCEPT !.staged = TRUE])

\* The stage holds a word's bytes: after a word that could not be programmed it stays full.
TransferData(via) ==
    /\ Serves(via) /\ prog.next # 0 /\ prog.next <= prog.end /\ ~prog.staged
    /\ ProgramStage(via, [prog EXCEPT !.next = @ + 1])
    /\ UNCHANGED prover

TransferExit(via) ==
    /\ Serves(via) /\ prog.next # 0
    /\ IF prog.staged THEN ProgramStage(via, NoDownload(prog))
       ELSE Dispatched(via, NoDownload(prog)) /\ UNCHANGED flashVars
    /\ UNCHANGED prover

EcuReset(via, quietly) ==
    /\ Serves(via) /\ FlashKept
    /\ Around(via, Owned(via, [HeardVia(prog, via) EXCEPT !.reset = TRUE,
                               !.netReset = via = "net", !.acked = FALSE]), ~quietly)

-------------------------------------------------------------------------------
\* The bus transfer ends: on the wire, lost, or still in the controller when the drain
\* ran out.
BusEnds ==
    /\ busOut /\ bootMode = "boot" /\ busOut' = FALSE
    /\ prog' \in {IF BusWork(prog) THEN ResponseLeft(prog) ELSE prog,
                  IF BusWork(prog) THEN ResponseLost(CancelReset(prog)) ELSE CancelReset(prog),
                  IF BusWork(prog) THEN ResponseLost(prog) ELSE prog}
    /\ FlashKept /\ UNCHANGED <<serveVars, still>>

\* remote_sent and push_sent, acknowledged in order.
RemoteSent ==
    /\ bootMode = "boot" /\ prog.inflight
    /\ LET p == [prog EXCEPT !.inflight = FALSE, !.acked = @ \/ prog.netReset]
       IN  prog' = IF p.via = "net" /\ ~p.push THEN ResponseLeft(p) ELSE p
    /\ FlashKept /\ UNCHANGED <<serveVars, busOut, still>>

PushSent ==
    /\ bootMode = "boot" /\ prog.work # "none" /\ prog.via = "net" /\ prog.push /\ prog.out
    /\ prog' = ResponseLeft(prog)
    /\ FlashKept /\ UNCHANGED <<serveVars, busOut, still>>

\* remote_dropped.
RemoteDropped ==
    /\ bootMode = "boot" /\ entered.netUp
    /\ LET o == IF prog.netReset /\ ~prog.acked THEN NoReset(prog) ELSE prog
           p == IF o.owner = "net" /\ o.spoke THEN EndSession(o) ELSE o
           q == IF p.via = "net" THEN NoWork(p) ELSE p
       IN  /\ prog' = [q EXCEPT !.inflight = FALSE]
           /\ prover' = IF q.unlocked THEN prover ELSE "none"
    /\ UNCHANGED flashVars /\ UNCHANGED <<serveVars, busOut, still>>

\* net_pass: the listener is seen open.
NetUpSeen ==
    /\ bootMode = "boot" /\ ~entered.netUp
    /\ entered' = [entered EXCEPT !.netUp = TRUE]
    /\ prog' = IF prog.awaitNet THEN [prog EXCEPT !.awaitNet = FALSE, !.quiet = 0] ELSE prog
    /\ still' = IF prog.awaitNet THEN 0 ELSE still
    /\ FlashKept /\ UNCHANGED <<request, bootMode, appAt, busOut, promised, misread>>

\* work_due.
WorkDue ==
    /\ bootMode = "boot" /\ prog.work # "none" /\ (prog.ready \/ prog.resend)
    /\ prog.via = "bus" => ~busOut

\* step's frame: p is what it made of Prog; it answers, or says nothing more.
Stepped(p) ==
    /\ prog' = [p EXCEPT !.quiet = 0]
    /\ busOut' = (busOut \/ (p.out /\ p.via = "bus"))
    /\ still' = 0 /\ UNCHANGED <<serveVars, prover>>

\* The response before was lost: again, until there have been too many.
StepResends ==
    /\ WorkDue /\ prog.resend
    /\ LET p == [prog EXCEPT !.resend = FALSE, !.tries = @ + 1]
       IN  Stepped(CASE p.tries <= Resends -> Responds(p)
                     [] p.tries > Resends /\ p.work = "answer" -> NoWork(p)
                     [] OTHER -> AnswerOut(p))
    /\ UNCHANGED flashVars

StepReady == WorkDue /\ ~prog.resend

\* check_and_mark: the mark is the last write, alone in its word.
StepChecks ==
    /\ StepReady /\ prog.work = "check"
    /\ IF Verified THEN \E end \in ProgramEnds("mark", "VALD") : Flashes(end)
       ELSE UNCHANGED flashVars
    /\ Stepped(AnswerOut([prog EXCEPT !.ready = FALSE]))

NextUnit == CHOOSE s \in prog.units : \A o \in prog.units : s <= o

StepErases ==
    /\ StepReady /\ prog.work = "erase"
    /\ \E end \in EraseEnds(NextUnit) :
         /\ Flashes(end)
         /\ LET p == [prog EXCEPT !.ready = FALSE, !.units = @ \ {NextUnit}]
            IN  Stepped(CASE ~end[2] -> AnswerOut([p EXCEPT !.units = {}])
                          [] end[2] /\ p.units = {} -> AnswerOut([p EXCEPT !.erased = TRUE])
                          [] OTHER -> Responds(p))

\* tick, a tick of time later: an exchange in flight is no silence.
Held(p) ==
    \/ p.work # "none"
    \/ p.inflight /\ Mine(p, "net")
    \/ busOut /\ Mine(p, "bus")

Ticked ==
    LET p == [prog EXCEPT !.quiet = IF Held(prog) THEN 0 ELSE @ + 1]
        q == IF p.awaitNet /\ p.quiet > NetWait THEN [p EXCEPT !.awaitNet = FALSE] ELSE p
    IN  IF q.session # "default" /\ ~q.awaitNet /\ q.quiet > S3 THEN EndSession(q) ELSE q

IdleReturnDue ==
    entered.requested /\ entered.appOk /\ Ticked.session = "default" /\ Ticked.quiet > IdleReturn

ResetDue == prog.reset /\ ~prog.inflight /\ ~busOut

Silence == IF Held(prog) THEN 0 ELSE IF still > Longest THEN still ELSE still + 1

\* A pass that changes nothing but the time; the count stops where every limit is past.
Tick ==
    /\ bootMode = "boot" /\ ~ResetDue /\ ~IdleReturnDue
    /\ LET t == Ticked
       IN  prog' = [t EXCEPT !.quiet = IF @ > Longest + 1 THEN Longest + 1 ELSE @]
    /\ prover' = IF Ticked.unlocked THEN prover ELSE "none"
    /\ still' = Silence
    /\ UNCHANGED <<flashVars, serveVars, busOut>>

\* The reset that was answered, and the return to the application.
BootResets ==
    /\ bootMode = "boot"
    /\ ResetDue \/ IdleReturnDue
    /\ RamLost
    /\ UNCHANGED <<flashVars, request, promised>>

\* Power goes in the boot manager: beside its flash operations, or inside the one it is at.
BootPowerGone ==
    /\ bootMode = "boot"
    /\ \E f \in {slot}
            \cup (IF StepReady /\ prog.work = "erase" THEN HalfErasedUnit(NextUnit) ELSE {})
            \cup (IF StepReady /\ prog.work = "check" /\ Verified THEN HalfProgrammed("mark") ELSE {})
            \cup (IF prog.next \in {1, 3} /\ prog.next <= prog.end
                  THEN HalfProgrammed(WordAt[prog.next]) ELSE {}) : PowerGone(f)

AppPowerGone == bootMode = "app" /\ PowerGone(slot)

BootNext ==
    \/ BootEntry \/ (\E k \in Requests : AppAsks(k)) \/ AppStores \/ AppResets \/ AppPowerGone
    \/ \E via \in Via :
         \/ Refuses(via) \/ SessionControl(via) \/ Challenge(via) \/ Proof(via)
         \/ EraseAsked(via) \/ CheckAsked(via) \/ RequestDownload(via) \/ TransferData(via)
         \/ TransferExit(via) \/ (\E q \in BOOLEAN : EcuReset(via, q))
    \/ DropsRemote \/ BusEnds \/ RemoteSent \/ PushSent \/ RemoteDropped \/ NetUpSeen
    \/ StepResends \/ StepChecks \/ StepErases
    \/ Tick \/ BootResets \/ BootPowerGone

BootSpec == BootInit /\ [][BootNext]_bootVars

-------------------------------------------------------------------------------
\* Only a whole image that was verified is ever started, whatever was cut short.
AppVerified ==
    bootMode = "app" => slot = [hdr |-> "signed", mark |-> "VALD", body |-> "signed"]

\* An unlock is the transport's that proved, and only in the session it holds.
UnlockOwn == prog.unlocked => prog.session = "programming" /\ prog.owner = prover

\* A session, and the stay over an application, end on the silence of the tester that
\* may use them: the other transport's refused requests keep nothing alive.
SilenceEnds ==
    bootMode = "boot" =>
        /\ prog.session # "default" => still <= IF prog.awaitNet THEN NetWait ELSE S3
        /\ entered.requested /\ entered.appOk /\ prog.session = "default" => still <= IdleReturn

\* boot.v, prog.v, bootcell.h: what is started was verified, unlocks stay with the
\* transport that earned them, silence ends a stay, and a request made is taken once.
BootHonest == AppVerified /\ UnlockOwn /\ SilenceEnds /\ ~misread

===============================================================================
