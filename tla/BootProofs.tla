------------------------------- MODULE BootProofs -------------------------------
(***************************************************************************)
(* The boot manager of boot/boot.v and boot/prog.v starts nothing but a    *)
(* whole verified image, keeps an unlock with the transport that earned    *)
(* it, gives the ECU back on silence and takes a request once, for any     *)
(* deadlines and any number of power cuts and failing flash operations.    *)
(***************************************************************************)
EXTENDS Boot, TLAPS

Fields == {"session", "owner", "unlocked", "challenge", "erased", "next", "end", "image",
           "staged", "spoke", "awaitNet", "reset", "inflight", "netReset", "acked", "work",
           "via", "units", "out", "push", "ready", "resend", "tries", "quiet"}
Sessions == {"default", "programming"}

\* What the proofs need to know of the values' shape.
SlotShape(f) == f = [w \in FlashWords |-> f[w]]
Shape ==
    /\ SlotShape(slot)
    /\ DOMAIN request = {"magic", "kind"} /\ request.magic \in BOOLEAN
    /\ request.kind \in Requests
    /\ DOMAIN entered = {"requested", "appOk", "netUp"}
    /\ DOMAIN prog = Fields /\ prog.session \in Sessions
    /\ bootMode \in {"reset", "app", "boot"}

\* Only the boot manager serves: elsewhere the server is as init leaves it.
OnlyBootServes == bootMode # "boot" => prog = Locked /\ still = 0

\* A valid mark stands over the image that was verified, or over what is left of it.
MarkedSound(f) ==
    f.mark = "VALD" => /\ f.hdr \in {"signed", "blank", "torn"}
                       /\ f.body \in {"signed", "blank", "torn"}

\* Nothing is downloaded under a mark, and the check runs with no download open.
FlashOrder ==
    /\ MarkedSound(slot)
    /\ prog.next # 0 => slot.mark # "VALD"
    /\ prog.work = "check" => prog.next = 0

\* An unlock belongs to the owner of the session, who proved.
Unlocks ==
    /\ prog.session = "default" => prog.owner = "none"
    /\ prog.unlocked => prog.session = "programming" /\ prog.owner = prover /\ prover \in Via

\* The time the server measures is never short of the silence of its tester.
Clocks ==
    /\ still \in Nat /\ prog.quiet \in Nat
    /\ still <= prog.quiet /\ prog.quiet <= Longest + 1
    /\ prog.awaitNet => ~entered.netUp
    /\ SilenceEnds

\* The cell holds the request that was completed, and nothing while one is being stored.
CellKept ==
    /\ promised = TakenRequest
    /\ bootMode = "app" /\ appAt[1] \in {"run", "asked", "half"} => ~request.magic
    /\ bootMode = "app" /\ appAt[1] = "half" => request.kind = appAt[2]
    /\ \E at \in {"run", "asked", "half", "done"}, k \in Requests : appAt = <<at, k>>
    /\ bootMode # "app" => appAt = <<"run", "shell">>
    /\ ~misread

BootInv == Shape /\ OnlyBootServes /\ FlashOrder /\ AppVerified /\ Unlocks /\ Clocks /\ CellKept

-------------------------------------------------------------------------------
\* Every limit lies within the count of silent ticks.
LEMMA LimitsCounted ==
    /\ Longest \in Nat /\ IdleReturn <= Longest /\ NetWait <= Longest /\ S3 <= Longest
  BY BootAssumption DEF BootAssumption, Longest

\* The server after init and after a handoff.
LEMMA LockedShape == DOMAIN Locked = Fields
  BY DEF Locked, Fields

LEMMA InitKept == BootInit => BootInv
  <1> SUFFICES ASSUME BootInit PROVE BootInv
    OBVIOUS
  <1> USE BootAssumption DEF BootAssumption, BootInit
  <1>1. Shape
    BY LockedShape DEF Shape, SlotShape, Garbage, NotEntered, Locked, FlashWords, Requests, Sessions
  <1>2. FlashOrder
    BY DEF FlashOrder, MarkedSound, FlashWords, Locked
  <1>3. OnlyBootServes /\ AppVerified /\ Unlocks
    BY DEF OnlyBootServes, AppVerified, Unlocks, Locked
  <1>4. Clocks
    BY LimitsCounted DEF Clocks, SilenceEnds, Locked, NotEntered
  <1>5. CellKept
    BY DEF CellKept, TakenRequest, Garbage, Requests
  <1> QED
    BY <1>1, <1>2, <1>3, <1>4, <1>5 DEF BootInv

\* An erase that ends, fails or is cut short makes no mark, and blanks or tears what one
\* stands over.
LEMMA EraseSound ==
    ASSUME Shape, MarkedSound(slot), NEW s, NEW end \in EraseEnds(s)
    PROVE  /\ SlotShape(end[1]) /\ MarkedSound(end[1])
           /\ slot.mark # "VALD" => end[1].mark # "VALD"
  <1>1. CASE end = <<ErasedUnit(s), TRUE>>
    BY <1>1 DEF ErasedUnit, FlashWords, SectorOf, MarkedSound, Shape, SlotShape
  <1>2. CASE end \in HalfErasedUnit(s) \X {FALSE}
    <2>1. end[1] \in HalfErasedUnit(s)
      BY <1>2
    <2> QED
      BY <2>1 DEF HalfErasedUnit, FlashWords, SectorOf, MarkedSound, Shape, SlotShape
  <1> QED
    BY <1>1, <1>2 DEF EraseEnds

\* Programming a word of an unmarked image leaves it unmarked.
LEMMA ProgramSound ==
    ASSUME Shape, slot.mark # "VALD", NEW w, w # "mark", NEW c, NEW end \in ProgramEnds(w, c)
    PROVE  SlotShape(end[1]) /\ end[1].mark # "VALD" /\ MarkedSound(end[1])
  <1>1. CASE end = <<Programmed(w, c), TRUE>>
    BY <1>1 DEF Programmed, FlashWords, MarkedSound, Shape, SlotShape
  <1>2. CASE end \in HalfProgrammed(w) \X {FALSE}
    <2>1. end[1] \in HalfProgrammed(w)
      BY <1>2
    <2> QED
      BY <2>1 DEF HalfProgrammed, FlashWords, MarkedSound, Shape, SlotShape
  <1> QED
    BY <1>1, <1>2 DEF ProgramEnds

\* The mark is programmed over an image that has just been verified.
LEMMA MarkSound ==
    ASSUME Shape, MarkedSound(slot), Verified, NEW end \in ProgramEnds("mark", "VALD")
    PROVE  SlotShape(end[1]) /\ MarkedSound(end[1])
  <1>0. slot.hdr = "signed" /\ slot.body = "signed"
    BY DEF Verified, ReadWord
  <1>1. CASE end = <<Programmed("mark", "VALD"), TRUE>>
    BY <1>0, <1>1 DEF Programmed, FlashWords, MarkedSound, Shape, SlotShape
  <1>2. CASE end \in HalfProgrammed("mark") \X {FALSE}
    <2>1. end[1] \in HalfProgrammed("mark")
      BY <1>2
    <2> QED
      BY <1>0, <2>1 DEF HalfProgrammed, FlashWords, MarkedSound, Shape, SlotShape
  <1> QED
    BY <1>1, <1>2 DEF ProgramEnds

-------------------------------------------------------------------------------
\* A reset, of whatever cause, leaves RAM as start-up makes it and the cell as it was left.
LEMMA ResetKeeps ==
    ASSUME BootInv, RamLost, SlotShape(slot'), MarkedSound(slot'),
           \/ UNCHANGED <<request, promised>>
           \/ request' = Garbage /\ promised' = "none"
    PROVE  BootInv'
  <1> USE DEF RamLost
  <1>1. Shape'
    <2>1. DOMAIN prog' = Fields /\ prog'.session \in Sessions
      BY LockedShape DEF Locked, Sessions
    <2>2. DOMAIN entered' = {"requested", "appOk", "netUp"}
      BY DEF NotEntered
    <2>3. DOMAIN request' = {"magic", "kind"} /\ request'.magic \in BOOLEAN /\ request'.kind \in Requests
      <3>1. CASE request' = request
        BY <3>1 DEF BootInv, Shape
      <3>2. CASE request' = Garbage
        BY <3>2 DEF Garbage, Requests
      <3> QED
        BY <3>1, <3>2
    <2> QED
      BY <2>1, <2>2, <2>3 DEF Shape, SlotShape
  <1>2. OnlyBootServes' /\ AppVerified'
    BY DEF OnlyBootServes, AppVerified
  <1>3. FlashOrder'
    BY DEF FlashOrder, Locked, MarkedSound
  <1>4. Unlocks'
    BY DEF Unlocks, Locked
  <1>5. Clocks'
    BY LimitsCounted DEF Clocks, SilenceEnds, Locked, NotEntered
  <1>6. CellKept'
    <2>1. promised' = TakenRequest'
      BY DEF BootInv, CellKept, TakenRequest, Garbage
    <2>2. appAt' = <<"run", "shell">> /\ "shell" \in Requests
      BY DEF Requests
    <2> QED
      BY <2>1, <2>2 DEF BootInv, CellKept
  <1> QED
    BY <1>1, <1>2, <1>3, <1>4, <1>5, <1>6 DEF BootInv

\* What the server's operations leave alone: the cell, the application and how it was entered.
LEMMA ServingKeepsCell ==
    ASSUME BootInv, bootMode = "boot", bootMode' = "boot", UNCHANGED <<request, appAt, promised, misread>>
    PROVE  CellKept' /\ AppVerified' /\ OnlyBootServes'
  BY DEF BootInv, CellKept, TakenRequest, AppVerified, OnlyBootServes

\* entry takes a whole request once, and starts only what was verified.
LEMMA EntryKeeps == ASSUME BootInv, BootEntry PROVE BootInv'
  <1> DEFINE why == TakenRequest
             ok == CheckImageSlot
  <1>1. /\ bootMode = "reset" /\ prog = Locked /\ still = 0 /\ UNCHANGED <<slot, still, prover, appAt>>
        /\ request' = IF request.magic THEN Garbage ELSE request
        /\ misread' = (misread \/ why # promised) /\ promised' = "none"
        /\ entered' = [requested |-> why # "none", appOk |-> ok, netUp |-> FALSE]
        /\ bootMode' = IF why = "none" /\ ok THEN "app" ELSE "boot"
        /\ prog' = IF Handoff(why) = "none" THEN Locked ELSE HandedOff(Handoff(why))
    BY DEF BootEntry, BootInv, OnlyBootServes, flashVars
  <1> HIDE DEF why, ok
  <1>2. DOMAIN prog' = Fields /\ prog'.session \in Sessions /\ prog'.next = 0 /\ prog'.work = "none"
        /\ prog'.quiet = 0 /\ ~prog'.unlocked
        /\ (prog'.session = "default" => prog'.owner = "none")
    BY <1>1, LockedShape DEF HandedOff, Locked, Fields, Sessions
  <1>3. Shape'
    BY <1>1, <1>2 DEF BootInv, Shape, Garbage, Requests
  <1>4. OnlyBootServes'
    <2>1. why = "none" => prog' = Locked
      BY <1>1 DEF Handoff, Via
    <2> QED
      BY <1>1, <2>1 DEF OnlyBootServes
  <1>5. FlashOrder'
    BY <1>1, <1>2 DEF BootInv, FlashOrder, MarkedSound
  <1>6. AppVerified'
    <2>1. ok => slot.hdr = "signed" /\ slot.body = "signed" /\ slot.mark = "VALD"
      BY DEF ok, CheckImageSlot, BootInv, FlashOrder, MarkedSound, Images
    <2>2. ok => slot = [hdr |-> "signed", mark |-> "VALD", body |-> "signed"]
      BY <2>1 DEF BootInv, Shape, SlotShape, FlashWords
    <2> QED
      BY <1>1, <2>2 DEF AppVerified
  <1>7. Unlocks'
    BY <1>2 DEF Unlocks
  <1>8. Clocks'
    BY <1>1, <1>2, LimitsCounted, BootAssumption DEF Clocks, SilenceEnds, BootAssumption
  <1>9. CellKept'
    <2>1. ~misread'
      BY <1>1 DEF why, BootInv, CellKept
    <2>2. ~request'.magic
      BY <1>1 DEF Garbage, BootInv, Shape
    <2>3. appAt = <<"run", "shell">>
      BY <1>1 DEF BootInv, CellKept
    <2> QED
      BY <1>1, <2>1, <2>2, <2>3 DEF BootInv, CellKept, TakenRequest, Requests
  <1> QED
    BY <1>3, <1>4, <1>5, <1>6, <1>7, <1>8, <1>9 DEF BootInv

\* The application's request, store by store: the kind before the magic that makes it valid.
LEMMA AppKeeps ==
    ASSUME BootInv, AppStores \/ \E kind \in Requests : AppAsks(kind)
    PROVE  BootInv'
  <1>1. /\ bootMode = "app" /\ bootMode' = "app" /\ UNCHANGED <<slot, entered, prog, prover, still, misread>>
        /\ \E at \in {"asked", "half", "done"}, k \in Requests : appAt' = <<at, k>>
    BY DEF AppStores, AppAsks, flashVars, BootInv, CellKept
  <1>2. /\ DOMAIN request' = {"magic", "kind"} /\ request'.magic \in BOOLEAN
        /\ request'.kind \in Requests /\ CellKept'
    <2>1. CASE \E kind \in Requests : AppAsks(kind)
      BY <1>1, <2>1 DEF AppAsks, BootInv, Shape, CellKept, TakenRequest
    <2>2. CASE AppStores /\ appAt[1] = "asked"
      <3>1. request' = [request EXCEPT !.kind = appAt[2]] /\ appAt' = <<"half", appAt[2]>> /\ promised' = promised
        BY <2>2 DEF AppStores
      <3> QED
        BY <1>1, <2>2, <3>1 DEF BootInv, Shape, CellKept, TakenRequest
    <2>3. CASE AppStores /\ appAt[1] = "half"
      <3>1. request' = [request EXCEPT !.magic = TRUE] /\ appAt' = <<"done", appAt[2]>> /\ promised' = appAt[2]
        BY <2>3 DEF AppStores
      <3> QED
        BY <1>1, <2>3, <3>1 DEF BootInv, Shape, CellKept, TakenRequest
    <2> QED
      BY <2>1, <2>2, <2>3 DEF AppStores
  <1>3. Shape' /\ OnlyBootServes' /\ AppVerified'
    BY <1>1, <1>2 DEF BootInv, Shape, SlotShape, OnlyBootServes, AppVerified
  <1>4. FlashOrder' /\ Unlocks'
    BY <1>1 DEF BootInv, FlashOrder, MarkedSound, Unlocks
  <1>5. Clocks'
    BY <1>1 DEF BootInv, Clocks, SilenceEnds
  <1> QED
    BY <1>2, <1>3, <1>4, <1>5 DEF BootInv

-------------------------------------------------------------------------------
\* What handle_via and serve_remote add to what a request made of the server: the owner and
\* the clock, and nothing that the other properties are about.
LEMMA ServedEffect ==
    ASSUME BootInv, NEW via \in Via, Serves(via), NEW h, NEW answered,
           Around(via, Owned(via, h), answered), DOMAIN h = Fields
    PROVE  /\ DOMAIN prog' = Fields /\ prog'.session = h.session /\ prog'.next = h.next
           /\ prog'.work = h.work /\ prog'.unlocked = h.unlocked /\ prog'.awaitNet = h.awaitNet
           /\ prog'.quiet = h.quiet /\ still' = 0
           /\ prog'.owner = IF h.session = "default" THEN "none" ELSE via
           /\ bootMode = "boot" /\ UNCHANGED serveVars
  <1>0. DOMAIN prog = Fields /\ Mine(prog, via) /\ bootMode = "boot"
    BY DEF BootInv, Shape, Serves, Takes
  <1> DEFINE o == Owned(via, h)
  <1>1. /\ DOMAIN o = Fields /\ o.session = h.session /\ o.next = h.next /\ o.work = h.work
        /\ o.unlocked = h.unlocked /\ o.awaitNet = h.awaitNet /\ o.quiet = h.quiet
        /\ o.owner = IF h.session = "default" THEN "none" ELSE via
    BY DEF Owned, Fields
  <1> HIDE DEF o
  <1>2. Around(via, o, answered)
    BY DEF o
  <1>3. prog' = o \/ prog' = [o EXCEPT !.inflight = TRUE]
    BY <1>2 DEF Around
  <1>4. still' = 0 /\ UNCHANGED serveVars
    BY <1>0, <1>2 DEF Around
  <1>5. /\ DOMAIN prog' = Fields /\ prog'.session = o.session /\ prog'.next = o.next
        /\ prog'.work = o.work /\ prog'.unlocked = o.unlocked /\ prog'.awaitNet = o.awaitNet
        /\ prog'.quiet = o.quiet /\ prog'.owner = o.owner
    BY <1>1, <1>3 DEF Fields
  <1> QED
    BY <1>0, <1>1, <1>4, <1>5

\* Whatever the request did, as long as it unlocks only for the transport it came over and
\* leaves a sound slot.
LEMMA ServedKeeps ==
    ASSUME BootInv, NEW via \in Via, Serves(via), NEW h, NEW answered,
           Around(via, Owned(via, h), answered),
           DOMAIN h = Fields, h.session \in Sessions, h.quiet \in {0, prog.quiet},
           h.awaitNet = prog.awaitNet,
           h.unlocked => h.session = "programming" /\ prover' = via,
           SlotShape(slot'), MarkedSound(slot'),
           h.next # 0 => slot'.mark # "VALD", h.work = "check" => h.next = 0
    PROVE  BootInv'
  <1> USE ServedEffect
  <1>1. bootMode' = "boot" /\ UNCHANGED <<request, appAt, entered, promised, misread>>
    BY DEF serveVars
  <1>2. CellKept' /\ AppVerified' /\ OnlyBootServes'
    BY <1>1, ServingKeepsCell
  <1>3. Shape'
    BY <1>1 DEF BootInv, Shape, SlotShape
  <1>4. Clocks'
    <2>1. prog'.quiet \in Nat /\ prog'.quiet <= Longest + 1 /\ still' = 0
      BY LimitsCounted DEF BootInv, Clocks
    <2>2. prog'.awaitNet => ~entered'.netUp
      BY <1>1 DEF BootInv, Clocks
    <2>3. SilenceEnds'
      BY <2>1, BootAssumption DEF SilenceEnds, BootAssumption
    <2> QED
      BY <2>1, <2>2, <2>3 DEF Clocks
  <1>5. Unlocks'
    BY DEF Unlocks, Sessions
  <1>6. FlashOrder'
    BY DEF FlashOrder, MarkedSound
  <1> QED
    BY <1>2, <1>3, <1>4, <1>5, <1>6 DEF BootInv

\* The same for what dispatch made of the server.
LEMMA DispatchKeeps ==
    ASSUME BootInv, NEW via \in Via, Serves(via), NEW p, Dispatched(via, p),
           DOMAIN p = Fields, p.session \in Sessions, p.quiet = prog.quiet, p.awaitNet = prog.awaitNet,
           p.unlocked => p.session = "programming" /\ prover' = via,
           SlotShape(slot'), MarkedSound(slot'),
           p.next # 0 => slot'.mark # "VALD", p.work = "check" => p.next = 0
    PROVE  BootInv'
  <1> DEFINE h == HeardVia(p, via)
  <1>1. /\ DOMAIN h = Fields /\ h.session = p.session /\ h.next = p.next /\ h.work = p.work
        /\ h.unlocked = p.unlocked /\ h.awaitNet = p.awaitNet /\ h.quiet \in {0, p.quiet}
    BY DEF HeardVia, Fields
  <1>2. Around(via, Owned(via, h), TRUE)
    BY DEF Dispatched
  <1> HIDE DEF h
  <1> QED
    BY <1>1, <1>2, ServedKeeps

\* The transport that is served owns the session, and the proof in it.
LEMMA ServedOwns ==
    ASSUME BootInv, NEW via \in Via, Serves(via)
    PROVE  /\ DOMAIN prog = Fields /\ prog.session \in Sessions /\ SlotShape(slot) /\ MarkedSound(slot)
           /\ prog.unlocked => prog.session = "programming" /\ prover = via
           /\ prog.next # 0 => slot.mark # "VALD"
           /\ prog.work # "check"
  BY DEF BootInv, Shape, FlashOrder, Unlocks, Serves, Mine, Via

LEMMA RefusesKeeps == ASSUME BootInv, NEW via \in Via, Refuses(via) PROVE BootInv'
  <1> USE DEF Refuses, FlashKept, flashVars
  <1>1. CASE Serves(via)
    <2>1. Dispatched(via, prog)
      BY <1>1 DEF Dispatched
    <2> QED
      BY <1>1, <2>1, ServedOwns, DispatchKeeps
  <1>2. CASE ~Serves(via)
    <2>0. DOMAIN prog = Fields /\ bootMode = "boot"
      BY DEF BootInv, Shape, Takes
    <2> DEFINE h == HeardVia(prog, via)
    <2>1. /\ DOMAIN h = Fields /\ h.session = prog.session /\ h.next = prog.next /\ h.work = prog.work
          /\ h.unlocked = prog.unlocked /\ h.awaitNet = prog.awaitNet /\ h.owner = prog.owner
          /\ h.quiet = IF Mine(prog, via) THEN 0 ELSE prog.quiet
      BY <2>0 DEF HeardVia, Fields
    <2>2. Around(via, h, TRUE)
      BY <1>2
    <2> HIDE DEF h
    <2>3. prog' = h \/ prog' = [h EXCEPT !.inflight = TRUE]
      BY <2>2 DEF Around
    <2>4. /\ DOMAIN prog' = Fields /\ prog'.session = h.session /\ prog'.next = h.next
          /\ prog'.work = h.work /\ prog'.unlocked = h.unlocked /\ prog'.awaitNet = h.awaitNet
          /\ prog'.quiet = h.quiet /\ prog'.owner = h.owner
      BY <2>1, <2>3 DEF Fields
    <2>5. still' = (IF Mine(prog, via) THEN 0 ELSE still) /\ UNCHANGED serveVars
      BY <2>2 DEF Around
    <2>6. UNCHANGED <<slot, prover, bootMode, request, appAt, entered, promised, misread>>
      BY <2>5 DEF serveVars
    <2>7. CellKept' /\ AppVerified' /\ OnlyBootServes'
      BY <2>0, <2>6, ServingKeepsCell
    <2>8. Shape' /\ FlashOrder' /\ Unlocks'
      BY <2>1, <2>4, <2>6 DEF BootInv, Shape, SlotShape, FlashOrder, MarkedSound, Unlocks
    <2>9. Clocks'
      BY <2>0, <2>1, <2>4, <2>5, <2>6, LimitsCounted, BootAssumption
         DEF BootInv, Clocks, SilenceEnds, BootAssumption
    <2> QED
      BY <2>7, <2>8, <2>9 DEF BootInv
  <1> QED
    BY <1>1, <1>2

LEMMA SessionKeeps == ASSUME BootInv, NEW via \in Via, SessionControl(via) PROVE BootInv'
  <1>1. Serves(via) /\ slot' = slot
    BY DEF SessionControl, flashVars
  <1>2. PICK s \in Sessions : Dispatched(via, [NoDownload(prog) EXCEPT
            !.session = s, !.unlocked = FALSE, !.challenge = FALSE, !.erased = FALSE])
    BY DEF SessionControl, Sessions
  <1> DEFINE p == [NoDownload(prog) EXCEPT
            !.session = s, !.unlocked = FALSE, !.challenge = FALSE, !.erased = FALSE]
  <1>3. /\ DOMAIN p = Fields /\ p.session = s /\ p.next = 0 /\ p.work = prog.work /\ ~p.unlocked
        /\ p.awaitNet = prog.awaitNet /\ p.quiet = prog.quiet
    BY <1>1, ServedOwns DEF NoDownload, Fields
  <1> HIDE DEF p
  <1>4. Dispatched(via, p)
    BY <1>2 DEF p
  <1> QED
    BY <1>1, <1>3, <1>4, ServedOwns, DispatchKeeps

LEMMA ChallengeKeeps == ASSUME BootInv, NEW via \in Via, Challenge(via) PROVE BootInv'
  <1>1. Serves(via) /\ slot' = slot /\ prover' = prover
    BY DEF Challenge, FlashKept, flashVars
  <1> DEFINE p == [prog EXCEPT !.challenge = TRUE]
  <1>2. /\ DOMAIN p = Fields /\ p.session = prog.session /\ p.next = prog.next /\ p.work = prog.work
        /\ p.unlocked = prog.unlocked /\ p.awaitNet = prog.awaitNet /\ p.quiet = prog.quiet
    BY <1>1, ServedOwns DEF Fields
  <1>3. Dispatched(via, p)
    BY DEF Challenge
  <1> HIDE DEF p
  <1> QED
    BY <1>1, <1>2, <1>3, ServedOwns, DispatchKeeps

LEMMA ProofKeeps == ASSUME BootInv, NEW via \in Via, Proof(via) PROVE BootInv'
  <1>1. PICK right \in BOOLEAN :
          /\ Dispatched(via, [prog EXCEPT !.challenge = FALSE, !.unlocked = @ \/ right])
          /\ prover' = IF right THEN via ELSE prover
    BY DEF Proof
  <1>2. Serves(via) /\ slot' = slot /\ prog.session = "programming"
    BY DEF Proof, flashVars
  <1> DEFINE p == [prog EXCEPT !.challenge = FALSE, !.unlocked = @ \/ right]
  <1>3. /\ DOMAIN p = Fields /\ p.session = prog.session /\ p.next = prog.next /\ p.work = prog.work
        /\ p.unlocked = (prog.unlocked \/ right) /\ p.awaitNet = prog.awaitNet /\ p.quiet = prog.quiet
    BY <1>2, ServedOwns DEF Fields
  <1>4. Dispatched(via, p)
    BY <1>1
  <1> HIDE DEF p
  <1>5. p.unlocked => p.session = "programming" /\ prover' = via
    BY <1>1, <1>2, <1>3, ServedOwns
  <1> QED
    BY <1>2, <1>3, <1>4, <1>5, ServedOwns, DispatchKeeps

\* A routine that starts: nothing of the session changes, and no download is open.
LEMMA StartedKeeps ==
    ASSUME BootInv, NEW via \in Via, Serves(via), NEW p, Started(via, p), UNCHANGED <<slot, prover>>,
           DOMAIN p = Fields, p.session = prog.session, p.next = 0, p.unlocked = prog.unlocked,
           p.awaitNet = prog.awaitNet, p.quiet = prog.quiet
    PROVE  BootInv'
  <1> DEFINE q == [p EXCEPT !.via = via, !.out = TRUE, !.push = FALSE, !.ready = FALSE,
                            !.resend = FALSE, !.tries = 0]
  <1>1. /\ DOMAIN q = Fields /\ q.session = p.session /\ q.next = 0 /\ q.unlocked = p.unlocked
        /\ q.awaitNet = p.awaitNet /\ q.quiet = p.quiet
    BY DEF Fields
  <1>2. Dispatched(via, q)
    BY DEF Started
  <1> HIDE DEF q
  <1> QED
    BY <1>1, <1>2, ServedOwns, DispatchKeeps

LEMMA RoutineKeeps ==
    ASSUME BootInv, NEW via \in Via, EraseAsked(via) \/ CheckAsked(via)
    PROVE  BootInv'
  <1>1. Serves(via) /\ UNCHANGED <<slot, prover>> /\ DOMAIN prog = Fields
    BY ServedOwns DEF EraseAsked, CheckAsked, Writes, FlashKept, flashVars
  <1>2. CASE EraseAsked(via)
    <2>1. PICK u \in SUBSET Sectors \ {{}} :
            Started(via, [NoDownload(prog) EXCEPT !.erased = FALSE, !.work = "erase", !.units = u])
      BY <1>2 DEF EraseAsked
    <2> DEFINE p == [NoDownload(prog) EXCEPT !.erased = FALSE, !.work = "erase", !.units = u]
    <2>2. /\ DOMAIN p = Fields /\ p.session = prog.session /\ p.next = 0 /\ p.unlocked = prog.unlocked
          /\ p.awaitNet = prog.awaitNet /\ p.quiet = prog.quiet
      BY <1>1 DEF NoDownload, Fields
    <2>3. Started(via, p)
      BY <2>1
    <2> HIDE DEF p
    <2> QED
      BY <1>1, <2>2, <2>3, StartedKeeps
  <1>3. CASE CheckAsked(via)
    <2> DEFINE p == [prog EXCEPT !.work = "check"]
    <2>1. /\ DOMAIN p = Fields /\ p.session = prog.session /\ p.next = 0 /\ p.unlocked = prog.unlocked
          /\ p.awaitNet = prog.awaitNet /\ p.quiet = prog.quiet
      BY <1>1, <1>3 DEF CheckAsked, Fields
    <2>2. Started(via, p)
      BY <1>3 DEF CheckAsked
    <2> HIDE DEF p
    <2> QED
      BY <1>1, <2>1, <2>2, StartedKeeps
  <1> QED
    BY <1>2, <1>3

LEMMA RequestDownloadKeeps == ASSUME BootInv, NEW via \in Via, RequestDownload(via) PROVE BootInv'
  <1>1. Serves(via) /\ UNCHANGED <<slot, prover>> /\ DOMAIN prog = Fields
    BY ServedOwns DEF RequestDownload, Writes, FlashKept, flashVars
  <1>2. slot.mark # "VALD"
    BY DEF RequestDownload, ReadWord
  <1>3. PICK r \in Regions, i \in Images :
          Dispatched(via, [prog EXCEPT !.next = r[1], !.end = r[2], !.image = i, !.staged = FALSE])
    BY DEF RequestDownload
  <1> DEFINE p == [prog EXCEPT !.next = r[1], !.end = r[2], !.image = i, !.staged = FALSE]
  <1>4. /\ DOMAIN p = Fields /\ p.session = prog.session /\ p.work = prog.work
        /\ p.unlocked = prog.unlocked /\ p.awaitNet = prog.awaitNet /\ p.quiet = prog.quiet
    BY <1>1 DEF Fields
  <1>5. Dispatched(via, p)
    BY <1>3
  <1> HIDE DEF p
  <1> QED
    BY <1>1, <1>2, <1>4, <1>5, ServedOwns, DispatchKeeps

\* A word of a download is programmed, or fails: no mark stands, and none comes of it.
LEMMA StageKeeps ==
    ASSUME BootInv, NEW via \in Via, Serves(via), prog.next # 0, NEW p, ProgramStage(via, p),
           prover' = prover, DOMAIN p = Fields, p.session = prog.session, p.work = prog.work,
           p.unlocked = prog.unlocked, p.awaitNet = prog.awaitNet, p.quiet = prog.quiet
    PROVE  BootInv'
  <1> DEFINE w == WordAt[prog.next]
             late == [prog EXCEPT !.staged = TRUE]
  <1>1. Shape /\ slot.mark # "VALD" /\ prog.work # "check"
    BY ServedOwns DEF BootInv
  <1>2. CASE w = "mark"
    <2>1. Dispatched(via, p) /\ slot' = slot
      BY <1>2 DEF ProgramStage, flashVars
    <2> QED
      BY <1>1, <2>1, ServedOwns, DispatchKeeps
  <1>3. CASE w # "mark"
    <2>1. PICK end \in ProgramEnds(w, prog.image) :
            Flashes(end) /\ Dispatched(via, IF end[2] THEN p ELSE late)
      BY <1>3 DEF ProgramStage
    <2>2. SlotShape(slot') /\ slot'.mark # "VALD" /\ MarkedSound(slot')
      BY <1>1, <1>3, <2>1, ProgramSound DEF Flashes
    <2>3. /\ DOMAIN late = Fields /\ late.session = prog.session /\ late.work = prog.work
          /\ late.unlocked = prog.unlocked /\ late.awaitNet = prog.awaitNet
          /\ late.quiet = prog.quiet
      BY ServedOwns DEF Fields
    <2> HIDE DEF late
    <2>4. Dispatched(via, p) \/ Dispatched(via, late)
      BY <2>1
    <2> QED
      BY <1>1, <2>2, <2>3, <2>4, ServedOwns, DispatchKeeps
  <1> QED
    BY <1>2, <1>3

LEMMA TransferKeeps ==
    ASSUME BootInv, NEW via \in Via, TransferData(via) \/ TransferExit(via)
    PROVE  BootInv'
  <1>1. Serves(via) /\ prog.next # 0 /\ prover' = prover /\ DOMAIN prog = Fields
    BY ServedOwns DEF TransferData, TransferExit
  <1>2. CASE TransferData(via)
    <2> DEFINE p == [prog EXCEPT !.next = @ + 1]
    <2>1. /\ DOMAIN p = Fields /\ p.session = prog.session /\ p.work = prog.work
          /\ p.unlocked = prog.unlocked /\ p.awaitNet = prog.awaitNet /\ p.quiet = prog.quiet
      BY <1>1 DEF Fields
    <2>2. ProgramStage(via, p)
      BY <1>2 DEF TransferData
    <2> HIDE DEF p
    <2> QED
      BY <1>1, <2>1, <2>2, StageKeeps
  <1>3. CASE TransferExit(via)
    <2> DEFINE p == NoDownload(prog)
    <2>1. /\ DOMAIN p = Fields /\ p.session = prog.session /\ p.work = prog.work /\ p.next = 0
          /\ p.unlocked = prog.unlocked /\ p.awaitNet = prog.awaitNet /\ p.quiet = prog.quiet
      BY <1>1 DEF NoDownload, Fields
    <2>2. ProgramStage(via, p) \/ (Dispatched(via, p) /\ slot' = slot)
      BY <1>3 DEF TransferExit, flashVars
    <2> HIDE DEF p
    <2>3. CASE ProgramStage(via, p)
      BY <1>1, <2>1, <2>3, StageKeeps
    <2>4. CASE Dispatched(via, p) /\ slot' = slot
      BY <1>1, <2>1, <2>4, ServedOwns, DispatchKeeps
    <2> QED
      BY <2>2, <2>3, <2>4
  <1> QED
    BY <1>2, <1>3

LEMMA EcuResetKeeps ==
    ASSUME BootInv, NEW via \in Via, NEW quietly \in BOOLEAN, EcuReset(via, quietly)
    PROVE  BootInv'
  <1>1. Serves(via) /\ UNCHANGED <<slot, prover>> /\ DOMAIN prog = Fields
    BY ServedOwns DEF EcuReset, FlashKept, flashVars
  <1> DEFINE h == [HeardVia(prog, via) EXCEPT !.reset = TRUE, !.netReset = via = "net", !.acked = FALSE]
  <1>2. /\ DOMAIN h = Fields /\ h.session = prog.session /\ h.next = prog.next /\ h.work = prog.work
        /\ h.unlocked = prog.unlocked /\ h.awaitNet = prog.awaitNet /\ h.quiet \in {0, prog.quiet}
    BY <1>1 DEF HeardVia, Fields
  <1>3. Around(via, Owned(via, h), ~quietly)
    BY DEF EcuReset
  <1> HIDE DEF h
  <1> QED
    BY <1>1, <1>2, <1>3, ServedOwns, ServedKeeps

-------------------------------------------------------------------------------
\* What the server does between requests, for any p it may make of itself: the session, the
\* unlock and the clocks stay, no download is opened and no check begun.
LEMMA AsideKeeps ==
    ASSUME BootInv, bootMode = "boot", UNCHANGED <<slot, prover, still, serveVars>>,
           DOMAIN prog' = Fields, prog'.session = prog.session, prog'.owner = prog.owner,
           prog'.unlocked = prog.unlocked, prog'.awaitNet = prog.awaitNet, prog'.quiet = prog.quiet,
           prog'.next \in {0, prog.next}, prog'.work \in {"none", "answer", prog.work}
    PROVE  BootInv'
  <1>1. UNCHANGED <<request, bootMode, appAt, entered, promised, misread>>
    BY DEF serveVars
  <1>2. CellKept' /\ AppVerified' /\ OnlyBootServes'
    BY <1>1, ServingKeepsCell
  <1>3. Shape' /\ FlashOrder' /\ Unlocks'
    BY <1>1 DEF BootInv, Shape, SlotShape, FlashOrder, MarkedSound, Unlocks
  <1>4. Clocks'
    BY <1>1 DEF BootInv, Clocks, SilenceEnds
  <1> QED
    BY <1>2, <1>3, <1>4 DEF BootInv

\* An answer that left, was lost or is awaited no more leaves the session as it is.
LEMMA ResponseEffect ==
    ASSUME NEW p, DOMAIN p = Fields, NEW q,
           q \in {p, ResponseLeft(p), ResponseLost(p), CancelReset(p), ResponseLost(CancelReset(p))}
    PROVE  /\ DOMAIN q = Fields /\ q.session = p.session /\ q.owner = p.owner /\ q.unlocked = p.unlocked
           /\ q.awaitNet = p.awaitNet /\ q.quiet = p.quiet /\ q.next = p.next
           /\ q.work \in {"none", p.work}
  <1>1. CASE q = p
    BY <1>1
  <1>2. CASE q = ResponseLeft(p)
    BY <1>2 DEF ResponseLeft, NoWork, Fields
  <1>3. CASE q = ResponseLost(p)
    BY <1>3 DEF ResponseLost, Fields
  <1>4. CASE q = CancelReset(p)
    BY <1>4 DEF CancelReset, NoReset, Fields
  <1>5. CASE q = ResponseLost(CancelReset(p))
    BY <1>5 DEF ResponseLost, CancelReset, NoReset, Fields
  <1> QED
    BY <1>1, <1>2, <1>3, <1>4, <1>5

LEMMA AnswersKeep ==
    ASSUME BootInv, BusEnds \/ PushSent \/ DropsRemote
    PROVE  BootInv'
  <1>1. /\ bootMode = "boot" /\ UNCHANGED <<slot, prover, still, serveVars>> /\ DOMAIN prog = Fields
    BY DEF BusEnds, PushSent, DropsRemote, FlashKept, flashVars, BootInv, Shape
  <1>2. CASE BusEnds \/ PushSent
    <2>1. prog' \in {prog, ResponseLeft(prog), ResponseLost(prog), CancelReset(prog),
                     ResponseLost(CancelReset(prog))}
      BY <1>2 DEF BusEnds, PushSent
    <2> QED
      BY <1>1, <2>1, ResponseEffect, AsideKeeps
  <1>3. CASE DropsRemote
    <2>1. prog' = [prog EXCEPT !.inflight = TRUE]
      BY <1>3 DEF DropsRemote
    <2> QED
      BY <1>1, <2>1, AsideKeeps DEF Fields
  <1> QED
    BY <1>2, <1>3

LEMMA RemoteSentKeeps == ASSUME BootInv, RemoteSent PROVE BootInv'
  <1>1. /\ bootMode = "boot" /\ UNCHANGED <<slot, prover, still, serveVars>> /\ DOMAIN prog = Fields
    BY DEF RemoteSent, FlashKept, flashVars, BootInv, Shape
  <1> DEFINE p == [prog EXCEPT !.inflight = FALSE, !.acked = @ \/ prog.netReset]
  <1>2. /\ DOMAIN p = Fields /\ p.session = prog.session /\ p.owner = prog.owner
        /\ p.unlocked = prog.unlocked /\ p.awaitNet = prog.awaitNet /\ p.quiet = prog.quiet
        /\ p.next = prog.next /\ p.work = prog.work
    BY <1>1 DEF Fields
  <1>3. prog' \in {p, ResponseLeft(p)}
    BY DEF RemoteSent
  <1> HIDE DEF p
  <1> QED
    BY <1>1, <1>2, <1>3, ResponseEffect, AsideKeeps

\* A session that ends: relocked and owned by nobody, with nothing open.
LEMMA EndEffect ==
    ASSUME NEW p, DOMAIN p = Fields, NEW q, q = EndSession(p)
    PROVE  /\ DOMAIN q = Fields /\ q.session = "default" /\ q.owner = "none" /\ ~q.unlocked
           /\ ~q.awaitNet /\ q.quiet = p.quiet /\ q.next = 0 /\ q.work = "none"
           /\ q.inflight = p.inflight
  BY DEF EndSession, NoWork, NoDownload, Fields

\* A dropped connection ends the session it owned, and nobody else's.
LEMMA RemoteDroppedKeeps == ASSUME BootInv, RemoteDropped PROVE BootInv'
  <1> DEFINE o == IF prog.netReset /\ ~prog.acked THEN NoReset(prog) ELSE prog
             p == IF o.owner = "net" /\ o.spoke THEN EndSession(o) ELSE o
             q == IF p.via = "net" THEN NoWork(p) ELSE p
  <1>1. /\ bootMode = "boot" /\ DOMAIN prog = Fields /\ UNCHANGED slot /\ entered.netUp
        /\ UNCHANGED <<still, request, bootMode, appAt, entered, promised, misread>>
        /\ prog' = [q EXCEPT !.inflight = FALSE]
        /\ prover' = IF q.unlocked THEN prover ELSE "none"
    BY DEF RemoteDropped, BootInv, Shape, flashVars, serveVars
  <1>2. /\ DOMAIN o = Fields /\ o.session = prog.session /\ o.owner = prog.owner
        /\ o.unlocked = prog.unlocked /\ o.awaitNet = prog.awaitNet /\ o.quiet = prog.quiet
        /\ o.next = prog.next /\ o.work = prog.work
    BY <1>1 DEF NoReset, Fields
  <1> HIDE DEF o
  <1>3. \/ /\ DOMAIN p = Fields /\ p.session = o.session /\ p.owner = o.owner
           /\ p.unlocked = o.unlocked /\ p.awaitNet = o.awaitNet /\ p.quiet = o.quiet
           /\ p.next = o.next /\ p.work = o.work
        \/ /\ DOMAIN p = Fields /\ p.session = "default" /\ p.owner = "none" /\ ~p.unlocked
           /\ ~p.awaitNet /\ p.quiet = o.quiet /\ p.next = 0 /\ p.work = "none"
    BY <1>2, EndEffect
  <1> HIDE DEF p
  <1>4. /\ DOMAIN q = Fields /\ q.session = p.session /\ q.owner = p.owner
        /\ q.unlocked = p.unlocked /\ q.awaitNet = p.awaitNet /\ q.quiet = p.quiet
        /\ q.next = p.next /\ q.work \in {"none", p.work}
    BY <1>3 DEF NoWork, Fields
  <1> HIDE DEF q
  <1>5. /\ DOMAIN prog' = Fields /\ prog'.session = q.session /\ prog'.owner = q.owner
        /\ prog'.unlocked = q.unlocked /\ prog'.awaitNet = q.awaitNet /\ prog'.quiet = q.quiet
        /\ prog'.next = q.next /\ prog'.work = q.work
    BY <1>1, <1>4 DEF Fields
  <1>6. CellKept' /\ AppVerified' /\ OnlyBootServes'
    BY <1>1, ServingKeepsCell
  <1>7. Shape'
    BY <1>1, <1>2, <1>3, <1>4, <1>5 DEF BootInv, Shape, SlotShape, Sessions
  <1>8. FlashOrder'
    BY <1>1, <1>2, <1>3, <1>4, <1>5 DEF BootInv, FlashOrder, MarkedSound
  <1>9. Unlocks'
    BY <1>1, <1>2, <1>3, <1>4, <1>5 DEF BootInv, Unlocks
  <1>10. Clocks'
    <2>1. ~prog.awaitNet
      BY <1>1 DEF BootInv, Clocks
    <2>2. prog'.quiet = prog.quiet /\ ~prog'.awaitNet
      BY <2>1, <1>2, <1>3, <1>4, <1>5
    <2>3. \/ prog'.session = prog.session
          \/ prog'.session = "default" /\ (prog.session = "default" \/ still <= S3)
      <3>1. prog.session # "default" => still <= S3
        BY <1>1, <2>1 DEF BootInv, Clocks, SilenceEnds
      <3> QED
        BY <1>2, <1>3, <1>4, <1>5, <3>1
    <2>4. SilenceEnds'
      BY <1>1, <2>1, <2>2, <2>3, BootAssumption DEF BootInv, Clocks, SilenceEnds, BootAssumption
    <2> QED
      BY <1>1, <2>2, <2>4 DEF BootInv, Clocks
  <1> QED
    BY <1>6, <1>7, <1>8, <1>9, <1>10 DEF BootInv

\* The network is seen up: a session handed off over it is timed from here.
LEMMA NetUpSeenKeeps == ASSUME BootInv, NetUpSeen PROVE BootInv'
  <1>1. /\ bootMode = "boot" /\ DOMAIN prog = Fields /\ ~entered.netUp
        /\ UNCHANGED <<slot, prover, request, bootMode, appAt, promised, misread>>
        /\ entered' = [entered EXCEPT !.netUp = TRUE]
        /\ prog' = IF prog.awaitNet THEN [prog EXCEPT !.awaitNet = FALSE, !.quiet = 0] ELSE prog
        /\ still' = IF prog.awaitNet THEN 0 ELSE still
    BY DEF NetUpSeen, BootInv, Shape, FlashKept, flashVars
  <1>2. /\ DOMAIN prog' = Fields /\ prog'.session = prog.session /\ prog'.owner = prog.owner
        /\ prog'.unlocked = prog.unlocked /\ ~prog'.awaitNet
        /\ prog'.quiet = (IF prog.awaitNet THEN 0 ELSE prog.quiet)
        /\ prog'.next = prog.next /\ prog'.work = prog.work
    BY <1>1 DEF Fields
  <1>3. DOMAIN entered' = {"requested", "appOk", "netUp"} /\ entered'.requested = entered.requested
        /\ entered'.appOk = entered.appOk
    BY <1>1 DEF BootInv, Shape
  <1>4. CellKept' /\ AppVerified' /\ OnlyBootServes'
    BY <1>1, ServingKeepsCell
  <1>5. Shape' /\ FlashOrder' /\ Unlocks'
    BY <1>1, <1>2, <1>3 DEF BootInv, Shape, SlotShape, FlashOrder, MarkedSound, Unlocks
  <1>6. Clocks'
    BY <1>1, <1>2, <1>3, LimitsCounted, BootAssumption DEF BootInv, Clocks, SilenceEnds, BootAssumption
  <1> QED
    BY <1>4, <1>5, <1>6 DEF BootInv

-------------------------------------------------------------------------------
\* A step of a routine: the session stays, the clock starts over, and the slot is as sound
\* as the step left it.
LEMMA StepKeeps ==
    ASSUME BootInv, bootMode = "boot", NEW p, Stepped(p), DOMAIN p = Fields,
           p.session = prog.session, p.owner = prog.owner, p.unlocked = prog.unlocked,
           p.awaitNet = prog.awaitNet, p.next = prog.next, p.work \in {"none", "answer", prog.work},
           SlotShape(slot'), MarkedSound(slot'), prog.next # 0 => slot'.mark # "VALD"
    PROVE  BootInv'
  <1>1. /\ prog' = [p EXCEPT !.quiet = 0] /\ still' = 0
        /\ UNCHANGED <<request, bootMode, appAt, entered, promised, misread, prover>>
    BY DEF Stepped, serveVars
  <1>2. /\ DOMAIN prog' = Fields /\ prog'.session = prog.session /\ prog'.owner = prog.owner
        /\ prog'.unlocked = prog.unlocked /\ prog'.awaitNet = prog.awaitNet /\ prog'.quiet = 0
        /\ prog'.next = prog.next /\ prog'.work \in {"none", "answer", prog.work}
    BY <1>1 DEF Fields
  <1>3. CellKept' /\ AppVerified' /\ OnlyBootServes'
    BY <1>1, ServingKeepsCell
  <1>4. Shape' /\ FlashOrder' /\ Unlocks'
    BY <1>1, <1>2 DEF BootInv, Shape, SlotShape, FlashOrder, MarkedSound, Unlocks
  <1>5. Clocks'
    BY <1>1, <1>2, LimitsCounted, BootAssumption DEF BootInv, Clocks, SilenceEnds, BootAssumption
  <1> QED
    BY <1>3, <1>4, <1>5 DEF BootInv

\* What a routine makes of the server's fields when it answers, goes on or gives up.
LEMMA RespondEffect ==
    ASSUME NEW p, DOMAIN p = Fields, NEW q, q \in {Responds(p), AnswerOut(p), NoWork(p)}
    PROVE  /\ DOMAIN q = Fields /\ q.session = p.session /\ q.owner = p.owner /\ q.unlocked = p.unlocked
           /\ q.awaitNet = p.awaitNet /\ q.next = p.next /\ q.work \in {"none", "answer", p.work}
  <1>1. CASE q = Responds(p)
    BY <1>1 DEF Responds, Fields
  <1>2. CASE q = AnswerOut(p)
    BY <1>2 DEF AnswerOut, Responds, Fields
  <1>3. CASE q = NoWork(p)
    BY <1>3 DEF NoWork, Fields
  <1> QED
    BY <1>1, <1>2, <1>3

LEMMA ResendKeeps == ASSUME BootInv, StepResends PROVE BootInv'
  <1> DEFINE p == [prog EXCEPT !.resend = FALSE, !.tries = @ + 1]
             q == CASE p.tries <= Resends -> Responds(p)
                    [] p.tries > Resends /\ p.work = "answer" -> NoWork(p)
                    [] OTHER -> AnswerOut(p)
  <1>1. bootMode = "boot" /\ DOMAIN prog = Fields /\ slot' = slot
    BY DEF StepResends, WorkDue, BootInv, Shape, flashVars
  <1>2. /\ DOMAIN p = Fields /\ p.session = prog.session /\ p.owner = prog.owner
        /\ p.unlocked = prog.unlocked /\ p.awaitNet = prog.awaitNet
        /\ p.next = prog.next /\ p.work = prog.work
    BY <1>1 DEF Fields
  <1>3. Stepped(q)
    BY DEF StepResends
  <1> HIDE DEF p
  <1>4. q \in {Responds(p), AnswerOut(p), NoWork(p)}
    OBVIOUS
  <1> HIDE DEF q
  <1>5. SlotShape(slot') /\ MarkedSound(slot') /\ (prog.next # 0 => slot'.mark # "VALD")
    BY <1>1 DEF BootInv, Shape, FlashOrder
  <1> QED
    BY <1>1, <1>2, <1>3, <1>4, <1>5, RespondEffect, StepKeeps

LEMMA CheckKeeps == ASSUME BootInv, StepChecks PROVE BootInv'
  <1> DEFINE p == [prog EXCEPT !.ready = FALSE]
  <1>1. /\ bootMode = "boot" /\ DOMAIN prog = Fields /\ prog.next = 0
        /\ SlotShape(slot) /\ MarkedSound(slot) /\ Shape
    BY DEF StepChecks, StepReady, WorkDue, BootInv, Shape, FlashOrder
  <1>2. /\ DOMAIN p = Fields /\ p.session = prog.session /\ p.owner = prog.owner
        /\ p.unlocked = prog.unlocked /\ p.awaitNet = prog.awaitNet
        /\ p.next = prog.next /\ p.work = prog.work
    BY <1>1 DEF Fields
  <1>3. Stepped(AnswerOut(p))
    BY DEF StepChecks
  <1> HIDE DEF p
  <1>4. SlotShape(slot') /\ MarkedSound(slot')
    <2>1. CASE Verified
      <3>1. PICK end \in ProgramEnds("mark", "VALD") : Flashes(end)
        BY <2>1 DEF StepChecks
      <3> QED
        BY <1>1, <2>1, <3>1, MarkSound DEF Flashes
    <2>2. CASE ~Verified
      BY <1>1, <2>2 DEF StepChecks, flashVars
    <2> QED
      BY <2>1, <2>2
  <1> QED
    BY <1>1, <1>2, <1>3, <1>4, RespondEffect, StepKeeps

LEMMA EraseKeeps == ASSUME BootInv, StepErases PROVE BootInv'
  <1> DEFINE p == [prog EXCEPT !.ready = FALSE, !.units = @ \ {NextUnit}]
             p1 == [p EXCEPT !.units = {}]
             p2 == [p EXCEPT !.erased = TRUE]
  <1>1. bootMode = "boot" /\ DOMAIN prog = Fields /\ Shape /\ MarkedSound(slot)
        /\ (prog.next # 0 => slot.mark # "VALD")
    BY DEF StepErases, StepReady, WorkDue, BootInv, Shape, FlashOrder
  <1>2. PICK end \in EraseEnds(NextUnit) :
          /\ Flashes(end)
          /\ \E q \in {AnswerOut(p1), AnswerOut(p2), Responds(p)} : Stepped(q)
    BY DEF StepErases
  <1>3. SlotShape(slot') /\ MarkedSound(slot') /\ (prog.next # 0 => slot'.mark # "VALD")
    BY <1>1, <1>2, EraseSound DEF Flashes
  <1>4. \A r \in {p, p1, p2} :
          /\ DOMAIN r = Fields /\ r.session = prog.session /\ r.owner = prog.owner
          /\ r.unlocked = prog.unlocked /\ r.awaitNet = prog.awaitNet
          /\ r.next = prog.next /\ r.work = prog.work
    <2> TAKE r \in {p, p1, p2}
    <2>1. CASE r = p
      BY <1>1, <2>1 DEF Fields
    <2>2. CASE r = p1
      BY <1>1, <2>2 DEF Fields
    <2>3. CASE r = p2
      BY <1>1, <2>3 DEF Fields
    <2> QED
      BY <2>1, <2>2, <2>3
  <1> HIDE DEF p, p1, p2
  <1>5. PICK r \in {p, p1, p2} : \E q \in {AnswerOut(r), Responds(r)} : Stepped(q)
    BY <1>2
  <1>6. DOMAIN r = Fields
    BY <1>4
  <1> QED
    BY <1>1, <1>3, <1>4, <1>5, <1>6, RespondEffect, StepKeeps

-------------------------------------------------------------------------------
\* A tick of silence: the clocks move together, and the limits are looked at.
LEMMA TickKeeps == ASSUME BootInv, Tick PROVE BootInv'
  <1> USE LimitsCounted
  <1> DEFINE c == IF Held(prog) THEN 0 ELSE prog.quiet + 1
             p == [prog EXCEPT !.quiet = c]
             q == IF p.awaitNet /\ p.quiet > NetWait THEN [p EXCEPT !.awaitNet = FALSE] ELSE p
             t == IF q.session # "default" /\ ~q.awaitNet /\ q.quiet > S3 THEN EndSession(q) ELSE q
  <1>1. /\ bootMode = "boot" /\ DOMAIN prog = Fields /\ slot' = slot /\ ~IdleReturnDue
        /\ UNCHANGED <<request, bootMode, appAt, entered, promised, misread>>
        /\ prover' = IF Ticked.unlocked THEN prover ELSE "none"
        /\ prog' = [Ticked EXCEPT !.quiet = IF @ > Longest + 1 THEN Longest + 1 ELSE @]
        /\ still' = Silence
    BY DEF Tick, BootInv, Shape, flashVars, serveVars
  <1>2. Ticked = t
    <2>1. p = [prog EXCEPT !.quiet = IF Held(prog) THEN 0 ELSE @ + 1]
      BY <1>1 DEF Fields
    <2> QED
      BY <2>1 DEF Ticked
  <1>3. c \in Nat /\ still' \in Nat /\ still' <= c /\ still' <= Longest + 1
    BY <1>1 DEF Silence, BootInv, Clocks
  <1> HIDE DEF c
  <1>4. /\ DOMAIN p = Fields /\ p.session = prog.session /\ p.owner = prog.owner
        /\ p.unlocked = prog.unlocked /\ p.awaitNet = prog.awaitNet /\ p.quiet = c
        /\ p.next = prog.next /\ p.work = prog.work
    BY <1>1 DEF Fields
  <1> HIDE DEF p
  <1>5. /\ DOMAIN q = Fields /\ q.session = p.session /\ q.owner = p.owner
        /\ q.unlocked = p.unlocked /\ q.quiet = c /\ q.next = p.next /\ q.work = p.work
        /\ q.awaitNet => p.awaitNet /\ ~(c > NetWait)
    <2>1. CASE p.awaitNet /\ p.quiet > NetWait
      BY <1>4, <2>1 DEF Fields
    <2>2. CASE ~(p.awaitNet /\ p.quiet > NetWait)
      <3>1. q = p
        BY <2>2
      <3> QED
        BY <1>4, <2>2, <3>1
    <2> QED
      BY <2>1, <2>2
  <1> HIDE DEF q
  <1>6. \/ /\ t = q /\ (q.session # "default" /\ ~q.awaitNet => c <= S3)
        \/ /\ DOMAIN t = Fields /\ t.session = "default" /\ t.owner = "none" /\ ~t.unlocked
           /\ ~t.awaitNet /\ t.quiet = c /\ t.next = 0 /\ t.work = "none"
    BY <1>3, <1>5, EndEffect, BootAssumption DEF BootAssumption
  <1>7. DOMAIN t = Fields /\ t.quiet = c
    BY <1>5, <1>6
  <1> HIDE DEF t
  <1>8. /\ DOMAIN prog' = Fields /\ prog'.session = t.session /\ prog'.owner = t.owner
        /\ prog'.unlocked = t.unlocked /\ prog'.awaitNet = t.awaitNet /\ prog'.next = t.next
        /\ prog'.work = t.work /\ prog'.quiet = IF c > Longest + 1 THEN Longest + 1 ELSE c
    BY <1>1, <1>2, <1>7 DEF Fields
  <1>9. CellKept' /\ AppVerified' /\ OnlyBootServes'
    BY <1>1, ServingKeepsCell
  <1>10. Shape'
    BY <1>1, <1>4, <1>5, <1>6, <1>8 DEF BootInv, Shape, SlotShape, Sessions
  <1>11. FlashOrder'
    BY <1>1, <1>4, <1>5, <1>6, <1>8 DEF BootInv, FlashOrder, MarkedSound
  <1>12. Unlocks'
    BY <1>1, <1>2, <1>4, <1>5, <1>6, <1>8 DEF BootInv, Unlocks
  <1>13. Clocks'
    <2>1. prog'.quiet \in Nat /\ still' <= prog'.quiet /\ prog'.quiet <= Longest + 1
      BY <1>3, <1>8
    <2>2. prog'.awaitNet => c <= NetWait /\ ~entered.netUp
      <3>1. prog'.awaitNet => t = q /\ q.awaitNet
        BY <1>6, <1>8
      <3>2. q.awaitNet => prog.awaitNet /\ c <= NetWait
        BY <1>3, <1>4, <1>5, BootAssumption DEF BootAssumption
      <3> QED
        BY <3>1, <3>2 DEF BootInv, Clocks
    <2>3. prog'.session # "default" /\ ~prog'.awaitNet => c <= S3
      BY <1>6, <1>8
    <2>4. entered.requested /\ entered.appOk /\ prog'.session = "default" => c <= IdleReturn
      BY <1>1, <1>2, <1>3, <1>7, <1>8, BootAssumption DEF IdleReturnDue, BootAssumption
    <2>5. SilenceEnds'
      BY <1>1, <1>3, <2>2, <2>3, <2>4, BootAssumption DEF SilenceEnds, BootAssumption
    <2> QED
      BY <1>1, <1>3, <2>1, <2>2, <2>5 DEF Clocks
  <1> QED
    BY <1>9, <1>10, <1>11, <1>12, <1>13 DEF BootInv
-------------------------------------------------------------------------------
\* Power goes beside the flash operations or inside one, and a pending reset is taken.
LEMMA PowerKeeps ==
    ASSUME BootInv, AppPowerGone \/ BootPowerGone
    PROVE  BootInv'
  <1>1. Shape /\ SlotShape(slot) /\ MarkedSound(slot) /\ (prog.next # 0 => slot.mark # "VALD")
    BY DEF BootInv, Shape, FlashOrder
  <1>2. PICK f \in {slot} \cup HalfErasedUnit(NextUnit)
                   \cup (IF Verified THEN HalfProgrammed("mark") ELSE {})
                   \cup (IF prog.next \in {1, 3} THEN HalfProgrammed(WordAt[prog.next]) ELSE {}) :
          PowerGone(f)
    BY DEF AppPowerGone, BootPowerGone
  <1>3. SlotShape(f) /\ MarkedSound(f)
    <2>1. CASE f = slot
      BY <1>1, <2>1
    <2>2. CASE f \in HalfErasedUnit(NextUnit)
      <3>1. <<f, FALSE>> \in EraseEnds(NextUnit)
        BY <2>2 DEF EraseEnds
      <3> QED
        BY <1>1, <3>1, EraseSound
    <2>3. CASE Verified /\ f \in HalfProgrammed("mark")
      <3>1. <<f, FALSE>> \in ProgramEnds("mark", "VALD")
        BY <2>3 DEF ProgramEnds
      <3> QED
        BY <1>1, <2>3, <3>1, MarkSound
    <2>4. CASE prog.next \in {1, 3} /\ f \in HalfProgrammed(WordAt[prog.next])
      <3>1. <<f, FALSE>> \in ProgramEnds(WordAt[prog.next], prog.image)
        BY <2>4 DEF ProgramEnds
      <3>2. WordAt[prog.next] # "mark" /\ slot.mark # "VALD"
        BY <1>1, <2>4 DEF WordAt
      <3> QED
        BY <1>1, <3>1, <3>2, ProgramSound
    <2> QED
      BY <1>2, <2>1, <2>2, <2>3, <2>4
  <1> QED
    BY <1>2, <1>3, ResetKeeps DEF PowerGone

LEMMA ResetsKeep ==
    ASSUME BootInv, AppResets \/ BootResets
    PROVE  BootInv'
  <1>1. RamLost /\ UNCHANGED <<slot, request, promised>>
    BY DEF AppResets, BootResets, flashVars
  <1>2. SlotShape(slot') /\ MarkedSound(slot')
    BY <1>1 DEF BootInv, Shape, FlashOrder
  <1> QED
    BY <1>1, <1>2, ResetKeeps

LEMMA BootNextKeeps == ASSUME BootInv, BootNext PROVE BootInv'
  <1>1. CASE BootEntry
    BY <1>1, EntryKeeps
  <1>2. CASE AppStores \/ \E k \in Requests : AppAsks(k)
    BY <1>2, AppKeeps
  <1>3. CASE AppResets \/ BootResets
    BY <1>3, ResetsKeep
  <1>4. CASE AppPowerGone \/ BootPowerGone
    BY <1>4, PowerKeeps
  <1>5. ASSUME NEW via \in Via,
               \/ Refuses(via) \/ SessionControl(via) \/ Challenge(via) \/ Proof(via)
               \/ EraseAsked(via) \/ CheckAsked(via) \/ RequestDownload(via) \/ TransferData(via)
               \/ TransferExit(via) \/ (\E q \in BOOLEAN : EcuReset(via, q))
        PROVE  BootInv'
    BY <1>5, RefusesKeeps, SessionKeeps, ChallengeKeeps, ProofKeeps, RoutineKeeps,
       RequestDownloadKeeps, TransferKeeps, EcuResetKeeps
  <1>6. CASE DropsRemote \/ BusEnds \/ PushSent
    BY <1>6, AnswersKeep
  <1>7. CASE RemoteSent \/ RemoteDropped \/ NetUpSeen
    BY <1>7, RemoteSentKeeps, RemoteDroppedKeeps, NetUpSeenKeeps
  <1>8. CASE StepResends \/ StepChecks \/ StepErases
    BY <1>8, ResendKeeps, CheckKeeps, EraseKeeps
  <1>9. CASE Tick
    BY <1>9, TickKeeps
  <1> QED
    BY <1>1, <1>2, <1>3, <1>4, <1>5, <1>6, <1>7, <1>8, <1>9 DEF BootNext

\* The invariant behind the property, for any deadlines and any number of mishaps: the
\* order of erase, download, check and mark in prog.v keeps a mark off every slot that was
\* not verified, and the times it measures never run short.
THEOREM BootInvariance == BootSpec => []BootInv
  <1>1. BootInit => BootInv
    BY InitKept
  <1>2. BootInv /\ [BootNext]_bootVars => BootInv'
    <2> SUFFICES ASSUME BootInv, [BootNext]_bootVars PROVE BootInv'
      OBVIOUS
    <2>1. CASE BootNext
      BY <2>1, BootNextKeeps
    <2>2. CASE UNCHANGED bootVars
      <3>1. Shape' /\ OnlyBootServes' /\ FlashOrder' /\ AppVerified' /\ Unlocks'
        BY <2>2 DEF bootVars, BootInv, Shape, SlotShape, OnlyBootServes, FlashOrder, MarkedSound,
                    AppVerified, Unlocks
      <3>2. Clocks' /\ CellKept'
        BY <2>2 DEF bootVars, BootInv, Clocks, SilenceEnds, CellKept, TakenRequest
      <3> QED
        BY <3>1, <3>2 DEF BootInv
    <2> QED
      BY <2>1, <2>2
  <1> QED
    BY <1>1, <1>2, PTL DEF BootSpec

\* boot.v, prog.v, bootcell.h: only what was verified whole is started, an unlock stays with
\* the transport that earned it, silence ends a session and a stay, and a request that was
\* made is taken, once.
THEOREM BootIsHonest == BootSpec => []BootHonest
  <1>1. BootInv => BootHonest
    BY DEF BootInv, Unlocks, UnlockOwn, Clocks, CellKept, BootHonest
  <1> QED
    BY <1>1, BootInvariance, PTL
=================================================================================
