---------------------------------- MODULE XCore ---------------------------------
(***************************************************************************)
(* A signal between the two cores of an H755, through shared memory that   *)
(* survives resets (boards/common/xioc.h): plain stores and loads, each a  *)
(* step, no read-modify-write.  One core writes, the other polls, and      *)
(* either may restart at any step.  Three channels:                        *)
(*   "pair"  satellite to owner, two words (xcore_pub, xcore_poll);        *)
(*   "wide"  satellite to owner, sequence space seeded per boot            *)
(*           (xcore_pub_n, xcore_poll_n);                                  *)
(*   "down"  owner to satellite, the same channel behind a gate the reader *)
(*           checks before and after (xcore_owner.c, xcore_sat.c).         *)
(* The k-th value published has the number k in each of its words.         *)
(***************************************************************************)
EXTENDS Integers, Sequences

CONSTANTS
    XSlots,     \* XIOC_SLOTS; fewer than the code's 4 make a lap easier
    XWords,     \* words of the signal
    XSeqMod,    \* 2^32
    SeedK,      \* 2654435761
    MaxPubs,    \* bound: values published in one boot of the writer
    WBoots, RBoots  \* bounds: boots of the writer, of the reader

ASSUME XCoreAssumption ==
    /\ XSlots \in Nat \ {0} /\ XWords \in Nat \ {0} /\ XSeqMod \in Nat \ {0, 1} /\ SeedK \in Nat
    /\ MaxPubs \in Nat /\ WBoots \in Nat \ {0} /\ RBoots \in Nat

Odd(n) == IF n % 2 = 1 THEN n ELSE n + 1
Spread(e) == Odd((e * SeedK) % XSeqMod) % XSeqMod

\* The i-th number after a seed, 0 left out.
Number(seed, i) == 1 + ((seed + i - 1) % (XSeqMod - 1))
SeedsApart(boots) ==
    \A a, b \in boots, i, j \in 1 .. MaxPubs :
        Number(Spread(a), i) = Number(Spread(b), j) => a = b /\ i = j

\* No publication of one boot has the number of another ("consecutive epochs land far
\* apart in the sequence space", m4_glue.c), nor of an earlier one of its own: the boots
\* of a satellite are counted, those of an owner numbered by its odd nonces.
ASSUME XNumbersAssumption ==
    /\ MaxPubs < XSeqMod
    /\ SeedsApart(1 .. WBoots) /\ SeedsApart({2 * e + 1 : e \in 1 .. WBoots})

VARIABLES
    dir,        \* which channel
    \* shared memory
    latest, words,      \* xioc_t.latest; xioc_n_t.words
    cell,               \* per slot: the words, with seq as word 0
    ack,                \* the handshake: <<nonce, our layout>>; Closed = 0
    nonce,              \* LAYOUT_REQ (its reader's) or OW_NONCE (its writer's)
    \* the writer
    wseq, xwpc, at,      \* its publish counter; its place, and the cell it is at
    epoch,              \* retained boot count, the seed of "wide"
    pubs,               \* published in this boot
    ours,               \* its image is of the reader's build
    \* the reader
    xpc, xn, xat, xtmp, \* its place; the sequence number it reads; the copy
    gate,               \* the handshake as it read it first
    own,                \* its half of the handshake: req (up), the nonce of its lanes (down)
    rdSeq, lanes,       \* its last-good value
    fresh1,             \* what the poll returned
    \* history
    source,             \* of the values published: the writer's boot, its build
    boot, shown, shownAt,   \* the writer's boot; the one the gate shows; and at the recheck
    crossed, tainted,   \* the writer's restart retracted the gate in this read; in the one that gave the lanes
    rboot               \* restarts of the reader

shared == <<latest, words, cell, ack, nonce>>
writerVars == <<wseq, xwpc, at, epoch, pubs, ours, source, boot, shown>>
readerVars == <<xpc, xn, xat, xtmp, gate, own, rdSeq, lanes, fresh1, shownAt, tainted, rboot>>
xVars == <<dir, shared, writerVars, readerVars, crossed>>

Word == 1 .. XWords
SlotOf(n) == n % XSlots
Closed == <<0, FALSE>>
Zero == [i \in Word |-> 0]
Zeroed == [i \in 0 .. XWords |-> 0]

XInit ==
    /\ dir \in {"pair", "wide", "down"}
    /\ latest = 0 /\ words = 0 /\ cell = [s \in 0 .. XSlots - 1 |-> Zeroed] /\ ack = Closed
    /\ nonce = 1 /\ own = IF dir = "down" THEN 0 ELSE 1
    /\ wseq = 0 /\ xwpc = "retract" /\ at = 0 /\ epoch = 0 /\ pubs = 0 /\ ours = TRUE
    /\ xpc = "idle" /\ xn = 0 /\ xat = 1 /\ xtmp = Zero /\ gate = Closed
    /\ rdSeq = 0 /\ lanes = Zero /\ fresh1 = FALSE
    /\ source = <<>> /\ boot = 1 /\ shown = 0 /\ shownAt = 0
    /\ crossed = FALSE /\ tainted = FALSE /\ rboot = 0

-------------------------------------------------------------------------------
(***************************************************************************)
(* The writer: its boot closes the gate, initialises the channel and opens *)
(* the gate for this build; then it publishes.                             *)
(***************************************************************************)
OnlyWriter == UNCHANGED <<dir, readerVars>>

\* A restart, of this build or, after its core was flashed alone, of another.
WRestart(same) ==
    /\ boot < WBoots
    /\ boot' = boot + 1 /\ ours' = same
    /\ xwpc' = "retract" /\ at' = 0 /\ pubs' = 0
    /\ UNCHANGED <<shared, wseq, epoch, source, shown, crossed>> /\ OnlyWriter

SeedOfBoot(e) == 0  \* a slip: the sequence numbers start over
SeedOf(e) == Spread(e)

\* xcore_layout_retract, xcore_owner_begin
Retract ==
    /\ xwpc = "retract"
    /\ ack' = Closed /\ shown' = boot /\ crossed' = TRUE
    /\ epoch' = epoch + 1
    /\ xwpc' = IF dir = "down" THEN "nonce" ELSE "init"
    /\ UNCHANGED <<latest, words, cell, nonce, wseq, at, pubs, ours, source, boot>> /\ OnlyWriter

NewNonce ==
    /\ xwpc = "nonce"
    /\ nonce' = Odd(nonce + 2)
    /\ xwpc' = "init"
    /\ UNCHANGED <<latest, words, cell, ack, wseq, at, epoch, pubs, ours, source, boot, shown, crossed>>
    /\ OnlyWriter

\* xioc_init, xioc_n_init: the wide channel retracts `latest` before it clears the
\* slots and publishes its width after, the pair clears it last.
Cells == XSlots * (XWords + 1)
InitSteps == IF dir = "pair" THEN Cells + 1 ELSE Cells + 2
ClearsLatest == at = IF dir = "pair" THEN Cells ELSE 0
ClearedCell == IF dir = "pair" THEN at ELSE at - 1
InitCell ==
    /\ xwpc = "init"
    /\ latest' = IF ClearsLatest THEN 0 ELSE latest
    /\ cell' = IF ClearedCell \in 0 .. Cells - 1
               THEN [cell EXCEPT ![ClearedCell \div (XWords + 1)][ClearedCell % (XWords + 1)] = 0]
               ELSE cell
    /\ words' = IF dir # "pair" /\ at = Cells + 1 THEN IF ours THEN XWords ELSE XWords + 1 ELSE words
    /\ wseq' = IF dir = "pair" THEN 0 ELSE SeedOf(IF dir = "down" THEN nonce ELSE epoch)
    /\ at' = IF at + 1 < InitSteps THEN at + 1 ELSE 0
    /\ xwpc' = IF at + 1 < InitSteps THEN xwpc ELSE "open"
    /\ UNCHANGED <<ack, nonce, epoch, pubs, ours, source, boot, shown, crossed>> /\ OnlyWriter

\* xcore_layout_publish, which the satellite repeats every tick; xcore_owner_commit
Open ==
    /\ xwpc = "open" \/ (xwpc = "run" /\ dir # "down" /\ ack # <<nonce, ours>>)
    /\ ack' = <<nonce, ours>>
    /\ xwpc' = "run"
    /\ UNCHANGED <<latest, words, cell, nonce, wseq, at, epoch, pubs, ours, source, boot, shown, crossed>>
    /\ OnlyWriter

NextSeq == LET n == (wseq + 1) % XSeqMod IN IF n = 0 THEN 1 ELSE n

\* A slip: the slot keeps its number while its words are written.
KeptValid(c, n) == c
\* xioc_write, xioc_n_write: invalidate ...
Invalid(c, n) == [c EXCEPT ![SlotOf(n)][0] = 0]

PubBegin ==
    /\ xwpc = "run" /\ pubs < MaxPubs
    /\ wseq' = NextSeq
    /\ cell' = Invalid(cell, NextSeq)
    /\ pubs' = pubs + 1
    /\ source' = Append(source, [boot |-> boot, ours |-> ours])
    /\ xwpc' = "word" /\ at' = 1
    /\ UNCHANGED <<latest, words, ack, nonce, epoch, ours, boot, shown, crossed>> /\ OnlyWriter

PubWord ==
    /\ xwpc = "word"
    /\ cell' = [cell EXCEPT ![SlotOf(wseq)][at] = Len(source)]
    /\ IF at = XWords THEN xwpc' = "valid" /\ at' = 0 ELSE xwpc' = xwpc /\ at' = at + 1
    /\ UNCHANGED <<latest, words, ack, nonce, wseq, epoch, pubs, ours, source, boot, shown, crossed>>
    /\ OnlyWriter

\* ... validate, publish
PubValid ==
    /\ xwpc = "valid"
    /\ cell' = [cell EXCEPT ![SlotOf(wseq)][0] = wseq]
    /\ xwpc' = "publish"
    /\ UNCHANGED <<latest, words, ack, nonce, wseq, at, epoch, pubs, ours, source, boot, shown, crossed>>
    /\ OnlyWriter

PubLatest ==
    /\ xwpc = "publish"
    /\ latest' = wseq
    /\ xwpc' = "run"
    /\ UNCHANGED <<words, cell, ack, nonce, wseq, at, epoch, pubs, ours, source, boot, shown, crossed>>
    /\ OnlyWriter

Writer ==
    \/ \E same \in BOOLEAN : WRestart(same)
    \/ Retract \/ NewNonce \/ InitCell \/ Open \/ PubBegin \/ PubWord \/ PubValid \/ PubLatest

-------------------------------------------------------------------------------
(***************************************************************************)
(* The reader: the gate, the number of the newest value, the copy, the     *)
(* recheck of its sequence word, and for "down" the gate again.            *)
(***************************************************************************)
OnlyReader == UNCHANGED <<dir, latest, words, cell, ack, writerVars>>

\* The owner's boot takes a new req (xcore_clocks_ready); a satellite's forgets.
RRestart ==
    /\ rboot < RBoots
    /\ rboot' = rboot + 1
    /\ nonce' = IF dir = "down" THEN nonce ELSE Odd(nonce + 1)
    /\ own' = IF dir = "down" THEN 0 ELSE Odd(nonce + 1)
    /\ rdSeq' = 0 /\ lanes' = Zero
    /\ xpc' = "idle" /\ xn' = 0 /\ xat' = 1 /\ xtmp' = Zero /\ gate' = Closed
    /\ fresh1' = FALSE /\ shownAt' = 0 /\ tainted' = FALSE /\ crossed' = FALSE
    /\ OnlyReader

Forget == own' = 0 /\ rdSeq' = 0 /\ lanes' = Zero

\* xcore_layout_ok; xcore_down_read's ack
Gate ==
    /\ xpc = "idle"
    /\ gate' = ack /\ crossed' = FALSE
    /\ xpc' = IF dir = "down" THEN "nonce"
              ELSE IF ack = <<own, TRUE>> THEN "latest" ELSE "idle"
    /\ fresh1' = FALSE
    /\ UNCHANGED <<nonce, xn, xat, xtmp, own, rdSeq, lanes, shownAt, tainted, rboot>> /\ OnlyReader

\* The gate must be open for this nonce; a new owner boot starts from nothing.
GateNonce ==
    /\ xpc = "nonce"
    /\ IF gate # <<nonce, TRUE>> THEN xpc' = "idle" /\ Forget
       ELSE /\ xpc' = "latest"
            /\ IF own # nonce THEN own' = nonce /\ rdSeq' = 0 /\ lanes' = Zero
               ELSE UNCHANGED <<own, rdSeq, lanes>>
    /\ UNCHANGED <<nonce, xn, xat, xtmp, gate, fresh1, shownAt, tainted, rboot, crossed>> /\ OnlyReader

After == IF dir = "down" THEN "regate" ELSE "idle"

\* xioc_read, xioc_n_read
ReadLatest ==
    /\ xpc = "latest"
    /\ xn' = latest
    /\ xpc' = IF latest = 0 \/ latest = rdSeq THEN After ELSE IF dir = "pair" THEN "copy" ELSE "words"
    /\ xat' = 1
    /\ UNCHANGED <<nonce, xtmp, gate, own, rdSeq, lanes, fresh1, shownAt, tainted, rboot, crossed>>
    /\ OnlyReader

ReadWords ==
    /\ xpc = "words"
    /\ xpc' = IF words = XWords THEN "copy" ELSE After
    /\ UNCHANGED <<nonce, xn, xat, xtmp, gate, own, rdSeq, lanes, fresh1, shownAt, tainted, rboot, crossed>>
    /\ OnlyReader

CopyWord ==
    /\ xpc = "copy"
    /\ xtmp' = [xtmp EXCEPT ![xat] = cell[SlotOf(xn)][xat]]
    /\ IF xat = XWords THEN xpc' = "recheck" /\ xat' = 1 ELSE xpc' = xpc /\ xat' = xat + 1
    /\ UNCHANGED <<nonce, xn, gate, own, rdSeq, lanes, fresh1, shownAt, tainted, rboot, crossed>>
    /\ OnlyReader

StillThere == cell[SlotOf(xn)][0] = xn

Recheck ==
    /\ xpc = "recheck"
    /\ IF StillThere
       THEN rdSeq' = xn /\ lanes' = xtmp /\ fresh1' = TRUE /\ tainted' = crossed
       ELSE UNCHANGED <<rdSeq, lanes, fresh1, tainted>>
    /\ xpc' = After
    /\ UNCHANGED <<nonce, xn, xat, xtmp, gate, own, shownAt, rboot, crossed>> /\ OnlyReader

\* A slip: the gate is checked before the read only.
RegateNever ==
    /\ xpc = "regate"
    /\ shownAt' = shown
    /\ xpc' = "renonce"
    /\ UNCHANGED <<nonce, xn, xat, xtmp, gate, own, rdSeq, lanes, fresh1, tainted, rboot, crossed>>
    /\ OnlyReader

\* The ack again, the nonce again; then the poll returns whether there is a value.
Regate ==
    /\ xpc = "regate"
    /\ shownAt' = shown
    /\ IF ack = gate THEN xpc' = "renonce" /\ UNCHANGED <<own, rdSeq, lanes, fresh1>>
       ELSE xpc' = "idle" /\ Forget /\ fresh1' = FALSE
    /\ UNCHANGED <<nonce, xn, xat, xtmp, gate, tainted, rboot, crossed>> /\ OnlyReader

Renonce ==
    /\ xpc = "renonce"
    /\ xpc' = "idle"
    /\ IF nonce = own THEN fresh1' = (rdSeq # 0) /\ UNCHANGED <<own, rdSeq, lanes>>
       ELSE Forget /\ fresh1' = FALSE
    /\ UNCHANGED <<nonce, xn, xat, xtmp, gate, shownAt, tainted, rboot, crossed>> /\ OnlyReader

Reader ==
    \/ RRestart \/ Gate \/ GateNonce \/ ReadLatest \/ ReadWords \/ CopyWord \/ Recheck
    \/ Regate \/ Renonce

XNext == Writer \/ Reader

XSpec == XInit /\ [][XNext]_xVars

-------------------------------------------------------------------------------
\* What the reader holds is one value, whole, that a writer of its own build published,
\* wherever the two were in their loads and stores, and however often the writer laps
\* the slots or restarts.  The pair cell's numbers start over with the satellite, so a
\* restart of it inside one poll is excepted there; a writer of another build that comes
\* up inside one poll is excepted upwards, and downwards until the gate is looked at
\* again, DownOfThisBoot (xioc.h, xcore_layout_ok).
HeldWhole ==
    rdSeq # 0 =>
        \/ \E k \in 1 .. Len(source) : lanes = [i \in Word |-> k] /\ (source[k].ours \/ tainted)
        \/ dir = "pair" /\ tainted

\* A poll never replaces a value by an older one (the channel promises the latest);
\* the pair cell again excepted when the satellite restarted inside a poll.
NeverBack ==
    [][(dir = "pair" /\ (tainted \/ tainted')) \/ rdSeq' = 0 \/ rdSeq = 0 \/ lanes'[1] >= lanes[1]]_xVars

\* The satellite is told it has a value exactly when the lanes hold one that an owner of
\* its own build published in the boot the gate showed after the read: never one of a
\* boot before or of another build, with no exception for a restart inside the read;
\* and with no value the lanes are zero (xcore_down_read).
DownOfThisBoot ==
    dir = "down" /\ xpc = "idle" =>
        IF fresh1 THEN source[lanes[1]].boot = shownAt /\ source[lanes[1]].ours
        ELSE rdSeq = 0 => lanes = Zero

\* What a core is told of the other is a value of the other, whole, and of this boot.
HeldHonest == HeldWhole /\ DownOfThisBoot

===============================================================================
