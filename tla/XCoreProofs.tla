------------------------------- MODULE XCoreProofs ------------------------------
(***************************************************************************)
(* What one core is told of the other is one value, whole, of this boot    *)
(* where a boot is shown, and never an older one (XCore), for any boots,   *)
(* publications and size of the sequence space.                            *)
(*                                                                         *)
(* Every publication has a number of its own (XNumbersAssumption); one     *)
(* that is spent is never given again, so a slot that still has the number *)
(* a reader began with is the slot it began with.  The pair cell, whose    *)
(* numbers start over, rests on the gate instead.                          *)
(***************************************************************************)
EXTENDS XCore, Remainders, TLAPS

\* Boots of the writer that gave numbers: those of this channel's seeds, the pair's being one.
Boots == IF dir = "pair" THEN {0} ELSE IF dir = "wide" THEN 1 .. WBoots ELSE {2 * e + 1 : e \in 1 .. WBoots}
Current == IF dir = "pair" THEN 0 ELSE IF dir = "wide" THEN epoch ELSE nonce
Seed(b) == IF dir = "pair" THEN 0 ELSE Spread(b)

\* The writer's boot has come to publishing; the numbers of its boot before it are spent.
XRunning == xwpc \in {"open", "run", "word", "valid", "publish"}
Over == xwpc \in {"retract", "nonce"} \/ (dir = "pair" /\ xwpc = "init")
XGiven(b, i) == b < Current \/ (b = Current /\ (Over \/ i < pubs \/ (i = pubs /\ xwpc \notin {"word", "valid"})))
Spent == {n \in 0 .. XSeqMod - 1 : \E b \in Boots, i \in 1 .. MaxPubs : n = Number(Seed(b), i) /\ XGiven(b, i)}

\* Types.
XSlotNames == 0 .. XSlots - 1
Build == [boot : Nat, ours : BOOLEAN]
XShared ==
    /\ dir \in {"pair", "wide", "down"}
    /\ latest \in Nat /\ words \in Nat
    /\ cell \in [XSlotNames -> [0 .. XWords -> Nat]]
    /\ ack \in Nat \X BOOLEAN /\ nonce \in Nat /\ nonce % 2 = 1
XWriter ==
    /\ xwpc \in {"retract", "nonce", "init"} \/ XRunning
    /\ wseq \in 0 .. XSeqMod - 1 /\ at \in Nat
    /\ xwpc = "word" => at \in Word
    /\ xwpc = "init" => at < InitSteps
    /\ pubs \in 0 .. MaxPubs /\ ours \in BOOLEAN
    /\ boot \in 1 .. WBoots /\ epoch \in Nat /\ shown \in Nat
    /\ source \in Seq(Build)
XReader ==
    /\ xpc \in {"idle", "nonce", "latest", "words", "copy", "recheck", "regate", "renonce"}
    /\ xn \in Nat /\ xat \in Word /\ xtmp \in [Word -> Nat] /\ lanes \in [Word -> Nat]
    /\ gate \in Nat \X BOOLEAN /\ own \in Nat /\ rdSeq \in Nat /\ shownAt \in Nat
    /\ fresh1 \in BOOLEAN /\ crossed \in BOOLEAN /\ tainted \in BOOLEAN
XTypes == XShared /\ XWriter /\ XReader

\* Each boot of the writer has a seed of its own, and publishes from it.
BootsCounted ==
    /\ epoch <= boot /\ (xwpc = "retract" => epoch < boot)
    /\ dir = "down" => \E e \in 0 .. boot : nonce = 2 * e + 1 /\ (xwpc \in {"retract", "nonce"} => e < boot)
    /\ xwpc = "init" \/ XRunning => Current \in Boots
    /\ xwpc = "nonce" => dir = "down"
    /\ XRunning => wseq = IF pubs = 0 THEN Seed(Current) ELSE Number(Seed(Current), pubs)
    /\ xwpc \in {"word", "valid", "publish"} => pubs >= 1
    /\ ~ XRunning => pubs = 0
    /\ xwpc \in {"retract", "nonce"} => at = 0
    /\ xwpc = "open" => pubs = 0

\* A slot that has a number has one value of it, all of it, and a slot that is written
\* has none.
SlotsWhole ==
    \A s \in XSlotNames :
        cell[s][0] # 0 => /\ cell[s][1] \in 1 .. Len(source) /\ \A i \in Word : cell[s][i] = cell[s][1]
                          /\ cell[s][0] \in Spent
Writing ==
    /\ xwpc \in {"word", "valid"} => cell[SlotOf(wseq)][0] = 0
    /\ xwpc \in {"word", "valid", "publish"} =>
         Len(source) >= 1 /\ source[Len(source)] = [boot |-> boot, ours |-> ours]
    /\ xwpc = "word" => \A i \in Word : i < at => cell[SlotOf(wseq)][i] = Len(source)
    /\ xwpc = "valid" => \A i \in Word : cell[SlotOf(wseq)][i] = Len(source)
    /\ xwpc = "publish" => cell[SlotOf(wseq)][0] = wseq /\ cell[SlotOf(wseq)][1] = Len(source)
LatestSpent == latest # 0 => latest \in Spent

\* What xioc_init has come to is empty; where the gate opens all of it is.
Cleared ==
    /\ xwpc = "init" => \A s \in XSlotNames : s * (XWords + 1) < ClearedCell => cell[s][0] = 0
    /\ xwpc = "init" /\ dir # "pair" /\ at > 0 => latest = 0
    /\ xwpc = "open" => latest = 0 /\ \A s \in XSlotNames : cell[s][0] = 0

\* The gate is open only while the writer that opened it publishes or has stopped, and
\* what the slots hold is then its own.
GateShows ==
    /\ xwpc \in {"nonce", "init", "open"} => ack = Closed
    /\ xwpc # "retract" => shown = boot
    /\ xwpc \in {"run", "word", "valid", "publish"} => ack[1] # 0 /\ ack[2] = ours
    /\ ack[2] => ack[1] # 0
    /\ ack[1] # 0 => \A s \in XSlotNames :
         cell[s][0] # 0 => source[cell[s][1]] = [boot |-> shown, ours |-> ack[2]]
OwnNonce ==
    dir = "down" =>
        /\ own <= nonce /\ gate[1] <= nonce /\ ack[1] <= nonce
        /\ xwpc \in {"init", "open"} => own # nonce /\ gate[1] # nonce

\* A read behind an open gate: while the writer has not come to another boot in it, the
\* gate shows the reader's own build.
XReading == xpc \in {"latest", "words", "copy", "recheck"}
XPassed == XReading \/ (xpc = "nonce" /\ gate[2])
GateHeld ==
    /\ dir # "down" => xpc \notin {"nonce", "regate", "renonce"} /\ own # 0
    /\ XPassed /\ ~ crossed => ack[1] # 0 /\ ack[2]
    /\ dir = "down" /\ (XReading \/ xpc \in {"regate", "renonce"}) => gate = <<own, TRUE>> /\ own # 0
    /\ dir = "down" /\ xpc = "nonce" => fresh1 = FALSE

\* What a read is at: while its slot keeps the number, the words it copied are the slot's.
Sure == dir # "pair" \/ ~ crossed
XCopied ==
    xpc \in {"words", "copy", "recheck"} =>
        /\ xn # 0
        /\ Sure => xn \in Spent
        /\ Sure /\ cell[SlotOf(xn)][0] = xn =>
             \A i \in Word : i < xat \/ xpc = "recheck" => xtmp[i] = cell[SlotOf(xn)][1]

\* What the reader holds.
FromBoot(b) == source[lanes[1]].boot = b /\ source[lanes[1]].ours
XHeld ==
    /\ rdSeq = 0 => lanes = Zero
    /\ HeldWhole
    /\ dir = "down" /\ rdSeq # 0 /\ ack = <<own, TRUE>> => FromBoot(shown)
    /\ dir = "down" /\ xpc = "renonce" /\ rdSeq # 0 => FromBoot(shownAt)
    /\ dir = "down" /\ xpc = "idle" /\ fresh1 => rdSeq # 0 /\ FromBoot(shownAt)

\* No value the reader holds, or comes to, is newer than the latest.
Ripe == dir # "pair" \/ ~ tainted
Newer ==
    /\ Ripe /\ rdSeq # 0 /\ latest # 0 /\ cell[SlotOf(latest)][0] = latest => lanes[1] <= cell[SlotOf(latest)][1]
    /\ xpc \in {"words", "copy", "recheck"} /\ Sure /\ cell[SlotOf(xn)][0] = xn =>
         /\ Ripe /\ rdSeq # 0 => lanes[1] <= cell[SlotOf(xn)][1]
         /\ latest # 0 /\ cell[SlotOf(latest)][0] = latest => cell[SlotOf(xn)][1] <= cell[SlotOf(latest)][1]

\* The writer's half, and the reader's.
WriterInv ==
    /\ XShared /\ XWriter /\ BootsCounted
    /\ SlotsWhole /\ Writing /\ LatestSpent /\ Cleared /\ GateShows
ReaderInv == XReader /\ OwnNonce /\ GateHeld /\ XCopied /\ XHeld /\ Newer
XInv == WriterInv /\ ReaderInv

\* The numbers of a boot follow each other.
LEMMA NumberIs ==
  ASSUME NEW s \in 0 .. XSeqMod - 1, NEW i \in Nat \ {0}
  PROVE  /\ Number(s, i) \in 1 .. XSeqMod - 1
         /\ Number(s, i + 1) = IF Number(s, i) + 1 = XSeqMod THEN 1 ELSE Number(s, i) + 1
         /\ Number(s, 1) = IF s + 1 = XSeqMod THEN 1 ELSE s + 1
  <1>1. s + i - 1 \in Nat /\ XSeqMod - 1 \in Nat \ {0} /\ s \in Nat
    BY XCoreAssumption DEF XCoreAssumption
  <1>2. (s + i - 1) % (XSeqMod - 1) \in 0 .. XSeqMod - 2
    <2>1. (s + i - 1) % (XSeqMod - 1) \in 0 .. (XSeqMod - 1) - 1
      BY <1>1, DivMod
    <2> QED BY <2>1, XCoreAssumption DEF XCoreAssumption
  <1>3. ((s + i - 1) + 1) % (XSeqMod - 1)
          = IF ((s + i - 1) % (XSeqMod - 1)) + 1 = XSeqMod - 1 THEN 0 ELSE ((s + i - 1) % (XSeqMod - 1)) + 1
    BY <1>1, ModNext
  <1>4. s + (i + 1) - 1 = (s + i - 1) + 1 /\ s + 1 - 1 = s
    BY <1>1
  <1>5. s % (XSeqMod - 1) = IF s + 1 = XSeqMod THEN 0 ELSE s
    <2>1. CASE s + 1 = XSeqMod
      <3>1. s = (XSeqMod - 1) * 1 + 0 /\ 0 \in 0 .. (XSeqMod - 1) - 1 /\ 1 \in Nat
        BY <2>1, <1>1, XCoreAssumption DEF XCoreAssumption
      <3>2. ((XSeqMod - 1) * 1 + 0) % (XSeqMod - 1) = 0
        BY <3>1, <1>1, ModUnique
      <3> QED BY <2>1, <3>1, <3>2
    <2>2. CASE s + 1 # XSeqMod
      <3>1. s \in 0 .. (XSeqMod - 1) - 1
        BY <2>2, <1>1, XCoreAssumption DEF XCoreAssumption
      <3> QED BY <2>2, <3>1, <1>1, ModSmall
    <2> QED BY <2>1, <2>2
  <1>6. PICK r : r = (s + i - 1) % (XSeqMod - 1)
    OBVIOUS
  <1>7. r \in 0 .. XSeqMod - 2 /\ Number(s, i) = 1 + r
    BY <1>2, <1>6 DEF Number
  <1>8. Number(s, i + 1) = 1 + IF r + 1 = XSeqMod - 1 THEN 0 ELSE r + 1
    BY <1>3, <1>4, <1>6 DEF Number
  <1>9. Number(s, 1) = 1 + (s % (XSeqMod - 1))
    BY <1>4 DEF Number
  <1> QED BY <1>1, <1>5, <1>7, <1>8, <1>9, XCoreAssumption DEF XCoreAssumption

LEMMA SpreadIs ==
  ASSUME NEW e \in Nat
  PROVE  Spread(e) \in 0 .. XSeqMod - 1
  <1>1. e * SeedK \in Nat /\ XSeqMod \in Nat \ {0}
    BY XCoreAssumption DEF XCoreAssumption
  <1>2. (e * SeedK) % XSeqMod \in Nat
    <2>1. (e * SeedK) % XSeqMod \in 0 .. XSeqMod - 1
      BY <1>1, DivMod
    <2> QED BY <2>1, <1>1
  <1>3. PICK x \in Nat : x = (e * SeedK) % XSeqMod
    BY <1>2
  <1>4. Odd(x) \in Nat
    BY DEF Odd
  <1>5. Odd(x) % XSeqMod \in 0 .. XSeqMod - 1
    BY <1>1, <1>4, DivMod
  <1> QED BY <1>3, <1>5 DEF Spread

\* xioc_write's n is the next number of its boot.
LEMMA NextIs ==
  ASSUME XTypes, BootsCounted, xwpc = "run"
  PROVE  NextSeq = Number(Seed(Current), pubs + 1) /\ NextSeq \in 1 .. XSeqMod - 1
  <1>1. Seed(Current) \in 0 .. XSeqMod - 1
    <2>1. Current \in Nat
      BY DEF XTypes, XShared, XWriter, Current
    <2>2. 0 \in 0 .. XSeqMod - 1
      BY XCoreAssumption DEF XCoreAssumption
    <2> QED BY <2>1, <2>2, SpreadIs DEF Seed
  <1>2. wseq \in 0 .. XSeqMod - 1 /\ pubs \in Nat
    BY DEF XTypes, XWriter
  <1>3. wseq = IF pubs = 0 THEN Seed(Current) ELSE Number(Seed(Current), pubs)
    BY DEF BootsCounted, XRunning
  <1>4. NextSeq = IF wseq + 1 = XSeqMod THEN 1 ELSE wseq + 1
    <2>1. XSeqMod \in Nat \ {0, 1}
      BY XCoreAssumption DEF XCoreAssumption
    <2>2. CASE wseq + 1 = XSeqMod
      <3>1. (XSeqMod * 1 + 0) % XSeqMod = 0
        BY <2>1, ModUnique
      <3>2. XSeqMod * 1 + 0 = XSeqMod
        BY <2>1
      <3>3. (wseq + 1) % XSeqMod = 0
        BY <2>2, <3>1, <3>2
      <3> QED BY <2>2, <3>3 DEF NextSeq
    <2>3. CASE wseq + 1 # XSeqMod
      <3>1. wseq + 1 \in 0 .. XSeqMod - 1 /\ wseq + 1 # 0
        BY <2>1, <2>3, <1>2
      <3>2. (wseq + 1) % XSeqMod = wseq + 1
        BY <2>1, <3>1, ModSmall
      <3> QED BY <2>3, <3>1, <3>2 DEF NextSeq
    <2> QED BY <2>2, <2>3
  <1>5. CASE pubs = 0
    <2>1. Number(Seed(Current), 1) = IF Seed(Current) + 1 = XSeqMod THEN 1 ELSE Seed(Current) + 1
      BY <1>1, NumberIs
    <2>2. pubs + 1 = 1 /\ wseq = Seed(Current)
      BY <1>3, <1>5
    <2> QED BY <1>1, <1>4, <2>1, <2>2, XCoreAssumption DEF XCoreAssumption
  <1>6. CASE pubs # 0
    <2>1. pubs \in Nat \ {0} /\ wseq = Number(Seed(Current), pubs)
      BY <1>2, <1>3, <1>6
    <2>2. Number(Seed(Current), pubs + 1)
            = IF Number(Seed(Current), pubs) + 1 = XSeqMod THEN 1 ELSE Number(Seed(Current), pubs) + 1
      BY <1>1, <2>1, NumberIs
    <2> QED BY <1>2, <1>4, <2>1, <2>2, XCoreAssumption DEF XCoreAssumption
  <1> QED BY <1>5, <1>6

\* The number of a publication is nobody else's.
LEMMA NumbersApart ==
  ASSUME XTypes, NEW a \in Boots, NEW b \in Boots, NEW i \in 1 .. MaxPubs, NEW j \in 1 .. MaxPubs,
         Number(Seed(a), i) = Number(Seed(b), j)
  PROVE  a = b /\ i = j
  <1>1. CASE dir = "pair"
    <2>1. a = 0 /\ b = 0 /\ Seed(a) = 0 /\ Seed(b) = 0
      BY <1>1 DEF Boots, Seed
    <2>2. XSeqMod - 1 \in Nat \ {0} /\ MaxPubs \in Nat /\ MaxPubs <= XSeqMod - 1
      BY XCoreAssumption, XNumbersAssumption DEF XCoreAssumption, XNumbersAssumption
    <2>3. 0 + i - 1 \in 0 .. (XSeqMod - 1) - 1 /\ 0 + j - 1 \in 0 .. (XSeqMod - 1) - 1
      BY <2>2
    <2>4. (0 + i - 1) % (XSeqMod - 1) = 0 + i - 1 /\ (0 + j - 1) % (XSeqMod - 1) = 0 + j - 1
      BY <2>2, <2>3, ModSmall
    <2>5. Number(0, i) = 1 + (0 + i - 1) /\ Number(0, j) = 1 + (0 + j - 1)
      BY <2>4 DEF Number
    <2> QED BY <2>1, <2>5
  <1>2. CASE dir = "wide"
    <2>1. a \in 1 .. WBoots /\ b \in 1 .. WBoots /\ Seed(a) = Spread(a) /\ Seed(b) = Spread(b)
      BY <1>2 DEF Boots, Seed
    <2> QED BY <2>1, XNumbersAssumption DEF XNumbersAssumption, SeedsApart
  <1>3. CASE dir = "down"
    <2>1. /\ a \in {2 * e + 1 : e \in 1 .. WBoots} /\ b \in {2 * e + 1 : e \in 1 .. WBoots}
          /\ Seed(a) = Spread(a) /\ Seed(b) = Spread(b)
      BY <1>3 DEF Boots, Seed
    <2>2. SeedsApart({2 * e + 1 : e \in 1 .. WBoots})
      BY XNumbersAssumption DEF XNumbersAssumption
    <2> QED BY <2>1, <2>2 DEF SeedsApart
  <1> QED BY <1>1, <1>2, <1>3 DEF XTypes, XShared

-------------------------------------------------------------------------------
(***************************************************************************)
(* The reader's steps leave the writer's half as it is.                    *)
(***************************************************************************)
LEMMA ReaderLeaves ==
  ASSUME WriterInv, OnlyReader, dir = "down" => nonce' = nonce, nonce' \in Nat, nonce' % 2 = 1
  PROVE  WriterInv' /\ Spent' = Spent
  <1> USE DEF OnlyReader, writerVars
  <1>1. Boots' = Boots /\ Current' = Current /\ (Over <=> Over') /\ (XRunning <=> XRunning')
    BY DEF WriterInv, XShared, Boots, Current, Over, XRunning
  <1>2. \A b : Seed(b)' = Seed(b)
    BY DEF Seed
  <1>3. Spent' = Spent
    BY <1>1, <1>2 DEF Spent, XGiven
  <1>4. XShared' /\ XWriter'
    BY <1>1 DEF WriterInv, XShared, XWriter, InitSteps, XRunning
  <1>5. BootsCounted'
    <2>1. Seed(Current)' = Seed(Current)
      BY <1>1, <1>2 DEF Seed
    <2> QED BY <1>1, <2>1 DEF WriterInv, BootsCounted, XRunning
  <1>6. SlotsWhole' /\ LatestSpent'
    BY <1>3 DEF WriterInv, SlotsWhole, LatestSpent
  <1>7. Writing' /\ Cleared' /\ GateShows'
    BY DEF WriterInv, Writing, Cleared, ClearedCell, GateShows
  <1> QED BY <1>3, <1>4, <1>5, <1>6, <1>7 DEF WriterInv

\* What the facts about a slot say of one.
LEMMA XSlotIs ==
  ASSUME NEW n \in Nat
  PROVE  SlotOf(n) \in XSlotNames
  <1>1. XSlots \in Nat \ {0}
    BY XCoreAssumption DEF XCoreAssumption
  <1> QED BY <1>1, DivMod DEF SlotOf, XSlotNames

LEMMA WordIs == 1 \in Word /\ XWords \in Word /\ 0 \in 0 .. XWords /\ Word \subseteq 0 .. XWords
  BY XCoreAssumption DEF XCoreAssumption, Word

\* A step that leaves what the reader holds leaves what is said of it, as far as it hangs
\* on the writer.
LEMMA RRestartStays == ASSUME XInv, RRestart PROVE XInv'
  <1> USE DEF XInv
  <1>1. nonce' \in Nat /\ nonce' % 2 = 1 /\ (dir = "down" => nonce' = nonce)
    <2>1. nonce \in Nat /\ nonce % 2 = 1
      BY DEF WriterInv, XShared
    <2>2. Odd(nonce + 1) \in Nat /\ Odd(nonce + 1) % 2 = 1
      BY <2>1 DEF Odd
    <2> QED BY <2>1, <2>2 DEF RRestart
  <1>2. WriterInv' /\ Spent' = Spent
    BY <1>1, ReaderLeaves DEF RRestart
  <1>3. Odd(nonce + 1) \in Nat /\ Odd(nonce + 1) # 0
    <2>1. nonce \in Nat
      BY DEF WriterInv, XShared
    <2> QED BY <2>1 DEF Odd
  <1>4. XReader'
    <2>1. Zero \in [Word -> Nat] /\ Closed \in Nat \X BOOLEAN
      BY DEF Zero, Closed
    <2> QED BY <1>3, <2>1, WordIs DEF RRestart, XReader, ReaderInv
  <1>5. OwnNonce'
    <2>1. dir' = "down" => nonce' = nonce /\ own' = 0 /\ gate'[1] = 0
      BY DEF RRestart, OnlyReader, Closed
    <2>2. nonce \in Nat /\ nonce # 0
      BY DEF WriterInv, XShared
    <2> QED BY <2>1, <2>2 DEF RRestart, OnlyReader, ReaderInv, OwnNonce, writerVars
  <1>6. GateHeld' /\ XCopied' /\ Newer'
    BY <1>3 DEF RRestart, OnlyReader, GateHeld, XReading, XCopied, Newer, XPassed
  <1>7. XHeld'
    BY DEF RRestart, XHeld, HeldWhole
  <1> QED BY <1>2, <1>4, <1>5, <1>6, <1>7 DEF ReaderInv

\* The rest of them leave the nonces, and the restarts of the writer in a read.
LEMMA ReaderOwn ==
  ASSUME XInv, OnlyReader, nonce' = nonce
  PROVE  /\ WriterInv' /\ Spent' = Spent
         /\ nonce \in Nat /\ nonce # 0 /\ nonce % 2 = 1
         /\ dir' = dir /\ latest' = latest /\ words' = words /\ cell' = cell /\ ack' = ack
         /\ source' = source /\ shown' = shown
  <1>1. nonce \in Nat /\ nonce % 2 = 1 /\ nonce # 0
    BY DEF XInv, WriterInv, XShared
  <1>2. WriterInv' /\ Spent' = Spent
    BY <1>1, ReaderLeaves DEF XInv
  <1> QED BY <1>1, <1>2 DEF OnlyReader, writerVars

LEMMA GateStays == ASSUME XInv, Gate PROVE XInv'
  <1> USE DEF XInv, ReaderInv
  <1>1. OnlyReader /\ nonce' = nonce
    BY DEF Gate
  <1>2. WriterInv'
    BY <1>1, ReaderOwn
  <1>3. XReader'
    BY DEF Gate, XReader, WriterInv, XShared
  <1>4. OwnNonce'
    <2>1. xwpc \in {"init", "open"} => gate'[1] = 0
      <3>1. <<0, FALSE>>[1] = 0
        OBVIOUS
      <3>2. xwpc \in {"init", "open"} => gate' = Closed
        BY DEF Gate, WriterInv, GateShows
      <3> QED BY <3>1, <3>2 DEF Closed
    <2>2. nonce # 0
      BY <1>1, ReaderOwn
    <2> QED BY <2>1, <2>2, <1>1 DEF Gate, OwnNonce, OnlyReader, writerVars
  <1>5. GateHeld'
    <2>2. ack = <<own, TRUE>> => ack[1] = own /\ ack[2]
      OBVIOUS
    <2>1. dir # "down" /\ xpc' = "latest" => own # 0 /\ ack[1] = own /\ ack[2]
      BY <2>2 DEF Gate, GateHeld, XPassed, XReading
    <2>3. (XPassed /\ ~ crossed)' => ack'[1] # 0 /\ ack'[2]
      <3>1. ack[2] => ack[1] # 0
        BY DEF WriterInv, GateShows
      <3>2. (XPassed /\ ~ crossed)' => ack[2]
        BY <2>1 DEF Gate, XPassed, XReading
      <3> QED BY <1>1, <3>1, <3>2 DEF OnlyReader
    <2>4. xpc' \in {"nonce", "latest", "idle"} /\ fresh1' = FALSE /\ (xpc' = "nonce" => dir = "down")
          /\ (xpc' = "latest" => dir # "down")
      BY DEF Gate
    <2> QED BY <1>1, <2>3, <2>4 DEF Gate, GateHeld, OnlyReader, XReading
  <1>6. XCopied' /\ Newer'
    BY <1>1 DEF Gate, XCopied, Newer, Ripe, OnlyReader
  <1>7. XHeld'
    BY <1>1 DEF Gate, XHeld, HeldWhole, OnlyReader, writerVars, FromBoot
  <1> QED BY <1>2, <1>3, <1>4, <1>5, <1>6, <1>7

LEMMA GateNonceStays == ASSUME XInv, GateNonce PROVE XInv'
  <1> USE DEF XInv, ReaderInv
  <1>1. OnlyReader /\ nonce' = nonce /\ dir = "down"
    BY DEF GateNonce, GateHeld
  <1>2. WriterInv' /\ nonce \in Nat /\ nonce # 0
    BY <1>1, ReaderOwn
  <1>3. XReader'
    <2>1. Zero \in [Word -> Nat]
      BY DEF Zero
    <2>2. own' \in Nat /\ rdSeq' \in Nat /\ lanes' \in [Word -> Nat] /\ xpc' \in {"idle", "latest"}
      <3>1. CASE gate # <<nonce, TRUE>>
        BY <2>1, <3>1 DEF GateNonce, Forget
      <3>2. CASE gate = <<nonce, TRUE>> /\ own # nonce
        BY <1>2, <2>1, <3>2 DEF GateNonce
      <3>3. CASE gate = <<nonce, TRUE>> /\ own = nonce
        BY <3>3 DEF GateNonce, XReader
      <3> QED BY <3>1, <3>2, <3>3
    <2> QED BY <2>2 DEF GateNonce, XReader
  <1>4. OwnNonce'
    <2>1. gate = <<nonce, TRUE>> => gate[1] = nonce
      OBVIOUS
    <2>2. own' = 0 \/ own' = own \/ (own' = nonce /\ gate[1] = nonce)
      BY <2>1 DEF GateNonce, Forget
    <2> QED BY <1>1, <1>2, <2>2 DEF GateNonce, OwnNonce, OnlyReader, writerVars
  <1>5. GateHeld'
    <2>1. gate = <<nonce, TRUE>> => gate[2]
      OBVIOUS
    <2>2. xpc' = "latest" => gate = <<nonce, TRUE>> /\ own' = nonce
      BY DEF GateNonce
    <2>3. (XPassed /\ ~ crossed)' => XPassed /\ ~ crossed
      BY <2>1, <2>2 DEF GateNonce, XPassed, XReading
    <2>4. (XPassed /\ ~ crossed)' => ack'[1] # 0 /\ ack'[2]
      BY <1>1, <2>3 DEF GateHeld, OnlyReader
    <2> QED BY <1>1, <1>2, <2>2, <2>4 DEF GateNonce, GateHeld, OnlyReader, XReading
  <1>6. XCopied' /\ Newer'
    BY <1>1 DEF GateNonce, XCopied, Newer, Ripe, OnlyReader, Forget
  <1>7. XHeld'
    BY <1>1 DEF GateNonce, XHeld, HeldWhole, OnlyReader, writerVars, Forget, GateHeld, XPassed, XReading, FromBoot
  <1> QED BY <1>2, <1>3, <1>4, <1>5, <1>6, <1>7

LEMMA ReadLatestStays == ASSUME XInv, ReadLatest PROVE XInv'
  <1> USE DEF XInv, ReaderInv
  <1>1. OnlyReader /\ nonce' = nonce
    BY DEF ReadLatest
  <1>2. WriterInv' /\ Spent' = Spent
    BY <1>1, ReaderOwn
  <1>3. XReader'
    BY WordIs DEF ReadLatest, XReader, WriterInv, XShared, After
  <1>4. OwnNonce'
    BY <1>1 DEF ReadLatest, OwnNonce, OnlyReader, writerVars
  <1>5. GateHeld'
    BY <1>1 DEF ReadLatest, GateHeld, OnlyReader, XReading, After, XPassed
  <1>6. XCopied'
    <2>1. xpc' \in {"words", "copy", "recheck"} => xpc' # "recheck" /\ latest # 0 /\ xn' = latest /\ xat' = 1
      BY DEF ReadLatest, After
    <2>2. \A i \in Word : ~ (i < 1)
      BY DEF Word
    <2>3. latest # 0 => latest \in Spent
      BY DEF WriterInv, LatestSpent
    <2> QED BY <1>2, <2>1, <2>2, <2>3 DEF XCopied
  <1>7. Newer'
    <2>1. cell' = cell /\ latest' = latest /\ rdSeq' = rdSeq /\ lanes' = lanes /\ dir' = dir
          /\ crossed' = crossed /\ tainted' = tainted /\ xn' = latest
      BY <1>1, ReaderOwn DEF ReadLatest
    <2>2. cell[SlotOf(latest)][1] <= cell[SlotOf(latest)][1]
      <3>1. cell[SlotOf(latest)][1] \in Nat
        BY XSlotIs, WordIs DEF WriterInv, XShared
      <3> QED BY <3>1
    <2>3. xpc' \in {"words", "copy", "recheck"} => latest # 0
      BY DEF ReadLatest, After
    <2> QED BY <2>1, <2>2, <2>3 DEF Newer, Ripe, Sure
  <1>8. XHeld'
    BY <1>1 DEF ReadLatest, XHeld, HeldWhole, OnlyReader, writerVars, After, FromBoot
  <1> QED BY <1>2, <1>3, <1>4, <1>5, <1>6, <1>7, <1>8

LEMMA ReadWordsStays == ASSUME XInv, ReadWords PROVE XInv'
  <1> USE DEF XInv, ReaderInv
  <1>1. OnlyReader /\ nonce' = nonce
    BY DEF ReadWords
  <1>2. WriterInv' /\ Spent' = Spent
    BY <1>1, ReaderOwn
  <1>3. XReader'
    BY DEF ReadWords, XReader, After
  <1>4. OwnNonce'
    BY <1>1 DEF ReadWords, OwnNonce, OnlyReader, writerVars
  <1>5. GateHeld'
    BY <1>1 DEF ReadWords, GateHeld, OnlyReader, XReading, After, XPassed
  <1>6. XCopied'
    BY <1>1, <1>2 DEF ReadWords, XCopied, OnlyReader, Sure, After
  <1>7. Newer'
    BY <1>1 DEF ReadWords, Newer, Ripe, Sure, OnlyReader, After
  <1>8. XHeld'
    BY <1>1 DEF ReadWords, XHeld, HeldWhole, OnlyReader, writerVars, After, FromBoot
  <1> QED BY <1>2, <1>3, <1>4, <1>5, <1>6, <1>7, <1>8

LEMMA CopyWordStays == ASSUME XInv, CopyWord PROVE XInv'
  <1> USE DEF XInv, ReaderInv
  <1>1. OnlyReader /\ nonce' = nonce
    BY DEF CopyWord
  <1>2. WriterInv' /\ Spent' = Spent
    BY <1>1, ReaderOwn
  <1>9. xat \in Word /\ xtmp \in [Word -> Nat] /\ xn \in Nat
    BY DEF XReader
  <1>10. cell[SlotOf(xn)][xat] \in Nat
    BY <1>9, XSlotIs, WordIs DEF WriterInv, XShared
  <1>3. XReader'
    <2>1. xat # XWords => xat + 1 \in Word
      BY <1>9, WordIs DEF Word
    <2> QED BY <1>9, <1>10, <2>1, WordIs DEF CopyWord, XReader
  <1>4. OwnNonce'
    BY <1>1 DEF CopyWord, OwnNonce, OnlyReader, writerVars
  <1>5. GateHeld'
    BY <1>1 DEF CopyWord, GateHeld, OnlyReader, XReading, XPassed
  <1>6. XCopied'
    <2>1. PICK w : w = cell[SlotOf(xn)][xat]
      OBVIOUS
    <2>2. xtmp' = [xtmp EXCEPT ![xat] = w] /\ xn' = xn /\ cell' = cell
      BY <1>1, <2>1, ReaderOwn DEF CopyWord
    <2>3. xn # 0 /\ (Sure => xn \in Spent) /\ Sure' = Sure
      BY <1>1 DEF CopyWord, XCopied, OnlyReader, Sure
    <2>4. ASSUME Sure, cell[SlotOf(xn)][0] = xn, NEW i \in Word, i < xat' \/ xpc' = "recheck"
          PROVE  xtmp'[i] = cell[SlotOf(xn)][1]
      <3>1. i < xat \/ i = xat
        BY <1>9, <2>4, WordIs DEF CopyWord, Word
      <3>2. CASE i = xat
        <4>1. cell[SlotOf(xn)][i] = cell[SlotOf(xn)][1]
          BY <1>9, <2>3, <2>4, XSlotIs DEF WriterInv, SlotsWhole
        <4> QED BY <1>9, <2>1, <2>2, <3>2, <4>1
      <3>3. CASE i < xat
        <4>1. xtmp'[i] = xtmp[i]
          BY <1>9, <2>2, <3>3 DEF Word
        <4>2. xtmp[i] = cell[SlotOf(xn)][1]
          BY <2>4, <3>3 DEF XCopied, CopyWord
        <4> QED BY <4>1, <4>2
      <3> QED BY <3>1, <3>2, <3>3
    <2> QED BY <1>2, <2>2, <2>3, <2>4 DEF XCopied
  <1>7. Newer'
    BY <1>1 DEF CopyWord, Newer, Ripe, Sure, OnlyReader
  <1>8. XHeld'
    BY <1>1 DEF CopyWord, XHeld, HeldWhole, OnlyReader, writerVars, FromBoot
  <1> QED BY <1>2, <1>3, <1>4, <1>5, <1>6, <1>7, <1>8

LEMMA RecheckStays == ASSUME XInv, Recheck PROVE XInv'
  <1> USE DEF XInv, ReaderInv
  <1>1. OnlyReader /\ nonce' = nonce
    BY DEF Recheck
  <1>2. /\ WriterInv' /\ Spent' = Spent /\ cell' = cell /\ latest' = latest /\ source' = source
        /\ ack' = ack /\ shown' = shown /\ dir' = dir
    BY <1>1, ReaderOwn
  <1>3. XReader'
    BY DEF Recheck, XReader, After
  <1>4. OwnNonce'
    BY <1>1 DEF Recheck, OwnNonce, OnlyReader, writerVars
  <1>5. GateHeld'
    BY <1>1 DEF Recheck, GateHeld, OnlyReader, XReading, After, XPassed
  <1>6. XCopied'
    BY DEF Recheck, XCopied, After
  <1>7. xpc' \notin {"words", "copy", "recheck", "renonce"} /\ (dir = "down" => xpc' # "idle")
    BY DEF Recheck, After
  <1>8. CASE ~ StillThere
    <2>1. UNCHANGED <<rdSeq, lanes, fresh1, tainted, own>>
      BY <1>8 DEF Recheck
    <2>2. XHeld'
      BY <1>2, <1>7, <2>1 DEF XHeld, HeldWhole, FromBoot
    <2>3. Newer'
      BY <1>2, <1>7, <2>1 DEF Newer, Ripe
    <2> QED BY <1>2, <1>3, <1>4, <1>5, <1>6, <2>2, <2>3
  <1>9. CASE StillThere
    <2>1. rdSeq' = xn /\ lanes' = xtmp /\ tainted' = crossed /\ own' = own
      BY <1>9 DEF Recheck
    <2>2. xn \in Nat /\ xn # 0 /\ xpc = "recheck" /\ xtmp \in [Word -> Nat]
      BY DEF XReader, XCopied, Recheck
    <2>3. PICK k : k = cell[SlotOf(xn)][1]
      OBVIOUS
    <2>4. k \in 1 .. Len(source) /\ cell[SlotOf(xn)][0] # 0
      BY <1>9, <2>2, <2>3, XSlotIs DEF StillThere, WriterInv, SlotsWhole
    <2>5. Sure => \A i \in Word : xtmp[i] = k
      BY <1>9, <2>2, <2>3 DEF XCopied, StillThere
    <2>6. Sure => xtmp = [i \in Word |-> k] /\ xtmp[1] = k
      BY <2>2, <2>5, WordIs
    <2>7. ack[1] # 0 => source[k] = [boot |-> shown, ours |-> ack[2]]
      BY <2>2, <2>3, <2>4, XSlotIs DEF WriterInv, GateShows
    <2>8. source[k].ours \/ crossed
      <3>1. CASE ~ crossed
        <4>1. ack[1] # 0 /\ ack[2]
          BY <2>2, <3>1 DEF GateHeld, XPassed, XReading
        <4> QED BY <2>7, <4>1
      <3> QED BY <3>1 DEF XReader
    <2>9. HeldWhole'
      BY <1>2, <2>1, <2>4, <2>6, <2>8 DEF HeldWhole, Sure
    <2>10. dir = "down" /\ ack = <<own, TRUE>> => source[lanes'[1]].boot = shown /\ source[lanes'[1]].ours
      <3>1. <<own, TRUE>>[1] = own /\ <<own, TRUE>>[2] = TRUE
        OBVIOUS
      <3>2. dir = "down" => own # 0 /\ Sure
        BY <2>2 DEF GateHeld, XReading, Sure
      <3> QED BY <2>1, <2>6, <2>7, <3>1, <3>2
    <2>11. XHeld'
      BY <1>2, <1>7, <2>1, <2>2, <2>9, <2>10 DEF XHeld, FromBoot
    <2>12. Newer'
      <3>1. Ripe' <=> Sure
        BY <1>2, <2>1 DEF Ripe, Sure
      <3>2. Sure /\ latest # 0 /\ cell[SlotOf(latest)][0] = latest => k <= cell[SlotOf(latest)][1]
        BY <1>9, <2>2, <2>3 DEF Newer, StillThere
      <3> QED BY <1>2, <1>7, <2>1, <2>6, <3>1, <3>2 DEF Newer
    <2> QED BY <1>2, <1>3, <1>4, <1>5, <1>6, <2>11, <2>12
  <1> QED BY <1>8, <1>9

LEMMA RegateStays == ASSUME XInv, Regate PROVE XInv'
  <1> USE DEF XInv, ReaderInv
  <1>1. OnlyReader /\ nonce' = nonce /\ dir = "down"
    BY DEF Regate, GateHeld
  <1>2. /\ WriterInv' /\ cell' = cell /\ latest' = latest /\ source' = source
        /\ ack' = ack /\ shown' = shown /\ dir' = dir
    BY <1>1, ReaderOwn
  <1>3. XReader'
    <2>1. Zero \in [Word -> Nat] /\ shown \in Nat
      BY DEF Zero, WriterInv, XWriter
    <2>2. CASE ack = gate
      BY <2>1, <2>2 DEF Regate, XReader
    <2>3. CASE ack # gate
      <3>1. own' = 0 /\ rdSeq' = 0 /\ lanes' = Zero /\ fresh1' = FALSE /\ xpc' = "idle"
        BY <2>3 DEF Regate, Forget
      <3> QED BY <2>1, <3>1 DEF Regate, XReader
    <2> QED BY <2>2, <2>3
  <1>4. OwnNonce'
    <2>1. own' = 0 \/ own' = own
      BY DEF Regate, Forget
    <2>2. nonce \in Nat
      BY DEF WriterInv, XShared
    <2>3. UNCHANGED <<dir, nonce, gate, ack, xwpc>>
      BY <1>1 DEF Regate, OnlyReader, writerVars
    <2>4. 0 <= nonce /\ nonce # 0
      BY <2>2, <1>1, ReaderOwn
    <2> QED BY <2>1, <2>3, <2>4 DEF OwnNonce
  <1>5. GateHeld'
    BY <1>1 DEF Regate, GateHeld, OnlyReader, XReading, XPassed
  <1>6. XCopied' /\ Newer'
    BY <1>1 DEF Regate, XCopied, Newer, Ripe, OnlyReader, Forget
  <1>7. XHeld'
    <2>1. CASE ack = gate
      BY <1>1, <1>2, <2>1 DEF Regate, XHeld, HeldWhole, GateHeld, XPassed, XReading, FromBoot
    <2>2. CASE ack # gate
      BY <1>1, <1>2, <2>2 DEF Regate, XHeld, HeldWhole, Forget
    <2> QED BY <2>1, <2>2
  <1> QED BY <1>2, <1>3, <1>4, <1>5, <1>6, <1>7

LEMMA RenonceStays == ASSUME XInv, Renonce PROVE XInv'
  <1> USE DEF XInv, ReaderInv
  <1>1. OnlyReader /\ nonce' = nonce /\ dir = "down"
    BY DEF Renonce, GateHeld
  <1>2. /\ WriterInv' /\ cell' = cell /\ latest' = latest /\ source' = source
        /\ ack' = ack /\ shown' = shown /\ dir' = dir
    BY <1>1, ReaderOwn
  <1>3. XReader'
    <2>1. Zero \in [Word -> Nat]
      BY DEF Zero
    <2>2. CASE nonce = own
      BY <2>1, <2>2 DEF Renonce, XReader
    <2>3. CASE nonce # own
      <3>1. own' = 0 /\ rdSeq' = 0 /\ lanes' = Zero /\ fresh1' = FALSE /\ xpc' = "idle"
        BY <2>3 DEF Renonce, Forget
      <3> QED BY <2>1, <3>1 DEF Renonce, XReader
    <2> QED BY <2>2, <2>3
  <1>4. OwnNonce'
    <2>1. own' = 0 \/ own' = own
      BY DEF Renonce, Forget
    <2>2. nonce \in Nat
      BY DEF WriterInv, XShared
    <2>3. UNCHANGED <<dir, nonce, gate, ack, xwpc>>
      BY <1>1 DEF Renonce, OnlyReader, writerVars
    <2>4. 0 <= nonce /\ nonce # 0
      BY <2>2, <1>1, ReaderOwn
    <2> QED BY <2>1, <2>3, <2>4 DEF OwnNonce
  <1>5. GateHeld'
    BY <1>1 DEF Renonce, GateHeld, OnlyReader, XReading, XPassed
  <1>6. XCopied' /\ Newer'
    BY <1>1 DEF Renonce, XCopied, Newer, Ripe, OnlyReader, Forget
  <1>7. XHeld'
    <2>1. CASE nonce = own
      BY <1>1, <1>2, <2>1 DEF Renonce, XHeld, HeldWhole, FromBoot
    <2>2. CASE nonce # own
      BY <1>1, <1>2, <2>2 DEF Renonce, XHeld, HeldWhole, Forget
    <2> QED BY <2>1, <2>2
  <1> QED BY <1>2, <1>3, <1>4, <1>5, <1>6, <1>7

-------------------------------------------------------------------------------
(***************************************************************************)
(* What a step of the writer leaves to the reader: a number that is spent  *)
(* is never given again, and the slot that has it is not written before    *)
(* it has lost it.                                                         *)
(***************************************************************************)
InCopy == xpc \in {"words", "copy", "recheck"}
StillHeld ==
    /\ InCopy /\ (dir = "pair" => ~ crossed') => Spent \subseteq Spent'
    /\ Len(source) <= Len(source') /\ \A k \in 1 .. Len(source) : source'[k] = source[k]
    /\ \A s \in XSlotNames : cell'[s][0] # 0 /\ cell'[s][0] \in Spent => cell'[s] = cell[s]
    /\ crossed => crossed'
    /\ \/ latest' = latest \/ latest' = 0
       \/ cell'[SlotOf(latest')][1] = Len(source) /\ Len(source) >= 1
XShows ==
    /\ dir = "down" => (ack' = ack /\ shown' = shown) \/ ack' # <<own, TRUE>>
    /\ XPassed /\ ~ crossed' => ack'[1] # 0 /\ ack'[2]

LEMMA BootsAre == ASSUME XTypes PROVE Boots \subseteq Nat /\ Current \in Nat
  <1>1. Current \in Nat
    BY DEF XTypes, XShared, XWriter, Current
  <1>2. WBoots \in Nat
    BY XCoreAssumption DEF XCoreAssumption
  <1>3. {2 * e + 1 : e \in 1 .. WBoots} \subseteq Nat
    BY <1>2
  <1> QED BY <1>1, <1>2, <1>3 DEF Boots

LEMMA SpentGrows ==
  ASSUME XTypes, dir' = dir, \A b \in Boots, i \in 1 .. MaxPubs : XGiven(b, i) => XGiven(b, i)'
  PROVE  Spent \subseteq Spent'
  <1>1. Boots' = Boots
    BY DEF Boots
  <1>2. \A b : Seed(b)' = Seed(b)
    BY DEF Seed
  <1> QED BY <1>1, <1>2 DEF Spent

\* The last publication is the newest the reader can have.
LEMMA HeldIs ==
  ASSUME XInv, rdSeq # 0, Ripe
  PROVE  lanes[1] \in 1 .. Len(source)
  <1>1. PICK k \in 1 .. Len(source) : lanes = [i \in Word |-> k]
    BY DEF XInv, ReaderInv, XHeld, HeldWhole, Ripe
  <1> QED BY <1>1, WordIs

LEMMA WriterLeaves ==
  ASSUME XInv, UNCHANGED <<dir, readerVars>>, crossed' \in BOOLEAN, StillHeld, XShows, OwnNonce'
  PROVE  ReaderInv'
  <1> USE DEF XInv, ReaderInv, readerVars
  <1>1. XReader'
    BY DEF XReader
  <1>2. GateHeld'
    BY DEF GateHeld, XReading, XShows, XPassed
  <1>3. Sure' => Sure
    BY DEF Sure, StillHeld, XReader
  <1>4. InCopy => xn # 0 /\ xn \in Nat /\ (Sure' => xn \in Spent /\ xn \in Spent')
    BY <1>3 DEF XCopied, XReader, StillHeld, Sure, InCopy
  <1>5. InCopy /\ Sure' /\ cell'[SlotOf(xn)][0] = xn => cell'[SlotOf(xn)] = cell[SlotOf(xn)]
    BY <1>4, XSlotIs DEF StillHeld
  <1>6. XCopied'
    BY <1>3, <1>4, <1>5 DEF XCopied, InCopy
  <1>7. HeldWhole'
    <2>1. CASE rdSeq = 0
      BY <2>1 DEF HeldWhole
    <2>2. CASE dir = "pair" /\ tainted
      BY <2>2 DEF HeldWhole
    <2>3. ASSUME NEW k \in 1 .. Len(source), lanes = [i \in Word |-> k], source[k].ours \/ tainted
          PROVE  HeldWhole'
      <3>1. k \in 1 .. Len(source') /\ source'[k] = source[k]
        BY DEF StillHeld
      <3> QED BY <2>3, <3>1 DEF HeldWhole
    <2> QED BY <2>1, <2>2, <2>3 DEF XHeld, HeldWhole
  <1>8. dir = "down" /\ rdSeq # 0 => source'[lanes[1]] = source[lanes[1]]
    BY HeldIs DEF StillHeld, Ripe
  <1>9. XHeld'
    BY <1>7, <1>8 DEF XHeld, XShows, XPassed, XReading, FromBoot
  <1>10. Newer'
    <2>1. Ripe' = Ripe
      BY DEF Ripe
    <2>2. \/ latest' = latest \/ latest' = 0
          \/ latest' # 0 /\ cell'[SlotOf(latest')][1] = Len(source) /\ Len(source) >= 1
      BY DEF StillHeld
    <2>3. latest' = latest /\ latest # 0 /\ cell'[SlotOf(latest)][0] = latest => cell'[SlotOf(latest)] = cell[SlotOf(latest)]
      <3>1. latest # 0 => latest \in Spent /\ SlotOf(latest) \in XSlotNames
        BY XSlotIs DEF WriterInv, LatestSpent, XShared
      <3> QED BY <3>1 DEF StillHeld
    <2>4. InCopy /\ Sure' /\ cell'[SlotOf(xn)][0] = xn =>
            cell[SlotOf(xn)][0] = xn /\ cell'[SlotOf(xn)][1] = cell[SlotOf(xn)][1] /\ cell[SlotOf(xn)][1] \in 1 .. Len(source)
      BY <1>4, <1>5, XSlotIs DEF WriterInv, SlotsWhole
    <2>5. ASSUME Ripe', rdSeq' # 0, latest' # 0, cell'[SlotOf(latest')][0] = latest'
          PROVE  lanes'[1] <= cell'[SlotOf(latest')][1]
      <3>1. lanes'[1] = lanes[1] /\ lanes[1] \in 1 .. Len(source)
        BY <2>1, <2>5, HeldIs
      <3>2. CASE latest' = latest
        BY <2>1, <2>3, <2>5, <3>1, <3>2 DEF Newer
      <3>3. CASE cell'[SlotOf(latest')][1] = Len(source)
        BY <3>1, <3>3
      <3> QED BY <2>2, <2>5, <3>2, <3>3
    <2>6. ASSUME InCopy, Sure', cell'[SlotOf(xn)][0] = xn, latest' # 0, cell'[SlotOf(latest')][0] = latest'
          PROVE  cell'[SlotOf(xn)][1] <= cell'[SlotOf(latest')][1]
      <3>1. CASE latest' = latest
        BY <1>3, <2>3, <2>4, <2>6, <3>1 DEF Newer, InCopy
      <3>2. CASE cell'[SlotOf(latest')][1] = Len(source)
        BY <2>4, <2>6, <3>2
      <3> QED BY <2>2, <2>6, <3>1, <3>2
    <2>7. ASSUME InCopy, Sure', cell'[SlotOf(xn)][0] = xn, Ripe', rdSeq # 0
          PROVE  lanes[1] <= cell'[SlotOf(xn)][1]
      BY <1>3, <2>1, <2>4, <2>7 DEF Newer, InCopy
    <2> QED BY <2>5, <2>6, <2>7 DEF Newer, InCopy
  <1> QED BY <1>1, <1>2, <1>6, <1>9, <1>10

-------------------------------------------------------------------------------
(***************************************************************************)
(* The writer's boot.                                                      *)
(***************************************************************************)
\* Steps that leave the slots.
LEMMA SlotsStay ==
  ASSUME WriterInv, UNCHANGED <<dir, cell, source>>, Spent \subseteq Spent', latest' = latest
  PROVE  SlotsWhole' /\ LatestSpent'
  BY DEF WriterInv, SlotsWhole, LatestSpent

LEMMA WRestartStays == ASSUME XInv, NEW same \in BOOLEAN, WRestart(same) PROVE XInv'
  <1> USE DEF XInv
  <1>1. /\ UNCHANGED <<dir, readerVars, shared, wseq, epoch, source, shown, crossed>>
        /\ boot < WBoots /\ boot' = boot + 1 /\ ours' = same
        /\ xwpc' = "retract" /\ at' = 0 /\ pubs' = 0
    BY DEF WRestart, OnlyWriter
  <1>2. UNCHANGED <<latest, words, cell, ack, nonce, own, gate, xpc, rdSeq, lanes, xn>>
    BY <1>1 DEF shared, readerVars
  <1>3. XTypes
    BY DEF WriterInv, ReaderInv, XTypes
  <1>4. Spent \subseteq Spent'
    <2>1. Over' /\ Current' = Current
      BY <1>1, <1>2 DEF Over, Current
    <2>2. \A b \in Boots, i \in 1 .. MaxPubs : XGiven(b, i) => XGiven(b, i)'
      BY <2>1 DEF XGiven
    <2> QED BY <1>1, <1>3, <2>2, SpentGrows
  <1>5. XShared' /\ XWriter'
    <2>1. 0 \in 0 .. MaxPubs /\ boot + 1 \in 1 .. WBoots
      BY <1>1, XCoreAssumption DEF WriterInv, XWriter, XCoreAssumption
    <2> QED BY <1>1, <1>2, <2>1 DEF WriterInv, XShared, XWriter
  <1>6. BootsCounted'
    <2>1. epoch' <= boot' /\ epoch' < boot'
      BY <1>1 DEF WriterInv, XWriter, BootsCounted
    <2>2. dir = "down" => \E e \in 0 .. boot' : nonce' = 2 * e + 1 /\ e < boot'
      <3>1. dir = "down" => \E e \in 0 .. boot : nonce = 2 * e + 1
        BY DEF WriterInv, BootsCounted
      <3>2. \A e \in 0 .. boot : e \in 0 .. boot' /\ e < boot'
        BY <1>1 DEF WriterInv, XWriter
      <3> QED BY <1>2, <3>1, <3>2
    <2> QED BY <1>1, <2>1, <2>2 DEF BootsCounted, XRunning
  <1>7. SlotsWhole' /\ LatestSpent'
    BY <1>1, <1>2, <1>4, SlotsStay
  <1>8. Writing' /\ Cleared'
    BY <1>1 DEF Writing, Cleared
  <1>9. GateShows'
    BY <1>1, <1>2 DEF WriterInv, GateShows
  <1>10. StillHeld /\ XShows
    BY <1>1, <1>2, <1>4 DEF StillHeld, XShows, GateHeld, ReaderInv
  <1>11. OwnNonce'
    BY <1>1, <1>2 DEF OwnNonce, ReaderInv
  <1> QED BY <1>1, <1>3, <1>5, <1>6, <1>7, <1>8, <1>9, <1>10, <1>11, WriterLeaves DEF WriterInv, ReaderInv, XReader

LEMMA RetractStays == ASSUME XInv, Retract PROVE XInv'
  <1> USE DEF XInv
  <1>1. /\ UNCHANGED <<dir, readerVars, latest, words, cell, nonce, wseq, at, pubs, ours, source, boot>>
        /\ xwpc = "retract" /\ ack' = Closed /\ shown' = boot /\ crossed' = TRUE /\ epoch' = epoch + 1
        /\ xwpc' = IF dir = "down" THEN "nonce" ELSE "init"
    BY DEF Retract, OnlyWriter
  <1>2. UNCHANGED <<own, gate, xpc, rdSeq, lanes, xn>>
    BY <1>1 DEF readerVars
  <1>3. XTypes
    BY DEF WriterInv, ReaderInv, XTypes
  <1>4. Spent \subseteq Spent'
    <2>1. Current \in Nat /\ (dir = "wide" => Current' = Current + 1) /\ (dir # "wide" => Current' = Current /\ Over')
      BY <1>1, <1>3 DEF Over, Current, XTypes, XShared, XWriter
    <2>2. \A b \in Boots, i \in 1 .. MaxPubs : XGiven(b, i) => XGiven(b, i)'
      BY <1>3, <2>1, BootsAre DEF XGiven
    <2> QED BY <1>1, <1>3, <2>2, SpentGrows
  <1>5. XShared' /\ XWriter'
    <2>1. Closed \in Nat \X BOOLEAN
      BY DEF Closed
    <2>2. at = 0
      BY <1>1 DEF WriterInv, BootsCounted
    <2>3. xwpc' = "init" => 0 < InitSteps'
      <3>1. XSlots \in Nat /\ XWords \in Nat
        BY XCoreAssumption DEF XCoreAssumption
      <3>2. XSlots * (XWords + 1) \in Nat
        BY <3>1
      <3> QED BY <3>2 DEF InitSteps, Cells
    <2>4. boot \in Nat /\ epoch + 1 \in Nat
      BY XCoreAssumption DEF XCoreAssumption, WriterInv, XWriter
    <2> QED BY <1>1, <2>1, <2>2, <2>3, <2>4 DEF WriterInv, XShared, XWriter
  <1>6. BootsCounted'
    <2>1. epoch' <= boot'
      BY <1>1 DEF WriterInv, XWriter, BootsCounted
    <2>2. dir = "down" => \E e \in 0 .. boot : nonce = 2 * e + 1 /\ e < boot
      BY <1>1 DEF WriterInv, BootsCounted
    <2>3. pubs = 0 /\ at = 0
      BY <1>1 DEF WriterInv, BootsCounted, XRunning
    <2>4. dir # "down" => Current' \in Boots'
      <3>1. epoch < boot /\ boot \in 1 .. WBoots /\ epoch \in Nat /\ WBoots \in Nat
        BY <1>1, XCoreAssumption DEF WriterInv, BootsCounted, XWriter, XCoreAssumption
      <3>2. epoch + 1 \in 1 .. WBoots
        BY <3>1
      <3> QED BY <1>1, <1>3, <3>2 DEF Current, Boots, XTypes, XShared
    <2> QED BY <1>1, <2>1, <2>2, <2>3, <2>4 DEF BootsCounted, XRunning
  <1>7. SlotsWhole' /\ LatestSpent'
    BY <1>1, <1>4, SlotsStay
  <1>8. Writing' /\ Cleared'
    <2>1. at = 0
      BY <1>1 DEF WriterInv, BootsCounted
    <2>2. \A s \in XSlotNames : ~ (s * (XWords + 1) < ClearedCell')
      <3>1. ASSUME NEW s \in XSlotNames PROVE ~ (s * (XWords + 1) < ClearedCell')
        <4>1. XWords + 1 \in Nat /\ s \in Nat
          BY XCoreAssumption DEF XCoreAssumption, XSlotNames
        <4>2. s * (XWords + 1) \in Nat
          BY <4>1
        <4>3. ClearedCell' <= 0
          BY <1>1, <2>1 DEF ClearedCell
        <4>4. ClearedCell' \in Int
          BY <1>1, <2>1 DEF ClearedCell
        <4> QED BY <4>2, <4>3, <4>4
      <3> QED BY <3>1
    <2> QED BY <1>1, <2>1, <2>2 DEF Writing, Cleared
  <1>9. GateShows'
    <2>1. Closed[1] = 0 /\ Closed[2] = FALSE
      BY DEF Closed
    <2> QED BY <1>1, <2>1 DEF GateShows
  <1>10. StillHeld /\ XShows
    <2>1. dir = "down" => ack' # <<own, TRUE>>
      BY <1>1 DEF Closed
    <2>2. crossed'
      BY <1>1
    <2>3. XShows
      BY <2>1, <2>2 DEF XShows
    <2>4. Len(source) <= Len(source)
      BY DEF WriterInv, XWriter
    <2>5. StillHeld
      BY <1>1, <1>4, <2>2, <2>4 DEF StillHeld
    <2> QED BY <2>3, <2>5
  <1>11. OwnNonce'
    <2>1. Closed[1] = 0 /\ nonce \in Nat
      BY DEF Closed, WriterInv, XShared
    <2> QED BY <1>1, <1>2, <2>1 DEF OwnNonce, ReaderInv
  <1> QED BY <1>1, <1>5, <1>6, <1>7, <1>8, <1>9, <1>10, <1>11, WriterLeaves DEF WriterInv, ReaderInv, XReader

LEMMA NewNonceStays == ASSUME XInv, NewNonce PROVE XInv'
  <1> USE DEF XInv
  <1>1. /\ UNCHANGED <<dir, readerVars, latest, words, cell, ack, wseq, at, epoch, pubs, ours, source, boot, shown, crossed>>
        /\ xwpc = "nonce" /\ nonce' = Odd(nonce + 2) /\ xwpc' = "init"
    BY DEF NewNonce, OnlyWriter
  <1>2. UNCHANGED <<own, gate, xpc, rdSeq, lanes, xn>>
    BY <1>1 DEF readerVars
  <1>3. XTypes
    BY DEF WriterInv, ReaderInv, XTypes
  <1>12. dir = "down" /\ pubs = 0 /\ at = 0
    BY <1>1 DEF WriterInv, BootsCounted, XRunning
  <1>13. nonce \in Nat /\ nonce' = nonce + 2 /\ nonce' % 2 = 1
    <2>1. nonce \in Nat /\ nonce % 2 = 1
      BY DEF WriterInv, XShared
    <2>2. (nonce + 2) % 2 = 1
      BY <2>1
    <2> QED BY <1>1, <2>1, <2>2 DEF Odd
  <1>4. Spent \subseteq Spent'
    <2>1. Current = nonce /\ Current' = nonce'
      BY <1>1, <1>12 DEF Current
    <2>2. \A b \in Boots, i \in 1 .. MaxPubs : XGiven(b, i) => XGiven(b, i)'
      BY <1>3, <1>13, <2>1, BootsAre DEF XGiven
    <2> QED BY <1>1, <1>3, <2>2, SpentGrows
  <1>5. XShared' /\ XWriter'
    <2>3. 0 < InitSteps'
      <3>1. XSlots \in Nat /\ XWords \in Nat
        BY XCoreAssumption DEF XCoreAssumption
      <3>2. XSlots * (XWords + 1) \in Nat
        BY <3>1
      <3> QED BY <3>2 DEF InitSteps, Cells
    <2> QED BY <1>1, <1>12, <1>13, <2>3 DEF WriterInv, XShared, XWriter
  <1>6. BootsCounted'
    <2>1. PICK e \in 0 .. boot : nonce = 2 * e + 1 /\ e < boot
      BY <1>1, <1>12 DEF WriterInv, BootsCounted
    <2>2. e + 1 \in 0 .. boot /\ nonce' = 2 * (e + 1) + 1
      BY <1>13, <2>1 DEF WriterInv, XWriter
    <2>3. epoch <= boot
      BY DEF WriterInv, BootsCounted
    <2>4. e + 1 \in 1 .. WBoots
      BY <2>1, XCoreAssumption DEF WriterInv, XWriter, XCoreAssumption
    <2>5. Current' \in Boots'
      BY <1>1, <1>12, <2>2, <2>4 DEF Current, Boots
    <2> QED BY <1>1, <1>12, <2>2, <2>3, <2>5 DEF BootsCounted, XRunning
  <1>7. SlotsWhole' /\ LatestSpent'
    BY <1>1, <1>4, SlotsStay
  <1>8. Writing' /\ Cleared'
    <2>2. ASSUME NEW s \in XSlotNames PROVE ~ (s * (XWords + 1) < ClearedCell')
      <3>1. XWords + 1 \in Nat /\ s \in Nat
        BY XCoreAssumption DEF XCoreAssumption, XSlotNames
      <3>2. s * (XWords + 1) \in Nat
        BY <3>1
      <3>3. ClearedCell' = -1
        BY <1>1, <1>12 DEF ClearedCell
      <3> QED BY <3>2, <3>3
    <2> QED BY <1>1, <1>12, <2>2 DEF Writing, Cleared
  <1>9. GateShows'
    BY <1>1 DEF GateShows, WriterInv
  <1>10. StillHeld /\ XShows
    BY <1>1, <1>4, <1>12 DEF StillHeld, XShows, ReaderInv, GateHeld
  <1>11. OwnNonce'
    BY <1>1, <1>2, <1>13 DEF OwnNonce, ReaderInv, XReader, WriterInv, XShared
  <1> QED BY <1>1, <1>5, <1>6, <1>7, <1>8, <1>9, <1>10, <1>11, WriterLeaves DEF WriterInv, ReaderInv, XReader

-------------------------------------------------------------------------------
(***************************************************************************)
(* The writer opens the gate, and publishes.                               *)
(***************************************************************************)
LEMMA SentSpent ==
  ASSUME XTypes, BootsCounted, xwpc \in {"word", "valid", "publish"}
  PROVE  /\ Current \in Boots /\ pubs \in 1 .. MaxPubs /\ wseq = Number(Seed(Current), pubs)
         /\ wseq \in 1 .. XSeqMod - 1
         /\ xwpc = "publish" => wseq \in Spent
         /\ xwpc # "publish" => wseq \notin Spent
  <1>1. Current \in Boots /\ pubs \in 1 .. MaxPubs /\ wseq = Number(Seed(Current), pubs)
    BY DEF BootsCounted, XRunning, XTypes, XWriter
  <1>2. Seed(Current) \in 0 .. XSeqMod - 1
    <2>1. Current \in Nat
      BY BootsAre
    <2>2. 0 \in 0 .. XSeqMod - 1
      BY XCoreAssumption DEF XCoreAssumption
    <2> QED BY <2>1, <2>2, SpreadIs DEF Seed
  <1>3. wseq \in 1 .. XSeqMod - 1
    <2>1. pubs \in Nat \ {0}
      BY <1>1, XCoreAssumption DEF XCoreAssumption
    <2> QED BY <1>1, <1>2, <2>1, NumberIs
  <1>4. xwpc = "publish" => wseq \in Spent
    BY <1>1, <1>3, XCoreAssumption DEF Spent, XGiven, XCoreAssumption
  <1>5. ASSUME xwpc # "publish", wseq \in Spent
        PROVE  FALSE
    <2>1. PICK b \in Boots, i \in 1 .. MaxPubs : wseq = Number(Seed(b), i) /\ XGiven(b, i)
      BY <1>5 DEF Spent
    <2>2. b = Current /\ i = pubs
      BY <1>1, <2>1, NumbersApart
    <2>3. Current \in Nat
      BY BootsAre
    <2> QED BY <1>1, <1>5, <2>1, <2>2, <2>3 DEF XGiven, Over
  <1> QED BY <1>1, <1>3, <1>4, <1>5

LEMMA OpenStays == ASSUME XInv, Open PROVE XInv'
  <1> USE DEF XInv
  <1>1. /\ UNCHANGED <<dir, readerVars, latest, words, cell, nonce, wseq, at, epoch, pubs, ours, source, boot, shown, crossed>>
        /\ xwpc = "open" \/ (xwpc = "run" /\ dir # "down")
        /\ ack' = <<nonce, ours>> /\ xwpc' = "run"
    BY DEF Open, OnlyWriter
  <1>2. UNCHANGED <<own, gate, xpc, rdSeq, lanes, xn>>
    BY <1>1 DEF readerVars
  <1>3. XTypes
    BY DEF WriterInv, ReaderInv, XTypes
  <1>12. nonce \in Nat /\ nonce # 0 /\ ours \in BOOLEAN
    BY DEF WriterInv, XShared, XWriter
  <1>13. ack'[1] = nonce /\ ack'[2] = ours /\ ack' \in Nat \X BOOLEAN
    BY <1>1, <1>12
  <1>4. Spent \subseteq Spent'
    <2>1. Current' = Current /\ ~ Over
      BY <1>1 DEF Current, Over
    <2>2. \A b \in Boots, i \in 1 .. MaxPubs : XGiven(b, i) => XGiven(b, i)'
      BY <1>1, <2>1 DEF XGiven
    <2> QED BY <1>1, <1>3, <2>2, SpentGrows
  <1>5. XShared' /\ XWriter'
    BY <1>1, <1>13 DEF WriterInv, XShared, XWriter, XRunning
  <1>6. BootsCounted'
    <2>1. Current' = Current /\ Boots' = Boots /\ Seed(Current)' = Seed(Current)
      BY <1>1 DEF Current, Boots, Seed
    <2> QED BY <1>1, <2>1 DEF WriterInv, BootsCounted, XRunning
  <1>7. SlotsWhole' /\ LatestSpent'
    BY <1>1, <1>4, SlotsStay
  <1>8. Writing' /\ Cleared'
    BY <1>1 DEF Writing, Cleared
  <1>9. GateShows'
    <2>1. CASE xwpc = "open"
      BY <1>1, <1>12, <1>13, <2>1 DEF WriterInv, GateShows, Cleared
    <2>2. CASE xwpc = "run"
      <3>1. ack[1] # 0 /\ ack[2] = ours /\ shown = boot
        BY <2>2 DEF WriterInv, GateShows
      <3>2. \A s \in XSlotNames : cell[s][0] # 0 => source[cell[s][1]] = [boot |-> shown, ours |-> ours]
        BY <3>1 DEF WriterInv, GateShows
      <3> QED BY <1>1, <1>12, <1>13, <3>1, <3>2 DEF GateShows
    <2> QED BY <1>1, <2>1, <2>2
  <1>10. StillHeld /\ XShows
    <2>1. dir = "down" => own # nonce
      BY <1>1 DEF ReaderInv, OwnNonce
    <2>2. dir = "down" => ack' # <<own, TRUE>>
      BY <1>1, <2>1
    <2>3. ASSUME XPassed, ~ crossed'
          PROVE  ack'[1] # 0 /\ ack'[2]
      <3>1. ack[1] # 0 /\ ack[2]
        BY <1>1, <2>3 DEF ReaderInv, GateHeld, XPassed, XReading
      <3>2. xwpc = "run"
        <4>1. Closed[1] = 0
          BY DEF Closed
        <4> QED BY <1>1, <3>1, <4>1 DEF WriterInv, GateShows
      <3> QED BY <1>12, <1>13, <3>1, <3>2 DEF WriterInv, GateShows
    <2>4. Len(source) <= Len(source)
      BY DEF WriterInv, XWriter
    <2> QED BY <1>1, <1>4, <2>2, <2>3, <2>4 DEF StillHeld, XShows
  <1>11. OwnNonce'
    BY <1>1, <1>2, <1>12, <1>13 DEF OwnNonce, ReaderInv
  <1> QED BY <1>1, <1>5, <1>6, <1>7, <1>8, <1>9, <1>10, <1>11, WriterLeaves DEF WriterInv, ReaderInv, XReader

\* A step of publishing leaves the boots, the gate and the seeds.
XPublishes == UNCHANGED <<dir, readerVars, words, ack, nonce, epoch, ours, boot, shown, crossed>>

LEMMA PublishLeaves ==
  ASSUME XInv, XPublishes
  PROVE  /\ UNCHANGED <<own, gate, xpc, rdSeq, lanes, xn, crossed, dir>>
         /\ Boots' = Boots /\ Current' = Current /\ Seed(Current)' = Seed(Current) /\ XShows
         /\ Len(source) \in Nat /\ XTypes /\ crossed' \in BOOLEAN
  <1> USE DEF XInv, XPublishes
  <1>1. UNCHANGED <<own, gate, xpc, rdSeq, lanes, xn, crossed, dir>>
    BY DEF readerVars
  <1>2. Boots' = Boots /\ Current' = Current /\ Seed(Current)' = Seed(Current)
    BY DEF Boots, Current, Seed
  <1>3. XShows
    BY <1>1 DEF XShows, ReaderInv, GateHeld
  <1>4. Len(source) \in Nat /\ XTypes /\ crossed' \in BOOLEAN
    BY <1>1 DEF WriterInv, ReaderInv, XTypes, XWriter, XReader
  <1> QED BY <1>1, <1>2, <1>3, <1>4

LEMMA PublishOwn ==
  ASSUME XInv, XPublishes, xwpc \in {"run", "word", "valid", "publish"}, xwpc' \in {"run", "word", "valid", "publish"}
  PROVE  OwnNonce'
  <1>1. UNCHANGED <<dir, own, gate, nonce, ack>>
    BY PublishLeaves DEF XPublishes
  <1> QED BY <1>1 DEF XInv, ReaderInv, OwnNonce

LEMMA PubLatestStays == ASSUME XInv, PubLatest PROVE XInv'
  <1> USE DEF XInv
  <1>1. /\ XPublishes /\ UNCHANGED <<cell, wseq, at, pubs, source>>
        /\ xwpc = "publish" /\ latest' = wseq /\ xwpc' = "run"
    BY DEF PubLatest, OnlyWriter, XPublishes
  <1>2. /\ UNCHANGED <<own, gate, xpc, rdSeq, lanes, xn, crossed, dir>>
        /\ Boots' = Boots /\ Current' = Current /\ Seed(Current)' = Seed(Current) /\ XShows
        /\ Len(source) \in Nat /\ XTypes /\ crossed' \in BOOLEAN
    BY <1>1, PublishLeaves
  <1>3. wseq \in Spent /\ wseq \in 1 .. XSeqMod - 1
    BY <1>1, <1>2, SentSpent DEF WriterInv
  <1>4. Spent \subseteq Spent'
    <2>1. \A b \in Boots, i \in 1 .. MaxPubs : XGiven(b, i) => XGiven(b, i)'
      BY <1>1, <1>2 DEF XGiven, Over
    <2> QED BY <1>2, <2>1, SpentGrows
  <1>5. XShared' /\ XWriter'
    <2>1. UNCHANGED <<dir, words, ack, nonce, epoch, ours, boot, shown>>
      BY <1>1 DEF XPublishes
    <2>2. wseq \in Nat
      BY DEF WriterInv, XWriter
    <2> QED BY <1>1, <2>1, <2>2 DEF WriterInv, XShared, XWriter, XRunning
  <1>6. BootsCounted'
    <2>1. UNCHANGED <<dir, nonce, epoch, boot>>
      BY <1>1 DEF XPublishes
    <2> QED BY <1>1, <1>2, <2>1 DEF WriterInv, BootsCounted, XRunning
  <1>7. SlotsWhole' /\ LatestSpent'
    BY <1>1, <1>3, <1>4 DEF WriterInv, SlotsWhole, LatestSpent
  <1>8. Writing' /\ Cleared'
    BY <1>1 DEF Writing, Cleared
  <1>9. GateShows'
    BY <1>1 DEF WriterInv, GateShows, XPublishes
  <1>10. StillHeld
    BY <1>1, <1>2, <1>4 DEF StillHeld, WriterInv, Writing
  <1>11. OwnNonce'
    BY <1>1, PublishOwn
  <1> QED BY <1>1, <1>2, <1>5, <1>6, <1>7, <1>8, <1>9, <1>10, <1>11, WriterLeaves DEF WriterInv, XPublishes

\* One word of one slot is written.
Put(s, i, v) ==
    /\ cell' \in [XSlotNames -> [0 .. XWords -> Nat]]
    /\ cell'[s][i] = v
    /\ \A j \in 0 .. XWords : j # i => cell'[s][j] = cell[s][j]
    /\ \A t \in XSlotNames : t # s => cell'[t] = cell[t]

LEMMA PutIs ==
  ASSUME XShared, NEW s \in XSlotNames, NEW i \in 0 .. XWords, NEW v \in Nat, cell' = [cell EXCEPT ![s][i] = v]
  PROVE  Put(s, i, v)
  BY DEF Put, XShared

LEMMA PubBeginStays == ASSUME XInv, PubBegin PROVE XInv'
  <1> USE DEF XInv
  <1>1. /\ XPublishes /\ latest' = latest
        /\ xwpc = "run" /\ pubs < MaxPubs /\ wseq' = NextSeq /\ pubs' = pubs + 1
        /\ source' = Append(source, [boot |-> boot, ours |-> ours])
        /\ xwpc' = "word" /\ at' = 1
    BY DEF PubBegin, OnlyWriter, XPublishes
  <1>2. /\ UNCHANGED <<own, gate, xpc, rdSeq, lanes, xn, crossed, dir>>
        /\ Boots' = Boots /\ Current' = Current /\ Seed(Current)' = Seed(Current) /\ XShows
        /\ Len(source) \in Nat /\ XTypes /\ crossed' \in BOOLEAN
    BY <1>1, PublishLeaves
  <1>3. NextSeq = Number(Seed(Current), pubs + 1) /\ NextSeq \in 1 .. XSeqMod - 1 /\ NextSeq \in Nat
    <2>1. NextSeq = Number(Seed(Current), pubs + 1) /\ NextSeq \in 1 .. XSeqMod - 1
      BY <1>1, <1>2, NextIs DEF WriterInv
    <2> QED BY <2>1, XCoreAssumption DEF XCoreAssumption
  <1>12. PICK s \in XSlotNames : s = SlotOf(NextSeq)
    BY <1>3, XSlotIs
  <1>13. Put(s, 0, 0)
    <2>1. cell' = [cell EXCEPT ![s][0] = 0]
      BY <1>12 DEF PubBegin, Invalid
    <2> QED BY <2>1, WordIs, PutIs DEF WriterInv
  <1>4. Spent \subseteq Spent'
    <2>1. \A b \in Boots, i \in 1 .. MaxPubs : XGiven(b, i) => XGiven(b, i)'
      <3>1. pubs \in Nat
        BY DEF WriterInv, XWriter
      <3>2. \A i \in 1 .. MaxPubs : i < pubs \/ i = pubs => i < pubs + 1
        BY <3>1
      <3> QED BY <1>1, <1>2, <3>2 DEF XGiven, Over
    <2> QED BY <1>2, <2>1, SpentGrows
  <1>14. PICK r : r = [boot |-> boot, ours |-> ours]
    OBVIOUS
  <1>15. source \in Seq(Build) /\ r \in Build /\ source' = Append(source, r)
    <2>1. boot \in Nat /\ ours \in BOOLEAN
      BY XCoreAssumption DEF WriterInv, XWriter, XCoreAssumption
    <2> QED BY <1>1, <1>14, <2>1 DEF WriterInv, XWriter, Build
  <1>16. /\ source' \in Seq(Build) /\ Len(source') = Len(source) + 1 /\ source'[Len(source')] = r
         /\ \A k \in 1 .. Len(source) : source'[k] = source[k]
    BY <1>15
  <1>5. XShared' /\ XWriter'
    <2>1. UNCHANGED <<dir, words, ack, nonce, epoch, ours, boot, shown>>
      BY <1>1 DEF XPublishes
    <2>2. pubs + 1 \in 0 .. MaxPubs /\ NextSeq \in 0 .. XSeqMod - 1
      BY <1>1, <1>3, XCoreAssumption DEF WriterInv, XWriter, XCoreAssumption
    <2>4. XShared'
      BY <1>1, <1>13, <2>1 DEF WriterInv, XShared, Put
    <2>5. XWriter'
      BY <1>1, <1>16, <2>1, <2>2, WordIs DEF WriterInv, XWriter, XRunning
    <2> QED BY <2>4, <2>5
  <1>6. BootsCounted'
    <2>1. UNCHANGED <<dir, nonce, epoch, boot>>
      BY <1>1 DEF XPublishes
    <2>2. pubs' # 0 /\ pubs' >= 1 /\ pubs \in Nat
      BY <1>1 DEF WriterInv, XWriter
    <2>3. wseq' = Number(Seed(Current), pubs')
      BY <1>1, <1>3
    <2>4. (Seed(Current) = Seed(Current)') /\ Current \in Boots
      BY <1>1, <1>2 DEF WriterInv, BootsCounted, XRunning
    <2> QED BY <1>1, <1>2, <2>1, <2>2, <2>3, <2>4 DEF WriterInv, BootsCounted, XRunning, Number
  <1>17. \A t \in XSlotNames : cell'[t][0] # 0 => t # s /\ cell'[t] = cell[t]
    BY <1>13 DEF Put
  <1>7. SlotsWhole' /\ LatestSpent'
    <2>1. \A k : k \in 1 .. Len(source) => k \in 1 .. Len(source')
      BY <1>2, <1>16
    <2>2. SlotsWhole'
      BY <1>4, <1>17, <2>1 DEF WriterInv, SlotsWhole
    <2> QED BY <1>1, <1>4, <2>2 DEF WriterInv, LatestSpent
  <1>8. Writing' /\ Cleared'
    <2>1. UNCHANGED <<boot, ours>>
      BY <1>1 DEF XPublishes
    <2>2. SlotOf(wseq)' = s
      BY <1>1, <1>12 DEF SlotOf
    <2>3. \A i \in Word : ~ (i < 1)
      BY DEF Word
    <2>4. Len(source') >= 1
      BY <1>2, <1>16
    <2>5. cell'[s][0] = 0
      BY <1>13 DEF Put
    <2>6. Writing'
      BY <1>1, <1>14, <1>16, <2>1, <2>2, <2>3, <2>4, <2>5 DEF Writing
    <2> QED BY <1>1, <2>6 DEF Cleared
  <1>9. GateShows'
    <2>1. UNCHANGED <<ack, boot, ours, shown>>
      BY <1>1 DEF XPublishes
    <2>2. \A t \in XSlotNames : cell'[t][0] # 0 => cell[t][0] # 0 /\ source'[cell'[t][1]] = source[cell[t][1]]
      BY <1>16, <1>17 DEF WriterInv, SlotsWhole
    <2>3. \A t \in XSlotNames : cell'[t][0] # 0 /\ ack[1] # 0 => source'[cell'[t][1]] = [boot |-> shown, ours |-> ack[2]]
      BY <2>2 DEF WriterInv, GateShows
    <2> QED BY <1>1, <2>1, <2>3 DEF WriterInv, GateShows
  <1>10. StillHeld
    <2>1. Len(source) <= Len(source')
      BY <1>2, <1>16
    <2> QED BY <1>1, <1>2, <1>4, <1>16, <1>17, <2>1 DEF StillHeld
  <1>11. OwnNonce'
    BY <1>1, PublishOwn
  <1> QED BY <1>1, <1>2, <1>5, <1>6, <1>7, <1>8, <1>9, <1>10, <1>11, WriterLeaves DEF WriterInv, XPublishes

LEMMA PubWordStays == ASSUME XInv, PubWord PROVE XInv'
  <1> USE DEF XInv
  <1>1. /\ XPublishes /\ UNCHANGED <<latest, wseq, pubs, source>>
        /\ xwpc = "word"
        /\ IF at = XWords THEN xwpc' = "valid" /\ at' = 0 ELSE xwpc' = "word" /\ at' = at + 1
    BY DEF PubWord, OnlyWriter, XPublishes
  <1>2. /\ UNCHANGED <<own, gate, xpc, rdSeq, lanes, xn, crossed, dir>>
        /\ Boots' = Boots /\ Current' = Current /\ Seed(Current)' = Seed(Current) /\ XShows
        /\ Len(source) \in Nat /\ XTypes /\ crossed' \in BOOLEAN
    BY <1>1, PublishLeaves
  <1>3. at \in Word /\ at \in 0 .. XWords /\ at # 0 /\ wseq \in Nat
    BY <1>1, WordIs DEF WriterInv, XWriter, Word
  <1>12. PICK s \in XSlotNames : s = SlotOf(wseq)
    BY <1>3, XSlotIs
  <1>13. Put(s, at, Len(source))
    <2>1. cell' = [cell EXCEPT ![s][at] = Len(source)]
      BY <1>12 DEF PubWord
    <2> QED BY <1>2, <1>3, <2>1, PutIs DEF WriterInv
  <1>14. cell[s][0] = 0 /\ cell'[s][0] = 0
    <2>1. cell[s][0] = 0
      BY <1>1, <1>12 DEF WriterInv, Writing
    <2> QED BY <1>3, <1>13, <2>1, WordIs DEF Put
  <1>4. Spent \subseteq Spent'
    <2>1. \A b \in Boots, i \in 1 .. MaxPubs : XGiven(b, i) => XGiven(b, i)'
      BY <1>1, <1>2 DEF XGiven, Over
    <2> QED BY <1>2, <2>1, SpentGrows
  <1>5. XShared' /\ XWriter'
    <2>1. UNCHANGED <<dir, words, ack, nonce, epoch, ours, boot, shown>>
      BY <1>1 DEF XPublishes
    <2>2. at' \in Nat /\ (xwpc' = "word" => at' \in Word)
      BY <1>1, <1>3, WordIs DEF Word
    <2>3. XShared'
      BY <1>1, <1>13, <2>1 DEF WriterInv, XShared, Put
    <2>4. XWriter'
      BY <1>1, <2>1, <2>2 DEF WriterInv, XWriter, XRunning
    <2> QED BY <2>3, <2>4
  <1>6. BootsCounted'
    <2>1. UNCHANGED <<dir, nonce, epoch, boot>>
      BY <1>1 DEF XPublishes
    <2> QED BY <1>1, <1>2, <2>1 DEF WriterInv, BootsCounted, XRunning
  <1>17. \A t \in XSlotNames : cell'[t][0] # 0 => t # s /\ cell'[t] = cell[t]
    BY <1>13, <1>14 DEF Put
  <1>7. SlotsWhole' /\ LatestSpent'
    BY <1>1, <1>4, <1>17 DEF WriterInv, SlotsWhole, LatestSpent
  <1>8. Writing' /\ Cleared'
    <2>1. UNCHANGED <<boot, ours>>
      BY <1>1 DEF XPublishes
    <2>2. SlotOf(wseq)' = s /\ SlotOf(wseq) = s
      BY <1>1, <1>12 DEF SlotOf
    <2>3. \A i \in Word : i < at => cell'[s][i] = Len(source)
      <3>1. \A i \in Word : i < at => i # at /\ i \in 0 .. XWords
        BY <1>3, WordIs DEF Word
      <3>2. \A i \in Word : i < at => cell[s][i] = Len(source)
        BY <1>1, <1>12 DEF WriterInv, Writing
      <3> QED BY <1>13, <3>1, <3>2 DEF Put
    <2>4. cell'[s][at] = Len(source)
      BY <1>13 DEF Put
    <2>5. at = XWords => \A i \in Word : i < at \/ i = at
      BY XCoreAssumption DEF Word, XCoreAssumption
    <2>6. at # XWords => \A i \in Word : i < at + 1 => i < at \/ i = at
      BY <1>3 DEF Word
    <2>7. Len(source) >= 1 /\ source[Len(source)] = [boot |-> boot, ours |-> ours]
      BY <1>1 DEF WriterInv, Writing
    <2>8. xwpc' = "word" => \A i \in Word : i < at' => cell'[s][i] = Len(source)
      BY <1>1, <2>3, <2>4, <2>6
    <2>9. xwpc' = "valid" => \A i \in Word : cell'[s][i] = Len(source)
      BY <1>1, <2>3, <2>4, <2>5
    <2>10. Writing'
      BY <1>1, <1>14, <2>1, <2>2, <2>7, <2>8, <2>9 DEF Writing
    <2> QED BY <1>1, <2>10 DEF Cleared
  <1>9. GateShows'
    <2>1. UNCHANGED <<ack, boot, ours, shown>>
      BY <1>1 DEF XPublishes
    <2> QED BY <1>1, <1>17, <2>1 DEF WriterInv, GateShows
  <1>10. StillHeld
    BY <1>1, <1>2, <1>4, <1>17 DEF StillHeld
  <1>11. OwnNonce'
    BY <1>1, PublishOwn
  <1> QED BY <1>1, <1>2, <1>5, <1>6, <1>7, <1>8, <1>9, <1>10, <1>11, WriterLeaves DEF WriterInv, XPublishes

LEMMA PubValidStays == ASSUME XInv, PubValid PROVE XInv'
  <1> USE DEF XInv
  <1>1. /\ XPublishes /\ UNCHANGED <<latest, wseq, at, pubs, source>>
        /\ xwpc = "valid" /\ xwpc' = "publish"
    BY DEF PubValid, OnlyWriter, XPublishes
  <1>2. /\ UNCHANGED <<own, gate, xpc, rdSeq, lanes, xn, crossed, dir>>
        /\ Boots' = Boots /\ Current' = Current /\ Seed(Current)' = Seed(Current) /\ XShows
        /\ Len(source) \in Nat /\ XTypes /\ crossed' \in BOOLEAN
    BY <1>1, PublishLeaves
  <1>3. wseq \notin Spent /\ wseq \in Nat /\ wseq # 0 /\ Len(source) >= 1
    BY <1>1, <1>2, SentSpent, XCoreAssumption DEF WriterInv, Writing, XCoreAssumption
  <1>12. PICK s \in XSlotNames : s = SlotOf(wseq)
    BY <1>3, XSlotIs
  <1>13. Put(s, 0, wseq)
    <2>1. cell' = [cell EXCEPT ![s][0] = wseq]
      BY <1>12 DEF PubValid
    <2> QED BY <1>3, <2>1, WordIs, PutIs DEF WriterInv
  <1>14. cell'[s][0] = wseq /\ \A i \in Word : cell'[s][i] = Len(source)
    <2>1. \A i \in Word : i # 0 /\ i \in 0 .. XWords /\ cell[s][i] = Len(source)
      BY <1>1, <1>12, WordIs DEF WriterInv, Writing, Word
    <2> QED BY <1>13, <2>1 DEF Put
  <1>4. Spent \subseteq Spent'
    <2>1. \A b \in Boots, i \in 1 .. MaxPubs : XGiven(b, i) => XGiven(b, i)'
      BY <1>1, <1>2 DEF XGiven, Over
    <2> QED BY <1>2, <2>1, SpentGrows
  <1>5. XShared' /\ XWriter'
    <2>1. UNCHANGED <<dir, words, ack, nonce, epoch, ours, boot, shown>>
      BY <1>1 DEF XPublishes
    <2>3. XShared'
      BY <1>1, <1>13, <2>1 DEF WriterInv, XShared, Put
    <2>4. XWriter'
      BY <1>1, <2>1 DEF WriterInv, XWriter, XRunning
    <2> QED BY <2>3, <2>4
  <1>6. BootsCounted'
    <2>1. UNCHANGED <<dir, nonce, epoch, boot>>
      BY <1>1 DEF XPublishes
    <2> QED BY <1>1, <1>2, <2>1 DEF WriterInv, BootsCounted, XRunning
  <1>15. wseq \in Spent'
    <2>1. /\ Current \in Boots /\ pubs \in 1 .. MaxPubs /\ wseq = Number(Seed(Current), pubs)
          /\ wseq \in 0 .. XSeqMod - 1
      BY <1>1, <1>2, SentSpent DEF WriterInv, XWriter
    <2>2. PICK c : c = Current
      OBVIOUS
    <2>3. Seed(c)' = Seed(c) /\ Current' = c /\ c \in Boots' /\ wseq = Number(Seed(c), pubs)
      BY <1>2, <2>1, <2>2 DEF Seed
    <2>4. XGiven(c, pubs)'
      BY <1>1, <2>3 DEF XGiven
    <2> QED BY <1>1, <2>1, <2>3, <2>4 DEF Spent, Number
  <1>7. SlotsWhole' /\ LatestSpent'
    <2>1. ASSUME NEW t \in XSlotNames, cell'[t][0] # 0
          PROVE  /\ cell'[t][1] \in 1 .. Len(source) /\ \A i \in Word : cell'[t][i] = cell'[t][1]
                 /\ cell'[t][0] \in Spent'
      <3>1. CASE t = s
        BY <1>2, <1>3, <1>14, <1>15, <3>1, WordIs
      <3>2. CASE t # s
        <4>1. cell'[t] = cell[t]
          BY <1>13, <3>2 DEF Put
        <4> QED BY <1>4, <2>1, <4>1 DEF WriterInv, SlotsWhole
      <3> QED BY <3>1, <3>2
    <2>2. SlotsWhole'
      BY <1>1, <2>1 DEF SlotsWhole
    <2> QED BY <1>1, <1>4, <2>2 DEF WriterInv, LatestSpent
  <1>8. Writing' /\ Cleared'
    <2>1. UNCHANGED <<boot, ours>>
      BY <1>1 DEF XPublishes
    <2>2. SlotOf(wseq)' = s
      BY <1>1, <1>12 DEF SlotOf
    <2>7. Len(source) >= 1 /\ source[Len(source)] = [boot |-> boot, ours |-> ours]
      BY <1>1 DEF WriterInv, Writing
    <2>10. Writing'
      BY <1>1, <1>14, <2>1, <2>2, <2>7, WordIs DEF Writing
    <2> QED BY <1>1, <2>10 DEF Cleared
  <1>9. GateShows'
    <2>1. UNCHANGED <<ack, boot, ours, shown, source>>
      BY <1>1 DEF XPublishes
    <2>2. shown = boot /\ ack[2] = ours /\ source[Len(source)] = [boot |-> boot, ours |-> ours]
      BY <1>1 DEF WriterInv, GateShows, Writing
    <2>3. ASSUME NEW t \in XSlotNames, cell'[t][0] # 0, ack[1] # 0
          PROVE  source[cell'[t][1]] = [boot |-> shown, ours |-> ack[2]]
      <3>1. CASE t = s
        BY <1>14, <2>2, <3>1, WordIs
      <3>2. CASE t # s
        <4>1. cell'[t] = cell[t]
          BY <1>13, <3>2 DEF Put
        <4> QED BY <2>3, <4>1 DEF WriterInv, GateShows
      <3> QED BY <3>1, <3>2
    <2> QED BY <1>1, <2>1, <2>3 DEF WriterInv, GateShows
  <1>10. StillHeld
    <2>1. \A t \in XSlotNames : cell'[t][0] # 0 /\ cell'[t][0] \in Spent => t # s /\ cell'[t] = cell[t]
      BY <1>3, <1>13, <1>14 DEF Put
    <2> QED BY <1>1, <1>2, <1>4, <2>1 DEF StillHeld
  <1>11. OwnNonce'
    BY <1>1, PublishOwn
  <1> QED BY <1>1, <1>2, <1>5, <1>6, <1>7, <1>8, <1>9, <1>10, <1>11, WriterLeaves DEF WriterInv, XPublishes

-------------------------------------------------------------------------------
(***************************************************************************)
(* xioc_init, xioc_n_init: each cell in its turn.                          *)
(***************************************************************************)
LEMMA Times ==
  ASSUME NEW d \in Nat \ {0}, NEW a \in Nat, NEW b \in Nat, a < b
  PROVE  d * a + d <= d * b
  <1>1. PICK t \in Nat : t = b - a - 1
    OBVIOUS
  <1>2. d * t \in Nat
    OBVIOUS
  <1>3. d * b = d * a + d + d * t
    <2>1. b = a + 1 + t
      BY <1>1
    <2> QED BY <2>1
  <1>4. d * a \in Nat /\ d * b \in Nat
    OBVIOUS
  <1> QED BY <1>2, <1>3, <1>4

LEMMA CellsAre ==
  /\ Cells \in Nat /\ XWords + 1 \in Nat \ {0}
  /\ \A s \in XSlotNames : s * (XWords + 1) \in Nat /\ s * (XWords + 1) < Cells
  <1>1. XSlots \in Nat \ {0} /\ XWords + 1 \in Nat \ {0} /\ XSlots * (XWords + 1) \in Nat
    BY XCoreAssumption DEF XCoreAssumption
  <1>2. ASSUME NEW s \in XSlotNames
        PROVE  s * (XWords + 1) \in Nat /\ s * (XWords + 1) < Cells
    <2>1. s \in Nat /\ s < XSlots
      BY <1>1 DEF XSlotNames
    <2>2. PICK d \in Nat \ {0} : d = XWords + 1
      BY <1>1
    <2>3. d * s + d <= d * XSlots
      BY <1>1, <2>1, Times
    <2>4. d * s = s * d /\ d * XSlots = XSlots * d /\ d * s \in Nat
      BY <1>1, <2>1
    <2> QED BY <1>1, <2>2, <2>3, <2>4 DEF Cells
  <1> QED BY <1>1, <1>2 DEF Cells

\* A cell of the array is a word of a slot, and the slots before its own are before it.
LEMMA CellAt ==
  ASSUME NEW c \in 0 .. Cells - 1
  PROVE  /\ c \div (XWords + 1) \in XSlotNames /\ c % (XWords + 1) \in 0 .. XWords
         /\ c % (XWords + 1) # 0 => (c \div (XWords + 1)) * (XWords + 1) < c
         /\ \A s \in XSlotNames : s * (XWords + 1) < c + 1 => s = c \div (XWords + 1) \/ s * (XWords + 1) < c
  <1>1. PICK d : d = XWords + 1
    OBVIOUS
  <1>2. d \in Nat \ {0} /\ Cells = XSlots * d /\ XSlots \in Nat \ {0} /\ c \in Nat /\ Cells \in Nat
    BY <1>1, CellsAre, XCoreAssumption DEF Cells, XCoreAssumption
  <1>3. PICK q \in Nat, r \in 0 .. d - 1 : q = c \div d /\ r = c % d /\ c = d * q + r
    BY <1>2, DivMod
  <1>4. q < XSlots
    <2>1. CASE XSlots = q
      <3>1. d * q = Cells
        BY <1>2, <2>1
      <3> QED BY <1>2, <1>3, <3>1
    <2>2. CASE XSlots < q
      <3>1. d * XSlots + d <= d * q
        BY <1>2, <1>3, <2>2, Times
      <3>2. d * XSlots = Cells /\ d * q \in Nat
        BY <1>2, <1>3
      <3> QED BY <1>2, <1>3, <3>1, <3>2
    <2> QED BY <1>2, <1>3, <2>1, <2>2
  <1>5. q * d = d * q
    BY <1>2, <1>3
  <1>6. r # 0 => q * d < c
    <2>1. d * q \in Nat
      BY <1>2, <1>3
    <2> QED BY <1>2, <1>3, <1>5, <2>1
  <1>7. ASSUME NEW s \in XSlotNames, s * d < c + 1, s # q
        PROVE  s * d < c
    <2>1. s \in Nat /\ s * d = d * s /\ d * s \in Nat /\ d * q \in Nat
      BY <1>2, <1>3, XCoreAssumption DEF XSlotNames, XCoreAssumption
    <2>2. CASE s < q
      <3>1. d * s + d <= d * q
        BY <1>2, <1>3, <2>1, <2>2, Times
      <3> QED BY <1>2, <1>3, <2>1, <3>1
    <2>3. CASE q < s
      <3>1. d * q + d <= d * s
        BY <1>2, <1>3, <2>1, <2>3, Times
      <3>2. c < d * s
        BY <1>2, <1>3, <2>1, <3>1
      <3> QED BY <1>2, <1>7, <2>1, <3>2
    <2> QED BY <1>3, <1>7, <2>1, <2>2, <2>3
  <1>8. q \in XSlotNames /\ r \in 0 .. XWords
    BY <1>1, <1>2, <1>3, <1>4, XCoreAssumption DEF XSlotNames, XCoreAssumption
  <1> QED BY <1>1, <1>3, <1>6, <1>7, <1>8

\* What a step of the initialisation leaves: no slot it has come to has a number.
LEMMA InitCellClears ==
  ASSUME WriterInv, InitCell
  PROVE  /\ cell' \in [XSlotNames -> [0 .. XWords -> Nat]]
         /\ \A s \in XSlotNames : cell'[s][0] # 0 => cell'[s] = cell[s]
         /\ \A s \in XSlotNames : s * (XWords + 1) < ClearedCell + 1 => cell'[s][0] = 0
  <1>1. xwpc = "init" /\ cell \in [XSlotNames -> [0 .. XWords -> Nat]] /\ at \in Nat
    BY DEF InitCell, WriterInv, XShared, XWriter
  <1>2. PICK c : c = ClearedCell
    OBVIOUS
  <1>3. \A s \in XSlotNames : s * (XWords + 1) < c => cell[s][0] = 0
    BY <1>1, <1>2 DEF WriterInv, Cleared
  <1>4. c \in Int
    BY <1>1, <1>2 DEF ClearedCell
  <1>5. CASE c \notin 0 .. Cells - 1
    <2>1. cell' = cell
      BY <1>2, <1>5 DEF InitCell
    <2>2. ASSUME NEW s \in XSlotNames, s * (XWords + 1) < c + 1
          PROVE  s * (XWords + 1) < c
      <3>1. s * (XWords + 1) \in Nat /\ s * (XWords + 1) < Cells /\ Cells \in Nat
        BY CellsAre
      <3> QED BY <1>4, <1>5, <2>2, <3>1
    <2> QED BY <1>1, <1>2, <1>3, <2>1, <2>2
  <1>6. CASE c \in 0 .. Cells - 1
    <2>1. PICK q, r : q = c \div (XWords + 1) /\ r = c % (XWords + 1)
      OBVIOUS
    <2>2. /\ q \in XSlotNames /\ r \in 0 .. XWords
          /\ r # 0 => q * (XWords + 1) < c
          /\ \A s \in XSlotNames : s * (XWords + 1) < c + 1 => s = q \/ s * (XWords + 1) < c
      BY <1>6, <2>1, CellAt
    <2>3. cell' = [cell EXCEPT ![q][r] = 0]
      BY <1>2, <1>6, <2>1 DEF InitCell
    <2>4. Put(q, r, 0)
      BY <2>2, <2>3, PutIs DEF WriterInv
    <2>5. cell'[q][0] = 0
      <3>1. CASE r = 0
        BY <2>4, <3>1 DEF Put
      <3>2. CASE r # 0
        <4>1. cell[q][0] = 0
          BY <1>3, <2>2, <3>2
        <4> QED BY <2>4, <3>2, <4>1, WordIs DEF Put
      <3> QED BY <3>1, <3>2
    <2>6. \A s \in XSlotNames : s # q => cell'[s] = cell[s]
      BY <2>4 DEF Put
    <2> QED BY <1>2, <1>3, <2>2, <2>4, <2>5, <2>6 DEF Put
  <1> QED BY <1>5, <1>6

LEMMA InitCellStays == ASSUME XInv, InitCell PROVE XInv'
  <1> USE DEF XInv
  <1>1. /\ UNCHANGED <<dir, readerVars, ack, nonce, epoch, pubs, ours, source, boot, shown, crossed>>
        /\ xwpc = "init" /\ latest' = IF ClearsLatest THEN 0 ELSE latest
        /\ wseq' = IF dir = "pair" THEN 0 ELSE SeedOf(IF dir = "down" THEN nonce ELSE epoch)
        /\ at' = IF at + 1 < InitSteps THEN at + 1 ELSE 0
        /\ xwpc' = IF at + 1 < InitSteps THEN "init" ELSE "open"
    BY DEF InitCell, OnlyWriter
  <1>2. UNCHANGED <<own, gate, xpc, rdSeq, lanes, xn>>
    BY <1>1 DEF readerVars
  <1>3. XTypes /\ Len(source) \in Nat
    BY DEF WriterInv, ReaderInv, XTypes, XWriter
  <1>4. /\ cell' \in [XSlotNames -> [0 .. XWords -> Nat]]
        /\ \A s \in XSlotNames : cell'[s][0] # 0 => cell'[s] = cell[s]
        /\ \A s \in XSlotNames : s * (XWords + 1) < ClearedCell + 1 => cell'[s][0] = 0
    BY InitCellClears DEF WriterInv
  <1>12. pubs = 0 /\ ack = Closed /\ at \in Nat /\ at < InitSteps /\ Cells \in Nat
    BY <1>1, CellsAre DEF WriterInv, BootsCounted, XRunning, GateShows, XWriter
  <1>13. Boots' = Boots /\ Current' = Current /\ Current \in Boots /\ Seed(Current)' = Seed(Current) /\ wseq' = Seed(Current)
    BY <1>1, <1>3 DEF Boots, Current, Seed, SeedOf, WriterInv, BootsCounted, XTypes, XShared
  <1>15. xwpc' = "open" => latest' = 0 /\ \A s \in XSlotNames : cell'[s][0] = 0
    <2>1. SUFFICES ASSUME ~ (at + 1 < InitSteps)
                   PROVE  latest' = 0 /\ \A s \in XSlotNames : cell'[s][0] = 0
      BY <1>1
    <2>2. at + 1 = InitSteps /\ ClearedCell = Cells
      BY <1>12, <2>1 DEF InitSteps, ClearedCell
    <2>3. latest' = 0
      <3>1. CASE dir = "pair"
        <4>1. at = Cells
          BY <1>12, <2>2, <3>1 DEF InitSteps
        <4> QED BY <1>1, <3>1, <4>1 DEF ClearsLatest
      <3>2. CASE dir # "pair"
        <4>1. at > 0
          BY <1>12, <2>2, <3>2 DEF InitSteps
        <4> QED BY <1>1, <3>2, <4>1 DEF WriterInv, Cleared
      <3> QED BY <3>1, <3>2
    <2>4. ASSUME NEW s \in XSlotNames PROVE s * (XWords + 1) < ClearedCell + 1
      BY <2>2, CellsAre
    <2> QED BY <1>4, <2>3, <2>4
  <1>16. xwpc' = "init" \/ dir # "pair" => Spent \subseteq Spent'
    <2>1. ASSUME xwpc' = "init" \/ dir # "pair"
          PROVE  \A b \in Boots, i \in 1 .. MaxPubs : XGiven(b, i) => XGiven(b, i)'
      <3>1. \A i \in 1 .. MaxPubs : ~ (i < 0) /\ i # 0
        OBVIOUS
      <3>2. Over => Over'
        BY <1>1, <2>1 DEF Over
      <3> QED BY <1>1, <1>12, <1>13, <3>1, <3>2 DEF XGiven
    <2> QED BY <1>1, <1>3, <2>1, SpentGrows
  <1>17. xwpc' \in {"init", "open"}
    BY <1>1
  <1>5. XShared' /\ XWriter'
    <2>1. words' \in Nat
      BY XCoreAssumption DEF InitCell, WriterInv, XShared, XCoreAssumption
    <2>2. latest' \in Nat
      BY <1>1 DEF WriterInv, XShared
    <2>3. wseq' \in 0 .. XSeqMod - 1
      <3>1. Current \in Nat /\ 0 \in 0 .. XSeqMod - 1
        BY <1>3, BootsAre, XCoreAssumption DEF XCoreAssumption
      <3> QED BY <1>13, <3>1, SpreadIs DEF Seed
    <2>4. at' \in Nat /\ (xwpc' = "init" => at' < InitSteps')
      <3>1. InitSteps' = InitSteps
        BY <1>1 DEF InitSteps
      <3> QED BY <1>1, <1>12, <3>1
    <2>5. XShared'
      BY <1>1, <1>4, <2>1, <2>2 DEF WriterInv, XShared
    <2> QED BY <1>1, <1>17, <2>3, <2>4, <2>5 DEF WriterInv, XWriter, XRunning
  <1>6. BootsCounted'
    <2>1. Current' \in Boots' /\ wseq' = Seed(Current)'
      BY <1>13
    <2>2. xwpc # "retract" /\ xwpc # "nonce"
      BY <1>1
    <2> QED BY <1>1, <1>12, <1>17, <2>1, <2>2 DEF WriterInv, BootsCounted, XRunning
  <1>7. SlotsWhole' /\ LatestSpent'
    <2>1. CASE xwpc' = "open"
      BY <1>15, <2>1 DEF SlotsWhole, LatestSpent
    <2>2. CASE xwpc' = "init"
      <3>1. latest' = 0 \/ latest' = latest
        BY <1>1
      <3> QED BY <1>1, <1>4, <1>16, <2>2, <3>1 DEF WriterInv, SlotsWhole, LatestSpent
    <2> QED BY <1>17, <2>1, <2>2
  <1>8. Writing' /\ Cleared'
    <2>1. Writing'
      BY <1>17 DEF Writing
    <2>2. xwpc' = "init" => /\ \A s \in XSlotNames : s * (XWords + 1) < ClearedCell' => cell'[s][0] = 0
                            /\ dir' # "pair" /\ at' > 0 => latest' = 0
      <3>1. SUFFICES ASSUME at + 1 < InitSteps
                     PROVE  /\ \A s \in XSlotNames : s * (XWords + 1) < ClearedCell' => cell'[s][0] = 0
                            /\ dir' # "pair" /\ at' > 0 => latest' = 0
        BY <1>1
      <3>2. at' = at + 1 /\ ClearedCell' = ClearedCell + 1
        BY <1>1, <1>12, <3>1 DEF ClearedCell
      <3>3. dir # "pair" => latest' = 0
        <4>1. CASE at = 0
          BY <1>1, <4>1 DEF ClearsLatest
        <4>2. CASE at > 0
          BY <1>1, <4>2 DEF WriterInv, Cleared
        <4> QED BY <1>12, <4>1, <4>2
      <3> QED BY <1>1, <1>4, <3>2, <3>3
    <2>3. Cleared'
      BY <1>15, <2>2 DEF Cleared
    <2> QED BY <2>1, <2>3
  <1>9. GateShows'
    <2>1. Closed[1] = 0 /\ Closed[2] = FALSE
      BY DEF Closed
    <2> QED BY <1>1, <1>12, <1>17, <2>1 DEF WriterInv, GateShows
  <1>10. StillHeld /\ XShows
    <2>1. Closed[1] = 0
      BY DEF Closed
    <2>2. InCopy /\ (dir = "pair" => ~ crossed') => Spent \subseteq Spent'
      <3>1. CASE dir = "pair"
        <4>1. InCopy => crossed
          BY <1>12, <2>1, <3>1 DEF ReaderInv, GateHeld, XReading, InCopy, XPassed
        <4> QED BY <1>1, <3>1, <4>1
      <3>2. CASE dir # "pair"
        BY <1>16, <3>2
      <3> QED BY <3>1, <3>2
    <2>3. StillHeld
      BY <1>1, <1>3, <1>4, <2>2 DEF StillHeld
    <2>4. XShows
      BY <1>1, <1>12, <2>1 DEF XShows, ReaderInv, GateHeld
    <2> QED BY <2>3, <2>4
  <1>11. OwnNonce'
    BY <1>1, <1>2, <1>17 DEF OwnNonce, ReaderInv
  <1> QED BY <1>1, <1>5, <1>6, <1>7, <1>8, <1>9, <1>10, <1>11, WriterLeaves DEF WriterInv, ReaderInv, XReader

-------------------------------------------------------------------------------
(***************************************************************************)
(* The invariant, and what it says.                                        *)
(***************************************************************************)
LEMMA XStarts == XInit => XInv
  <1> SUFFICES ASSUME XInit PROVE XInv
    OBVIOUS
  <1> USE XCoreAssumption DEF XCoreAssumption
  <1>1. XShared
    <2>1. Zeroed \in [0 .. XWords -> Nat]
      BY DEF Zeroed
    <2>2. cell \in [XSlotNames -> [0 .. XWords -> Nat]]
      BY <2>1 DEF XInit, XSlotNames
    <2>3. Closed \in Nat \X BOOLEAN
      BY DEF Closed
    <2> QED BY <2>2, <2>3 DEF XInit, XShared
  <1>2. XWriter
    <2>1. <<>> \in Seq(Build) /\ Len(<<>>) = 0
      OBVIOUS
    <2> QED BY <2>1 DEF XInit, XWriter
  <1>3. BootsCounted
    BY DEF XInit, BootsCounted, XRunning
  <1>4. SlotsWhole /\ LatestSpent
    <2>1. \A s \in XSlotNames : cell[s][0] = 0
      BY DEF XInit, XSlotNames, Zeroed
    <2> QED BY <2>1 DEF XInit, SlotsWhole, LatestSpent
  <1>5. Writing /\ Cleared
    BY DEF XInit, Writing, Cleared
  <1>6. GateShows
    <2>1. Closed[1] = 0 /\ Closed[2] = FALSE
      BY DEF Closed
    <2> QED BY <2>1 DEF XInit, GateShows
  <1>7. XReader
    <2>1. Zero \in [Word -> Nat] /\ Closed \in Nat \X BOOLEAN
      BY DEF Zero, Closed
    <2> QED BY <2>1, WordIs DEF XInit, XReader
  <1>8. OwnNonce /\ GateHeld
    <2>1. Closed[1] = 0
      BY DEF Closed
    <2> QED BY <2>1 DEF XInit, OwnNonce, GateHeld, XReading
  <1>9. XCopied /\ XHeld /\ Newer
    BY DEF XInit, XCopied, XHeld, HeldWhole, Newer
  <1> QED BY <1>1, <1>2, <1>3, <1>4, <1>5, <1>6, <1>7, <1>8, <1>9 DEF XInv, WriterInv, ReaderInv

LEMMA XRests == ASSUME XInv, UNCHANGED xVars PROVE XInv'
  <1>1. UNCHANGED <<dir, shared, writerVars, readerVars, crossed>>
    BY DEF xVars
  <1>2. /\ UNCHANGED <<latest, words, cell, ack, nonce, wseq, xwpc, at, epoch, pubs, ours, source, boot, shown>>
        /\ UNCHANGED <<xpc, xn, xat, xtmp, gate, own, rdSeq, lanes, fresh1, shownAt, tainted, rboot>>
    BY <1>1 DEF shared, writerVars, readerVars
  <1>3. WriterInv' /\ Spent' = Spent
    <2>1. OnlyReader /\ nonce' \in Nat /\ nonce' % 2 = 1
      BY <1>1, <1>2 DEF OnlyReader, XInv, WriterInv, XShared
    <2> QED BY <1>2, <2>1, ReaderLeaves DEF XInv
  <1>4. XReader' /\ OwnNonce' /\ GateHeld'
    BY <1>1, <1>2 DEF XInv, ReaderInv, XReader, OwnNonce, GateHeld, XReading, XPassed
  <1>5. XCopied' /\ XHeld' /\ Newer'
    BY <1>1, <1>2, <1>3 DEF XInv, ReaderInv, XCopied, XHeld, HeldWhole, Newer, Ripe, Sure, FromBoot
  <1> QED BY <1>3, <1>4, <1>5 DEF XInv, ReaderInv

LEMMA XKept == ASSUME XInv, [XNext]_xVars PROVE XInv'
  <1>1. CASE UNCHANGED xVars
    BY <1>1, XRests
  <1>2. CASE Writer
    <2>1. CASE \E same \in BOOLEAN : WRestart(same)
      BY <2>1, WRestartStays
    <2>2. CASE Retract \/ NewNonce \/ InitCell \/ Open
      BY <2>2, RetractStays, NewNonceStays, InitCellStays, OpenStays
    <2>3. CASE PubBegin \/ PubWord \/ PubValid \/ PubLatest
      BY <2>3, PubBeginStays, PubWordStays, PubValidStays, PubLatestStays
    <2> QED BY <1>2, <2>1, <2>2, <2>3 DEF Writer
  <1>3. CASE Reader
    <2>1. CASE RRestart \/ Gate \/ GateNonce \/ ReadLatest \/ ReadWords
      BY <2>1, RRestartStays, GateStays, GateNonceStays, ReadLatestStays, ReadWordsStays
    <2>2. CASE CopyWord \/ Recheck \/ Regate \/ Renonce
      BY <2>2, CopyWordStays, RecheckStays, RegateStays, RenonceStays
    <2> QED BY <1>3, <2>1, <2>2 DEF Reader
  <1> QED BY <1>1, <1>2, <1>3 DEF XNext

LEMMA HeldHonestIs == XInv => HeldHonest
  <1>1. XInv => HeldWhole
    BY DEF XInv, ReaderInv, XHeld
  <1>2. XInv => DownOfThisBoot
    BY DEF XInv, ReaderInv, XHeld, DownOfThisBoot, FromBoot
  <1> QED BY <1>1, <1>2 DEF HeldHonest

\* What a poll takes in place of what it had was published no earlier.
Forward == (dir = "pair" /\ (tainted \/ tainted')) \/ rdSeq' = 0 \/ rdSeq = 0 \/ lanes'[1] >= lanes[1]

LEMMA PollsForward == ASSUME XInv, [XNext]_xVars PROVE Forward
  <1> USE DEF XInv
  <1>1. lanes[1] \in Nat
    BY WordIs DEF ReaderInv, XReader
  <1>2. CASE lanes' = lanes
    BY <1>1, <1>2 DEF Forward
  <1>3. CASE Recheck
    <2>1. CASE ~ StillThere
      BY <1>2, <1>3, <2>1 DEF Recheck
    <2>2. CASE StillThere
      <3>1. lanes' = xtmp /\ tainted' = crossed /\ xn # 0 /\ xpc = "recheck"
        BY <1>3, <2>2 DEF Recheck, ReaderInv, XCopied
      <3>2. Sure => xtmp[1] = cell[SlotOf(xn)][1]
        BY <2>2, <3>1, WordIs DEF ReaderInv, XCopied, StillThere
      <3>3. Sure /\ Ripe /\ rdSeq # 0 => lanes[1] <= cell[SlotOf(xn)][1]
        BY <2>2, <3>1 DEF ReaderInv, Newer, StillThere
      <3>4. xtmp[1] \in Nat
        BY WordIs DEF ReaderInv, XReader
      <3> QED BY <1>1, <3>1, <3>2, <3>3, <3>4 DEF Forward, Sure, Ripe
    <2> QED BY <2>1, <2>2
  <1>4. CASE RRestart \/ GateNonce \/ Regate \/ Renonce
    <2>1. rdSeq' = 0 \/ lanes' = lanes
      BY <1>4 DEF RRestart, GateNonce, Regate, Renonce, Forget
    <2> QED BY <1>2, <2>1 DEF Forward
  <1>5. CASE Gate \/ ReadLatest \/ ReadWords \/ CopyWord
    BY <1>2, <1>5 DEF Gate, ReadLatest, ReadWords, CopyWord
  <1>6. CASE Writer
    <2>1. UNCHANGED readerVars
      <3>1. CASE \E same \in BOOLEAN : WRestart(same)
        BY <3>1 DEF WRestart, OnlyWriter
      <3>2. CASE Retract \/ NewNonce \/ InitCell \/ Open
        BY <3>2 DEF Retract, NewNonce, InitCell, Open, OnlyWriter
      <3>3. CASE PubBegin \/ PubWord \/ PubValid \/ PubLatest
        BY <3>3 DEF PubBegin, PubWord, PubValid, PubLatest, OnlyWriter
      <3> QED BY <1>6, <3>1, <3>2, <3>3 DEF Writer
    <2> QED BY <1>2, <2>1 DEF readerVars
  <1>7. CASE UNCHANGED xVars
    BY <1>2, <1>7 DEF xVars, readerVars
  <1> QED BY <1>3, <1>4, <1>5, <1>6, <1>7 DEF XNext, Reader

\* What a core is told of the other is one value of the other, whole, of its own build and,
\* downwards, of the boot the gate showed (xioc.h, xcore_down_read).
THEOREM XCoreStaysHonest == XSpec => []HeldHonest
  <1>1. XInv /\ [XNext]_xVars => XInv'
    BY XKept
  <1> QED BY <1>1, XStarts, HeldHonestIs, PTL DEF XSpec

\* A poll never replaces a value by an older one (xioc.h: the latest value wins).
THEOREM XCoreNeverBack == XSpec => NeverBack
  <1>1. XInv /\ [XNext]_xVars => XInv'
    BY XKept
  <1>2. XInv /\ [XNext]_xVars =>
          [(dir = "pair" /\ (tainted \/ tainted')) \/ rdSeq' = 0 \/ rdSeq = 0 \/ lanes'[1] >= lanes[1]]_xVars
    BY PollsForward DEF Forward
  <1> QED BY <1>1, <1>2, XStarts, PTL DEF XSpec, NeverBack

===============================================================================
