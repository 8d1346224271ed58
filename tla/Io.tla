----------------------------------- MODULE Io -----------------------------------
(***************************************************************************)
(* The IO driver of the STM32H7 (driver/io/io_stm32.c) as the generated    *)
(* boot and io thread call it (examples/h755_io_analog/gen/loom_gen.v):    *)
(* points are declared, brought up store by store while the pads already   *)
(* show what they are told, and the converter scans into memory on its own.*)
(***************************************************************************)
EXTENDS Integers, Sequences, FiniteSets, SequencesExt

CONSTANTS MaxPoints, MaxStarts, MaxIoWrites    \* bounds: points, calls of init, writes

ASSUME IoAssumption == MaxPoints \in Nat /\ MaxStarts \in Nat \ {0} /\ MaxIoWrites \in Nat

VARIABLES
    plan,                       \* the declarations of this image, in channel order
    ioAt, idx,                  \* where the caller is, and at which point
    points,                     \* g_pt: what is configured
    outFault, pwmFault,         \* io_out_fault, pwm_fault
    mode, odr,                  \* each pad's MODER field and output bit
    carrier, ccr,               \* each timer's <<PSC, ARR>>, each channel's compare register
    timSeen, pwmArr,            \* g_tim_seen; g_pwm_tim with g_pwm_arr, 0 where there is no timer
    adcN, firstReady, tcif,     \* g_adc_n, g_adc_first_ready, the scan-complete flag
    dmaArr, rank, conv,         \* g_adc_dma, the rank converted next, what the converter does
    starts, ioWrites,           \* counts for the bounds
    setTo,                      \* history: the logical value each point was last given
    fabricated                  \* history: a checked read gave what is no conversion of this start

bootVars == <<plan, ioAt, idx, points, outFault, pwmFault>>
padVars == <<mode, odr>>
timVars == <<carrier, ccr, timSeen, pwmArr>>
adcVars == <<adcN, firstReady, tcif, dmaArr, rank, conv>>
ioHistVars == <<starts, ioWrites, setTo, fabricated>>
ioVars == <<bootVars, padVars, timVars, adcVars, ioHistVars>>

\* Pads of a board: their ADC1 channel, and their timer, its channel and its clock.
AdcChannel == [pa3 |-> 15, pc0 |-> 10]
TimerOf == [pe9 |-> <<"tim1", 1>>, pe11 |-> <<"tim1", 2>>, pa8 |-> <<"tim1", 1>>, pb14 |-> <<"tim12", 1>>]
Clk == 200000000
Reserved == {"pa13"}
Pads == DOMAIN AdcChannel \cup DOMAIN TimerOf \cup Reserved \cup {"pb0", "pc13", "pb7"}
Timers == {"tim1", "tim12"}

\* What an image may declare; `init` is logical, of a PWM point in permille.
Gpio(p, o, v, a) == [pad |-> p, kind |-> "gpio", out |-> o, init |-> v, al |-> a, freq |-> 0]
Adc(p) == [pad |-> p, kind |-> "adc", out |-> FALSE, init |-> 0, al |-> 0, freq |-> 0]
Pwm(p, v, f) == [pad |-> p, kind |-> "pwm", out |-> TRUE, init |-> v, al |-> 0, freq |-> f]
GpioPoints == {Gpio("pb0", TRUE, 1, 0), Gpio("pb0", TRUE, 1, 1), Gpio("pa13", TRUE, 1, 0), Gpio("pc13", FALSE, 0, 1)}
AdcPoints == {Adc(p) : p \in {"pa3", "pc0", "pb14"}}
PwmPoints == {Pwm("pe9", 1200, 1000), Pwm("pe9", 1200, 20000), Pwm("pe11", 500, 20000), Pwm("pa8", 1200, 20000),
              Pwm("pb7", 300, 1000), Pwm("pb14", 300, 75000000)}
Declarable == GpioPoints \cup AdcPoints \cup PwmPoints
PlansOf == {s \in BoundedSeq(Declarable, MaxPoints) : \A i, j \in DOMAIN s : i # j => s[i].pad # s[j].pad}

Channels == DOMAIN plan
Unset == [configured |-> FALSE]
Configured(kind) == {i \in Channels : points[i].configured /\ points[i].kind = kind}
Xor(a, b) == (a + b) % 2
Least(a, b) == IF a < b THEN a ELSE b

IoInit ==
    /\ plan \in PlansOf /\ ioAt = "declare" /\ idx = 1
    /\ points = [i \in Channels |-> Unset]
    /\ outFault = FALSE /\ pwmFault = FALSE
    /\ mode = [p \in Pads |-> "analog"] /\ odr = [p \in Pads |-> 0]
    /\ carrier = [t \in Timers |-> <<0, 0>>] /\ ccr = [tc \in Timers \X (1 .. 2) |-> 0]
    /\ timSeen = <<>> /\ pwmArr = [i \in Channels |-> 0]
    /\ adcN = 0 /\ firstReady = FALSE /\ tcif = FALSE
    /\ dmaArr = [s \in 0 .. MaxPoints - 1 |-> <<0, 0>>] /\ rank = 0 /\ conv = "off"
    /\ starts = 0 /\ ioWrites = 0 /\ setTo = [i \in Channels |-> plan[i].init] /\ fabricated = FALSE

-------------------------------------------------------------------------------
\* blob_io_cfg.  A rejected output halts the node, after the rest was brought up.
Accepts(d) ==
    /\ d.pad \notin Reserved
    /\ d.kind = "adc" => d.pad \in DOMAIN AdcChannel
    /\ d.kind = "pwm" => d.freq > 0

Stored(d) == [configured |-> TRUE, pad |-> d.pad, kind |-> d.kind, out |-> d.out, al |-> d.al, freq |-> d.freq,
              slot |-> IF d.kind = "adc" THEN adcN ELSE -1,
              init |-> CASE d.kind = "pwm" -> Least(d.init, 1000) [] d.kind = "adc" -> 0
                         [] OTHER -> Xor(d.init, d.al)]

Declare ==
    /\ ioAt = "declare" /\ idx \in Channels
    /\ LET d == plan[idx] IN
        IF Accepts(d)
        THEN /\ points' = [points EXCEPT ![idx] = Stored(d)]
             /\ adcN' = adcN + (IF d.kind = "adc" THEN 1 ELSE 0)
             /\ UNCHANGED outFault
        ELSE outFault' = (outFault \/ d.out) /\ UNCHANGED <<points, adcN>>
    /\ idx' = idx + 1
    /\ UNCHANGED <<plan, ioAt, pwmFault, padVars, timVars, firstReady, tcif, dmaArr, rank, conv, ioHistVars>>

\* blob_io_init: the pads first, one store at a time; an output's level before its mode.
Start ==
    /\ ioAt = "declare" /\ idx = Len(plan) + 1 /\ starts < MaxStarts
    /\ ioAt' = "level" /\ idx' = 1 /\ starts' = starts + 1
    /\ UNCHANGED <<plan, points, outFault, pwmFault, padVars, timVars, adcVars, ioWrites, setTo, fabricated>>

SetLevel ==
    /\ ioAt = "level" /\ idx \in Channels
    /\ IF idx \in Configured("gpio") /\ points[idx].out
       THEN /\ odr' = [odr EXCEPT ![points[idx].pad] = points[idx].init]
            /\ setTo' = [setTo EXCEPT ![idx] = plan[idx].init]
       ELSE UNCHANGED <<odr, setTo>>
    /\ ioAt' = "mux"
    /\ UNCHANGED <<plan, idx, points, outFault, pwmFault, mode, timVars, adcVars, starts, ioWrites, fabricated>>

SetMode ==
    /\ ioAt = "mux"
    /\ mode' = CASE idx \in Configured("gpio") -> [mode EXCEPT ![points[idx].pad] = IF points[idx].out THEN "out" ELSE "in"]
                 [] idx \in Configured("adc") -> [mode EXCEPT ![points[idx].pad] = "analog"]
                 [] OTHER -> mode
    /\ ioAt' = IF idx = Len(plan) THEN "pwm" ELSE "level"
    /\ idx' = IF idx = Len(plan) THEN 1 ELSE idx + 1
    /\ UNCHANGED <<plan, points, outFault, pwmFault, odr, timVars, adcVars, ioHistVars>>

\* An image without points has nothing to bring up.
NoPoints ==
    /\ ioAt = "level" /\ plan = <<>>
    /\ ioAt' = "pwm"
    /\ UNCHANGED <<plan, idx, points, outFault, pwmFault, padVars, timVars, adcVars, ioHistVars>>

-------------------------------------------------------------------------------
\* pwm_setup: the nearest period of at least two counts, the smallest prescaler, and a
\* carrier within 1% of the one asked for.
Total(f) == (Clk + f \div 2) \div f
Psc(f) == LET n == Total(f) IN
    CHOOSE p \in 0 .. n : /\ n \div (p + 1) <= 65536
                          /\ p > 0 => n \div p > 65536
Carrier(f) == <<Psc(f), Total(f) \div (Psc(f) + 1) - 1>>
Achieves(c, f) == LET achieved == Clk \div ((c[1] + 1) * (c[2] + 1))
                  tol == f \div 100 + 1
              IN achieved <= f + tol /\ achieved + tol >= f
Maps(i) == points[i].pad \in DOMAIN TimerOf
Fits(i) == Total(points[i].freq) >= 2 /\ Achieves(Carrier(points[i].freq), points[i].freq)

Tim(i) == TimerOf[points[i].pad]
EntriesOf(t) == {k \in DOMAIN timSeen : timSeen[k].tim = t}

\* The loop over g_tim_seen ends at the timer's first entry.  (Mutant: it looks for the
\* channel alone.)
RefusedChannel(i) == \E k \in EntriesOf(Tim(i)[1]) : timSeen[k].chan = Tim(i)[2]

Refused(i) ==
    \E k \in EntriesOf(Tim(i)[1]) :
        /\ \A j \in EntriesOf(Tim(i)[1]) : k <= j
        /\ timSeen[k].chan = Tim(i)[2] \/ timSeen[k].carrier # Carrier(points[i].freq)

Usable(i) == Maps(i) /\ Fits(i) /\ ~ Refused(i)

\* A compare value: the share of the period, in permille.
Compare(permille, arr) == (permille * (arr + 1)) \div 1000

NextPwm ==
    /\ idx' = idx + 1 /\ ioAt' = "pwm"

PwmRejected ==
    /\ ioAt = "pwm" /\ idx \in Configured("pwm")
    /\ ~ Usable(idx)
    /\ pwmFault' = TRUE
    /\ pwmArr' = [pwmArr EXCEPT ![idx] = IF Maps(idx) /\ Fits(idx) THEN Carrier(points[idx].freq)[2] ELSE @]
    /\ NextPwm
    /\ UNCHANGED <<plan, points, outFault, padVars, carrier, ccr, timSeen, adcVars, ioHistVars>>

PwmProgrammed ==
    /\ ioAt = "pwm" /\ idx \in Configured("pwm")
    /\ Usable(idx)
    /\ LET t == Tim(idx)[1]
           c == Carrier(points[idx].freq)
       IN
        /\ carrier' = IF EntriesOf(t) = {} THEN [carrier EXCEPT ![t] = c] ELSE carrier
        /\ timSeen' = Append(timSeen, [tim |-> t, chan |-> Tim(idx)[2], carrier |-> c])
        /\ ccr' = [ccr EXCEPT ![Tim(idx)] = Compare(points[idx].init, c[2])]
        /\ pwmArr' = [pwmArr EXCEPT ![idx] = c[2]]
    /\ setTo' = [setTo EXCEPT ![idx] = plan[idx].init]
    /\ ioAt' = "af"
    /\ UNCHANGED <<plan, idx, points, outFault, pwmFault, padVars, adcVars, starts, ioWrites, fabricated>>

PwmMuxed ==
    /\ ioAt = "af"
    /\ mode' = [mode EXCEPT ![points[idx].pad] = "af"]
    /\ NextPwm
    /\ UNCHANGED <<plan, points, outFault, pwmFault, odr, timVars, adcVars, ioHistVars>>

NotPwm ==
    /\ ioAt = "pwm" /\ idx \in Channels \ Configured("pwm")
    /\ NextPwm
    /\ UNCHANGED <<plan, points, outFault, pwmFault, padVars, timVars, adcVars, ioHistVars>>

\* After the last: a fault ends init before the converter starts, and the boot halts.
PadsDone ==
    /\ ioAt = "pwm" /\ idx = Len(plan) + 1
    /\ outFault' = (outFault \/ pwmFault)
    /\ ioAt' = IF ~ pwmFault /\ adcN > 0 THEN "adc" ELSE IF outFault' THEN "halt" ELSE "run"
    /\ UNCHANGED <<plan, idx, points, pwmFault, padVars, timVars, adcVars, ioHistVars>>

-------------------------------------------------------------------------------
\* adc_dma_start.  A converter that stays silent is no fault: its reads fail.
Ended == IF outFault THEN "halt" ELSE "run"

AdcSilent ==
    /\ ioAt = "adc"
    /\ tcif' = FALSE /\ firstReady' = FALSE
    /\ ioAt' = Ended
    /\ UNCHANGED <<plan, idx, points, outFault, pwmFault, padVars, timVars, adcN, dmaArr, rank, conv, ioHistVars>>

AdcStarts ==
    /\ ioAt = "adc"
    /\ tcif' = FALSE /\ firstReady' = FALSE
    /\ rank' = 0 /\ conv' = "scanning"
    /\ ioAt' = "scan"
    /\ UNCHANGED <<plan, idx, points, outFault, pwmFault, padVars, timVars, adcN, dmaArr, ioHistVars>>

\* The bounded wait for a whole scan ends as it came, or before.
ScanAwaited ==
    /\ ioAt = "scan"
    /\ firstReady' = tcif
    /\ ioAt' = Ended
    /\ UNCHANGED <<plan, idx, points, outFault, pwmFault, padVars, timVars, adcN, tcif, dmaArr, rank, conv, ioHistVars>>

\* The converter: the next rank's sample is stored; the flag comes with the last one's.
RankOf(r) == CHOOSE i \in Configured("adc") : points[i].slot = r
LastRank == adcN - 1

Convert ==
    /\ conv = "scanning"
    /\ dmaArr' = [dmaArr EXCEPT ![rank] = <<starts, AdcChannel[points[RankOf(rank)].pad]>>]
    /\ rank' = (rank + 1) % adcN
    /\ tcif' = (tcif \/ rank = LastRank)
    /\ UNCHANGED <<bootVars, padVars, timVars, adcN, firstReady, conv, ioHistVars>>

\* A stream that is disabled raises the flag as its last transfer ends.
StreamStops ==
    /\ conv = "stopping"
    /\ conv' = "off" /\ tcif' = TRUE
    /\ UNCHANGED <<bootVars, padVars, timVars, adcN, firstReady, dmaArr, rank, ioHistVars>>

-------------------------------------------------------------------------------
\* The boot's sample and the io thread.
Ready == firstReady \/ tcif

AdcReadChecked(i) ==
    /\ ioAt = "run" /\ i \in Configured("adc")
    /\ Ready
    /\ firstReady' = TRUE
    /\ fabricated' = (fabricated \/ dmaArr[points[i].slot] # <<starts, AdcChannel[plan[i].pad]>>)
    /\ UNCHANGED <<bootVars, padVars, timVars, adcN, tcif, dmaArr, rank, conv, starts, ioWrites, setTo>>

GpioWrite(i, level) ==
    /\ ioAt = "run" /\ i \in Configured("gpio") /\ points[i].out /\ ioWrites < MaxIoWrites
    /\ odr' = [odr EXCEPT ![points[i].pad] = Xor(level, points[i].al)]
    /\ setTo' = [setTo EXCEPT ![i] = level] /\ ioWrites' = ioWrites + 1
    /\ UNCHANGED <<bootVars, mode, timVars, adcVars, starts, fabricated>>

PwmWrite(i, permille) ==
    /\ ioAt = "run" /\ i \in Configured("pwm") /\ pwmArr[i] # 0 /\ ioWrites < MaxIoWrites
    /\ ccr' = [ccr EXCEPT ![Tim(i)] = Compare(Least(permille, 1000), pwmArr[i])]
    /\ setTo' = [setTo EXCEPT ![i] = permille] /\ ioWrites' = ioWrites + 1
    /\ UNCHANGED <<bootVars, padVars, carrier, timSeen, pwmArr, adcVars, starts, fabricated>>

\* blob_io_close: the stream and the converter stop, then the bookkeeping goes; pads keep
\* their mode and level.
CloseStops ==
    /\ ioAt = "run"
    /\ conv' = IF conv = "scanning" THEN "stopping" ELSE conv
    /\ ioAt' = "close"
    /\ UNCHANGED <<plan, idx, points, outFault, pwmFault, padVars, timVars, adcN, firstReady, tcif, dmaArr, rank, ioHistVars>>

CloseForgets ==
    /\ ioAt = "close" /\ conv = "off"
    /\ tcif' = FALSE /\ firstReady' = FALSE /\ adcN' = 0
    /\ timSeen' = <<>> /\ pwmArr' = [i \in Channels |-> 0]
    /\ points' = [i \in Channels |-> Unset]
    /\ ioAt' = "declare" /\ idx' = 1
    /\ UNCHANGED <<plan, outFault, pwmFault, padVars, carrier, ccr, dmaArr, rank, conv, ioHistVars>>

IoNext ==
    \/ Declare \/ Start \/ SetLevel \/ SetMode \/ NoPoints
    \/ PwmRejected \/ PwmProgrammed \/ PwmMuxed \/ NotPwm \/ PadsDone
    \/ AdcSilent \/ AdcStarts \/ ScanAwaited \/ Convert \/ StreamStops
    \/ \E i \in Channels : AdcReadChecked(i)
    \/ \E i \in Channels, v \in 0 .. 1 : GpioWrite(i, v)
    \/ \E i \in Channels, v \in {0, 250} : PwmWrite(i, v)
    \/ CloseStops \/ CloseForgets

IoSpec == IoInit /\ [][IoNext]_ioVars

-------------------------------------------------------------------------------
\* What is live: pads this image declared that drive a level or a waveform.
Live(m) == {i \in Channels : plan[i].out /\ mode[plan[i].pad] = m}

\* REQ-IO-009, 013, 017: from the moment a pad is an output it shows the declared level,
\* or the last one written, in the polarity of its wiring.
OutputsHold == \A i \in Live("out") : odr[plan[i].pad] = Xor(setTo[i], plan[i].al)

\* Whatever else was rejected, every accepted output is driven before the node halts or runs.
OutputsReached ==
    ioAt \in {"halt", "run"} =>
        \A i \in Channels :
            /\ plan[i].kind = "gpio" /\ plan[i].out /\ Accepts(plan[i]) => i \in Live("out")
            /\ ioAt = "run" /\ plan[i].out => i \in Live("out") \cup Live("af")

\* REQ-IO-011, 022: a live pad's timer runs at the carrier its point declared, although
\* points share timers.
CarriersKept == \A i \in Live("af") : Achieves(carrier[TimerOf[plan[i].pad][1]], plan[i].freq)

DutyOf(i) == LET tc == TimerOf[plan[i].pad] IN Compare(Least(setTo[i], 1000), carrier[tc[1]][2])

\* REQ-IO-011: a live pad shows the duty its own signal commands (the comment before
\* g_tim_seen's loop: no two points may claim the same (timer, channel)).
DutiesKept == \A i \in Live("af") : ccr[TimerOf[plan[i].pad]] = DutyOf(i)

\* A PWM point whose timer channel is programmed, its pad muxed or about to be.
Driven(i) == plan[i].out /\ (mode[plan[i].pad] = "af" \/ (ioAt = "af" /\ i = idx))

\* The same for the points whose timer channel nobody else got.
OwnDutiesKept ==
    \A i \in Channels :
        Driven(i) /\ (\A j \in Channels \ {i} : Driven(j) => TimerOf[plan[j].pad] # TimerOf[plan[i].pad])
            => ccr[TimerOf[plan[i].pad]] = DutyOf(i)

\* REQ-IO-003, 009, 018: what a checked read gives is a conversion of the point's own
\* channel made since this start.
SamplesReal == ~ fabricated

\* What the IO driver promises its callers.
IoHonest == OutputsHold /\ OutputsReached /\ CarriersKept /\ OwnDutiesKept /\ SamplesReal

===============================================================================
