------------------------------ MODULE Reading ------------------------------
(***************************************************************************)
(* From a converter's four bytes to the characters on the screen:          *)
(* max31855ReadData (Max31855.c), formatFloat and intToStr (utils.c), and  *)
(* the value lines that taskDisplayLoop (UserTasks.c) draws with them.     *)
(*                                                                         *)
(* A temperature is counted in the converter's quarters of a degree, which *)
(* a float holds exactly, as it does their hundredths.  A value line is a  *)
(* row of character cells, ASCII codes, in the size of a value; drawing a  *)
(* text leaves the cells after it as they were.                            *)
(***************************************************************************)
EXTENDS Integers, Sequences, SequencesExt

CONSTANTS
    Measurements,  \* what a converter may measure
    Levels,        \* the power levels announced, in percent
    NoReading      \* nothing was drawn yet

Signed14 == -8192..8191
Signed12 == -2048..2047

Measurement ==
    [temp : Signed14, internal : Signed12,
     OC : BOOLEAN, SVG : BOOLEAN, SVC : BOOLEAN]

ASSUME MeasurementAssumption == Measurements \subseteq Measurement
ASSUME LevelAssumption == Levels \subseteq 1..100
ASSUME NoReadingAssumption == NoReading \notin Measurement

VARIABLES
    measured,  \* what the converter measured when it was last read
    valid,     \* what max31855ReadData returned then, and its pData
    data,
    valueLine, \* the cells of the sensor's value line, and the power's
    levelLine,
    shown,     \* the measurement drawn last, NoReading before
    longest,   \* ghost: length of the longest value drawn since the last error
    level      \* the level announced last

readingVars == <<measured, valid, data, valueLine, levelLine, shown, longest, level>>

---------------------------------------------------------------------------
(***************************************************************************)
(* The converter's word, most significant byte first: 14 bits of           *)
(* temperature, a reserved bit, the fault bit, 12 bits of internal         *)
(* temperature, a reserved bit and the three flags.                        *)
(***************************************************************************)
Bit(b) == IF b THEN 1 ELSE 0

Faulty(m) == m.OC \/ m.SVG \/ m.SVC

UpperHalf(m) == 4 * (m.temp % 16384) + Bit(Faulty(m))

LowerHalf(m) ==
    16 * (m.internal % 4096) + 4 * Bit(m.SVC) + 2 * Bit(m.SVG) + Bit(m.OC)

SpiBytes(m) ==
    <<UpperHalf(m) \div 256, UpperHalf(m) % 256,
      LowerHalf(m) \div 256, LowerHalf(m) % 256>>

\* A signed bit field whose sign bit is worth half.
Signed(x, half) == IF x >= half THEN x - 2 * half ELSE x

FailureType(low) ==
    IF low % 2 = 1 THEN "OpenFault"
    ELSE IF (low \div 2) % 2 = 1 THEN "ShortCircuiteToGND"
    ELSE IF (low \div 4) % 2 = 1 THEN "ShortCircuiteToVCC"
    ELSE "OK"

\* Fault: the bit field is taken for an unsigned one.
UnpackedUnsigned(b) ==
    [Temp |-> (256 * b[1] + b[2]) \div 4,
     InternalTemp |-> (256 * b[3] + b[4]) \div 16,
     FailureType |-> FailureType(256 * b[3] + b[4])]

\* The packet a little-endian machine sees in the bytes reversed.
Unpacked(b) ==
    [Temp |-> Signed((256 * b[1] + b[2]) \div 4, 8192),
     InternalTemp |-> Signed((256 * b[3] + b[4]) \div 16, 2048),
     FailureType |-> FailureType(256 * b[3] + b[4])]

FaultBit(b) == b[2] % 2 = 1

---------------------------------------------------------------------------
(***************************************************************************)
(* intToStr and formatFloat.                                               *)
(***************************************************************************)
Space == 32
Percent == 37
Minus == 45
Dot == 46
Zero == 48
Figures == Zero..(Zero + 9)
NoCell == 0       \* the screen's background, before anything was drawn
ErrorCell == 1    \* two letters of the small "Sensor error"

Blanks(n) == [i \in 1..n |-> Space]

\* The decimal digits of x, of which 0 has none.
digits[x \in Nat] ==
    IF x = 0 THEN << >> ELSE Append(digits[x \div 10], Zero + (x % 10))

IntToStr(x, d) ==
    LET missing == d - Len(digits[x])
    IN  [i \in 1..missing |-> Zero] \o digits[x]

Abs(x) == IF x < 0 THEN -x ELSE x

\* Two places of temp / 4, the sign only when it is negative.
FormatTemp(temp) ==
    (IF temp < 0 THEN <<Minus>> ELSE << >>)
        \o IntToStr(Abs(temp) \div 4, 0) \o <<Dot>>
        \o IntToStr((Abs(temp) % 4) * 25, 2)

\* Fault: as many blanks after the level as after a temperature.
LevelTextPadded(percent) == IntToStr(percent, 0) \o <<Percent>> \o Blanks(3)

\* A percentage without places, filled up to four characters.
LevelText(percent) ==
    LET text == IntToStr(percent, 0) \o <<Percent>>
    IN  text \o Blanks(4 - Len(text))

---------------------------------------------------------------------------
LineLength == 12   \* value cells between TFT_X_VALUE and the right edge
LevelLength == 5   \* cells before the frame around ON and OFF
Filler == 3

EmptyLine(n) == [i \in 1..n |-> NoCell]

\* Sitronix7735_Text at the start of a value line.  A text longer than the
\* line would make it longer: it runs into the frame, or is wrapped.
Overwritten(cells, text) == text \o SubSeq(cells, Len(text) + 1, Len(cells))

ReadingInit ==
    /\ measured \in Measurements
    /\ data = Unpacked(SpiBytes(measured))
    /\ valid = ~FaultBit(SpiBytes(measured))
    /\ valueLine = EmptyLine(LineLength)
    /\ levelLine = EmptyLine(LevelLength)
    /\ shown = NoReading
    /\ longest = 0
    /\ level = 0

\* The converter is read.
ReadData(m) ==
    /\ measured' = m
    /\ data' = Unpacked(SpiBytes(m))
    /\ valid' = ~FaultBit(SpiBytes(m))
    /\ UNCHANGED <<valueLine, levelLine, shown, longest, level>>

\* The display task draws DCM_SensorDataChanged.
DrawData ==
    /\ valid
    /\ LET text == FormatTemp(data.Temp)
       IN  /\ valueLine' = Overwritten(valueLine, text \o Blanks(Filler))
           /\ longest' = Max({longest, Len(text)})
    /\ shown' = measured
    /\ UNCHANGED <<measured, valid, data, levelLine, level>>

\* Fault: the small text is drawn over the old value.
DrawErrorOver ==
    /\ ~valid
    /\ valueLine' = Overwritten(valueLine, [i \in 1..6 |-> ErrorCell])
    /\ longest' = 0
    /\ shown' = measured
    /\ UNCHANGED <<measured, valid, data, levelLine, level>>

\* It draws DCM_SensorError: eight blanks and the small text, which is as wide
\* as six of them.
DrawError ==
    /\ ~valid
    /\ valueLine' = Overwritten(Overwritten(valueLine, Blanks(8)),
                                [i \in 1..6 |-> ErrorCell])
    /\ longest' = 0
    /\ shown' = measured
    /\ UNCHANGED <<measured, valid, data, levelLine, level>>

\* It draws DCM_PowerLevelChanged.
DrawLevel(percent) ==
    /\ levelLine' = Overwritten(levelLine, LevelText(percent))
    /\ level' = percent
    /\ UNCHANGED <<measured, valid, data, valueLine, shown, longest>>

ReadingNext ==
    \/ \E m \in Measurements : ReadData(m)
    \/ DrawData
    \/ DrawError
    \/ \E percent \in Levels : DrawLevel(percent)

ReadingSpec == ReadingInit /\ [][ReadingNext]_readingVars

---------------------------------------------------------------------------
Cells(n) == [1..n ->
             {NoCell, ErrorCell, Space, Percent, Minus, Dot} \cup Figures]

\* What the variables hold, and that no text runs over its line's end.
ReadingTypeOK ==
    /\ measured \in Measurements
    /\ valid \in BOOLEAN
    /\ data \in [Temp : Int, InternalTemp : Int,
                 FailureType : {"OK", "OpenFault", "ShortCircuiteToGND",
                                "ShortCircuiteToVCC"}]
    /\ valueLine \in Cells(LineLength)
    /\ levelLine \in Cells(LevelLength)
    /\ shown \in Measurements \cup {NoReading}
    /\ longest \in 0..LineLength
    /\ level \in Levels \cup {0}

\* max31855ReadData returns the temperatures the converter measured, negative
\* ones too, returns false exactly when a flag is up, and the failure it names
\* is one whose flag is up.
DataMatches ==
    /\ data.Temp = measured.temp
    /\ data.InternalTemp = measured.internal
    /\ valid <=> ~Faulty(measured)
    /\ data.FailureType = "OK" <=> valid
    /\ data.FailureType = "OpenFault" => measured.OC
    /\ data.FailureType = "ShortCircuiteToGND" => measured.SVG
    /\ data.FailureType = "ShortCircuiteToVCC" => measured.SVC

\* What a reader sees of a line: its cells up to the last that is not blank,
Visible(cells) ==
    SubSeq(cells, 1, Max({0} \cup {i \in DOMAIN cells : cells[i] \notin {Space, NoCell}}))

\* and the number its digits say.
Number(text) ==
    LET value[i \in 0..Len(text)] ==
            IF i = 0 THEN 0
            ELSE IF text[i] \in Figures THEN 10 * value[i - 1] + (text[i] - Zero)
            ELSE value[i - 1]
    IN  value[Len(text)]

Hundredths(text) == IF text[1] = Minus THEN -Number(text) ELSE Number(text)

WellFormed(text) ==
    /\ Len(text) >= 3
    /\ \A i \in DOMAIN text :
           /\ text[i] \in Figures \cup {Dot, Minus}
           /\ text[i] = Dot <=> i = Len(text) - 2
           /\ text[i] = Minus => i = 1

\* The value line reads as the measurement drawn last, to its last hundredth,
\* whatever was drawn before, "Sensor error" included: the three blanks after
\* a value, and the eight under the error, are enough.  The exception is a
\* text more than three characters longer than the new one, drawn since the
\* last error: its end may remain.  Of the temperatures a thermocouple
\* can have, that takes a fall from 1000 degrees or more, or a rise from -100
\* or less, to less than 1.  After a fault the line says the error alone.
SensorReads ==
    shown # NoReading =>
        IF Faulty(shown)
        THEN Visible(valueLine) = [i \in 1..6 |-> ErrorCell]
        ELSE longest <= Len(FormatTemp(shown.temp)) + 3 =>
                 /\ WellFormed(Visible(valueLine))
                 /\ Hundredths(Visible(valueLine)) = 25 * shown.temp

\* The power's line reads as the level announced last, whether its number has
\* fewer digits than the one before or more.
LevelReads ==
    level # 0 =>
        LET text == Visible(levelLine)
        IN  /\ text[Len(text)] = Percent
            /\ \A i \in 1..(Len(text) - 1) : text[i] \in Figures
            /\ Number(text) = level

\* The screen says what the display task was told last (UserTasks.c:250-285),
\* on the sensor's line and on the power's.
ScreenReads == SensorReads /\ LevelReads
=============================================================================
