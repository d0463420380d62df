-------------------------- MODULE NvmConfigProofs --------------------------
(***************************************************************************)
(* Proofs about the configuration row, for every set of levels and every   *)
(* number of attempts.                                                     *)
(*                                                                         *)
(* The inductive invariant is NvmInv.  Sealed says what the copy in RAM    *)
(* holds at each place of writeNvmUserConfig; RowsAgree, that the row and  *)
(* the page being programmed are, when they are anything, the image of the *)
(* last level accepted; Returned, what a result of TRUE promises.          *)
(***************************************************************************)
EXTENDS NvmConfig, TLAPS

\* From the seal to the write the copy in RAM is the image of its level.
Sealed == pc \in {"configure", "erase", "write"} => ram = Image(ram.power)

\* The row and the page hold the level accepted last or nothing, and what is
\* to be programmed finds the row erased.
RowsAgree ==
    /\ row # Blank => row = Image(accepted)
    /\ Busy => page = Image(accepted) /\ row = Blank
    /\ pc = "write" => row = Blank /\ ~Busy

\* Having returned TRUE, the level accepted is the one in RAM, and its page
\* is on its way, in the row, or went wrong.
Returned ==
    pc = "idle" /\ result =>
        /\ accepted = ram.power
        /\ Busy \/ flawed \/ row = Image(accepted)

NvmInv == TypeOK /\ Sealed /\ RowsAgree /\ Returned

Crcs == {NoCrc} \cup {Crc(i) : i \in Images}

Configs == [magic : {TRUE}, power : Levels, crc : Crcs]

---------------------------------------------------------------------------
\* An image is a configuration, checks, and tells its level.
LEMMA ImageLemma ==
    ASSUME NEW l \in Levels
    PROVE  /\ Image(l) \in Images /\ Image(l) \in Configs
           /\ Image(l) # Blank /\ Image(l) # NoPage
           /\ Image(l).power = l /\ Checks(Image(l))
<1>1. Image(l) \in Images /\ Image(l) # Blank /\ Image(l) # NoPage
  BY RowAssumption DEF Images
<1>2. Image(l).magic = TRUE /\ Image(l).power = l
      /\ Image(l).crc = Crc(Image(l))
  BY DEF Image, Crc
<1>3. Image(l) \in Configs
  <2>1. Crc(Image(l)) \in Crcs
    BY <1>1 DEF Crcs
  <2>2. [magic |-> TRUE, power |-> l, crc |-> Crc(Image(l))] \in Configs
    BY <2>1 DEF Configs
  <2>3. Image(l) = [magic |-> TRUE, power |-> l, crc |-> Crc(Image(l))]
    BY DEF Image, Crc
  <2> QED
    BY <2>2, <2>3
<1> QED
  BY <1>1, <1>2, <1>3 DEF Checks

\* What a restart reads from the row is a configuration with a level.
LEMMA RestoredLemma ==
    ASSUME NEW r \in Images \cup {Blank}
    PROVE  /\ Restored(r) \in Configs
           /\ r # Blank => Checks(r) /\ Restored(r) = r
<1>1. CASE r = Blank
  <2>1. Restored(r) = Default
    BY <1>1 DEF Restored, Checks
  <2>2. Default \in Configs
    BY DefaultAssumption DEF Default, Configs, Crcs
  <2> QED
    BY <1>1, <2>1, <2>2
<1>2. CASE r # Blank
  <2>1. PICK l \in Levels : r = Image(l)
    BY <1>2 DEF Images
  <2> QED
    BY <2>1, ImageLemma DEF Restored
<1> QED
  BY <1>1, <1>2

\* Sealing a configuration makes it the image of its level.
LEMMA SealLemma ==
    ASSUME NEW c \in Configs
    PROVE  [magic |-> TRUE, power |-> c.power, crc |-> Crc(c)] = Image(c.power)
<1>1. c.magic \in {TRUE}
  BY Zenon DEF Configs
<1>2. c.magic = TRUE
  BY <1>1, Zenon
<1> QED
  BY <1>2 DEF Crc, Image

\* A loop starts with no failed attempt.
LEMMA ZeroTries == 0 \in 0..(Tries - 1)
BY TriesAssumption

---------------------------------------------------------------------------
\* The program starts, and starts again, in the invariant but for the row.
LEMMA InitNvmInv == Init => NvmInv
<1> SUFFICES ASSUME Init PROVE NvmInv
  OBVIOUS
<1> USE DEF Init
<1>1. ram \in Configs /\ row \in Images \cup {Blank}
  BY RestoredLemma
<1>2. ram.power \in Levels
  BY <1>1 DEF Configs
<1>3. TypeOK
  BY <1>1, <1>2, ZeroTries DEF TypeOK, Configs, Crcs
<1>4. row # Blank => row = Image(accepted)
  <2> SUFFICES ASSUME row # Blank PROVE row = Image(accepted)
    OBVIOUS
  <2>1. PICK l \in Levels : row = Image(l)
    BY <1>1 DEF Images
  <2>2. ram = Image(l)
    BY <1>1, <2>1, RestoredLemma
  <2> QED
    BY <2>1, <2>2, ImageLemma
<1>5. Sealed /\ RowsAgree /\ Returned
  BY <1>4 DEF Sealed, RowsAgree, Returned, Busy
<1> QED
  BY <1>3, <1>5 DEF NvmInv

\* A failed attempt leaves the loop with FALSE or counts up.
LEMMA FailLemma ==
    ASSUME TypeOK, Fail
    PROVE  /\ tries' \in 0..(Tries - 1)
           /\ \/ pc' = "idle" /\ ~result'
              \/ UNCHANGED <<pc, result>>
           /\ result' \in BOOLEAN
<1>1. tries \in 0..(Tries - 1) /\ result \in BOOLEAN
  BY DEF TypeOK
<1>2. CASE tries + 1 = Tries
  BY <1>1, <1>2 DEF Fail, Return
<1>3. CASE tries + 1 # Tries
  BY <1>1, <1>3, TriesAssumption DEF Fail
<1> QED
  BY <1>2, <1>3

\* writeNvmUserConfig's way to the erased row.
LEMMA PrepareNvmInv ==
    ASSUME NvmInv, ChangeLevel \/ Seal \/ Configure
    PROVE  NvmInv'
<1>1. TypeOK /\ Sealed /\ RowsAgree /\ Returned
  BY DEF NvmInv
<1>2. ram \in Configs
  BY <1>1 DEF TypeOK, Configs, Crcs
<1>3. UNCHANGED <<row, page, accepted, flawed, result>>
  BY DEF ChangeLevel, Seal, Configure, history
<1>4. CASE ChangeLevel
  <2>1. PICK l \in Levels : ram' = [ram EXCEPT !.power = l]
    BY <1>4 DEF ChangeLevel
  <2>2. ram' \in Configs
    BY <1>2, <2>1 DEF Configs
  <2>3. pc' = "seal" /\ UNCHANGED <<configured, tries>>
    BY <1>4 DEF ChangeLevel
  <2> QED
    BY <1>1, <1>3, <2>2, <2>3
       DEF NvmInv, TypeOK, Configs, Crcs, Sealed, RowsAgree, Returned, Busy
<1>5. CASE Seal
  <2>1. ram' = Image(ram.power)
    BY <1>2, <1>5, SealLemma DEF Seal
  <2>2. ram.power \in Levels
    BY <1>2 DEF Configs
  <2>3. ram' \in Configs /\ ram' = Image(ram'.power)
    BY <2>1, <2>2, ImageLemma
  <2>4. pc' = "configure" /\ UNCHANGED <<configured, tries>>
    BY <1>5 DEF Seal
  <2> QED
    BY <1>1, <1>3, <2>3, <2>4
       DEF NvmInv, TypeOK, Configs, Crcs, Sealed, RowsAgree, Returned, Busy
<1>6. CASE Configure
  <2>1. pc' = "erase" /\ pc = "configure" /\ tries' = 0 /\ UNCHANGED ram
        /\ configured' \in BOOLEAN
    BY <1>1, <1>6 DEF Configure, TypeOK
  <2> QED
    <3>1. TypeOK'
      BY <1>1, <1>3, <2>1, ZeroTries DEF TypeOK
    <3> QED
      BY <1>1, <1>3, <2>1, <3>1 DEF NvmInv, Sealed, RowsAgree, Returned, Busy
<1> QED
  BY <1>4, <1>5, <1>6

\* The attempts at erasing the row.
LEMMA EraseNvmInv ==
    ASSUME NvmInv, EraseRefused \/ EraseAborted \/ Erase
    PROVE  NvmInv'
<1>1. TypeOK /\ Sealed /\ RowsAgree /\ Returned
  BY DEF NvmInv
<1>2. UNCHANGED <<ram, page, configured, accepted, flawed>> /\ pc = "erase"
  BY DEF EraseRefused, EraseAborted, Erase, history
<1>3. CASE EraseRefused \/ EraseAborted
  <2>1. Fail /\ row' \in {row, Blank} /\ (row' = row \/ ~Busy)
    BY <1>3 DEF EraseRefused, EraseAborted
  <2>2. /\ tries' \in 0..(Tries - 1)
        /\ (pc' = "idle" /\ ~result') \/ UNCHANGED <<pc, result>>
        /\ result' \in BOOLEAN
    BY <1>1, <2>1, FailLemma
  <2> QED
    BY <1>1, <1>2, <2>1, <2>2
       DEF NvmInv, TypeOK, Sealed, RowsAgree, Returned, Busy
<1>4. CASE Erase
  <2>1. row' = Blank /\ pc' = "write" /\ tries' = 0 /\ UNCHANGED result /\ ~Busy
    BY <1>4 DEF Erase
  <2> QED
    <3>1. TypeOK'
      BY <1>1, <1>2, <2>1, ZeroTries DEF TypeOK
    <3> QED
      BY <1>1, <1>2, <2>1, <3>1 DEF NvmInv, Sealed, RowsAgree, Returned, Busy
<1> QED
  BY <1>3, <1>4

\* The write: the page taken is the image of the level in RAM.
LEMMA WriteNvmInv ==
    ASSUME NvmInv, Write
    PROVE  NvmInv'
<1>1. TypeOK /\ Sealed /\ RowsAgree /\ Returned
  BY DEF NvmInv
<1>2. pc = "write" /\ ~Busy /\ row = Blank /\ UNCHANGED <<ram, row, configured>>
  BY <1>1 DEF Write, RowsAgree
<1>3. page' = ram /\ accepted' = ram.power /\ flawed' = FALSE
      /\ pc' = "idle" /\ result' = TRUE /\ tries' = tries
  BY <1>2 DEF Write, Return
<1>4. ram.power \in Levels /\ ram = Image(ram.power)
  BY <1>1, <1>2 DEF TypeOK, Sealed
<1>5. page' \in Images /\ page' # NoPage /\ page' = Image(accepted')
  BY <1>3, <1>4, ImageLemma
<1> QED
  BY <1>1, <1>2, <1>3, <1>4, <1>5
     DEF NvmInv, TypeOK, Sealed, RowsAgree, Returned, Busy

\* The controller programs the page.
LEMMA ProgrammedNvmInv ==
    ASSUME NvmInv, Programmed
    PROVE  NvmInv'
<1>1. TypeOK /\ Sealed /\ RowsAgree /\ Returned
  BY DEF NvmInv
<1>2. /\ page' = NoPage /\ page \in Images /\ page = Image(accepted)
      /\ UNCHANGED <<ram, configured, pc, tries, result, accepted>>
      /\ pc # "write"
      /\ \/ row' = page /\ UNCHANGED flawed
         \/ row' = Blank /\ flawed' = TRUE
  BY <1>1 DEF Programmed, Busy, TypeOK, RowsAgree, local
<1>3. TypeOK'
  BY <1>1, <1>2 DEF TypeOK
<1>4. Sealed' /\ RowsAgree'
  BY <1>1, <1>2 DEF Sealed, RowsAgree, Busy
<1>5. Returned'
  BY <1>1, <1>2 DEF Returned
<1> QED
  BY <1>3, <1>4, <1>5 DEF NvmInv

\* A restart keeps the invariant: a row that checks still holds the level
\* accepted last.
LEMMA PowerFailureNvmInv ==
    ASSUME NvmInv, PowerFailure
    PROVE  NvmInv'
<1>1. TypeOK /\ Sealed /\ RowsAgree /\ Returned
  BY DEF NvmInv
<1>2. Restored(row) \in Configs
  BY <1>1, RestoredLemma DEF TypeOK
<1>3. ram' \in Configs
  BY <1>2 DEF PowerFailure
<1>4. TypeOK'
  BY <1>1, <1>3, ZeroTries DEF TypeOK, PowerFailure, Configs, Crcs, history
<1> QED
  BY <1>1, <1>4
     DEF NvmInv, Sealed, RowsAgree, Returned, Busy, PowerFailure, history

\* NvmInv is an invariant.
LEMMA NvmInvariant == Spec => []NvmInv
<1>1. NvmInv /\ [Next]_vars => NvmInv'
  <2>1. CASE UNCHANGED vars
    BY <2>1 DEF vars, local, history, NvmInv, TypeOK, Sealed, RowsAgree,
                Returned, Busy
  <2> QED
    BY <2>1, PrepareNvmInv, EraseNvmInv, WriteNvmInv, ProgrammedNvmInv,
       PowerFailureNvmInv DEF Next
<1> QED
  BY <1>1, InitNvmInv, PTL DEF Spec

---------------------------------------------------------------------------
\* Type correctness of the row, the page and writeNvmUserConfig.
THEOREM TypeCorrect == Spec => []TypeOK
<1>1. NvmInv => TypeOK
  BY DEF NvmInv
<1> QED
  BY <1>1, NvmInvariant, PTL

\* A row that checks never brings back a level older than the one written
\* last, whichever attempts failed and wherever the supply did.
THEOREM NeverRestoresAnOlderLevel == Spec => []NeverAnOlderLevel
<1>1. NvmInv => NeverAnOlderLevel
  <2> SUFFICES ASSUME NvmInv, Checks(row) PROVE row.power = accepted
    BY DEF NeverAnOlderLevel
  <2>1. row = Image(accepted)
    BY DEF NvmInv, RowsAgree, Checks
  <2> QED
    BY <2>1, ImageLemma DEF NvmInv, TypeOK
<1> QED
  BY <1>1, NvmInvariant, PTL

\* When the write was accepted and the controller is done with it, and it
\* did not go wrong, a restart finds the level in RAM.
THEOREM SavedIsAlwaysRestored == Spec => []SavedIsRestored
<1>1. NvmInv => SavedIsRestored
  <2> SUFFICES ASSUME NvmInv, pc = "idle", result, ~Busy, ~flawed
               PROVE  Checks(row) /\ Restored(row).power = ram.power
    BY DEF SavedIsRestored
  <2>1. accepted \in Levels /\ row = Image(accepted) /\ accepted = ram.power
    BY DEF NvmInv, TypeOK, Returned
  <2> QED
    BY <2>1, ImageLemma DEF Restored
<1> QED
  BY <1>1, NvmInvariant, PTL

\* A page is programmed into an erased row only.
THEOREM PagesMeetErasedRows == Spec => []PageOnErasedRow
<1>1. NvmInv => PageOnErasedRow
  BY DEF NvmInv, RowsAgree, PageOnErasedRow
<1> QED
  BY <1>1, NvmInvariant, PTL
============================================================================
