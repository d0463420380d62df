----------------------------- MODULE NvmConfig -----------------------------
(***************************************************************************)
(* The configuration row at the end of the flash: readNvmUserConfig at the *)
(* start, writeNvmUserConfig whenever the control task has a new level     *)
(* (NvmUserConfig.c), over the driver of the flash controller (nvm.c).     *)
(*                                                                         *)
(* The row is erased and then written; each is tried up to Tries times.    *)
(* The controller programs the page on its own after nvm_write_buffer has  *)
(* returned, is busy meanwhile, and nobody asks it later how it went.  The *)
(* supply may fail at any moment: a row half erased or half programmed     *)
(* does not check, and is Blank like an erased one.                        *)
(*                                                                         *)
(* The checksum is taken to be perfect: it stands for what it was          *)
(* calculated from.                                                        *)
(***************************************************************************)
EXTENDS Integers

CONSTANTS
    Levels,         \* the levels of the control task
    DefaultLevel,   \* CONFIG_DEFAULT_POWER_LEVEL (50)
    Tries,          \* attempts at erasing and at writing (10)
    Blank,          \* a row that does not check
    NoPage,         \* the controller programs nothing
    NoCrc           \* the crc32 field of the default configuration

ASSUME DefaultAssumption == DefaultLevel \in Levels
ASSUME TriesAssumption == Tries \in Nat \ {0}

\* The row writeNvmUserConfig writes for a level; magic tells whether the
\* field holds 'SMGN'.
Image(l) == [magic |-> TRUE, power |-> l, crc |-> [magic |-> TRUE, power |-> l]]

Images == {Image(l) : l \in Levels}

ASSUME RowAssumption == Blank \notin Images /\ NoPage \notin Images

VARIABLES
    ram,            \* g_appData.nvmUserConfig
    row,            \* the row in flash
    page,           \* what the controller is programming, or NoPage
    configured,     \* nvm_set_config succeeded since the start
    pc,             \* where the control task is in writeNvmUserConfig
    tries,          \* failed attempts of the loop it is in
    result,         \* what writeNvmUserConfig returned last
    accepted,       \* history: the level last taken by nvm_write_buffer
    flawed          \* history: that page's programming went wrong

local   == <<pc, tries, result>>
history == <<accepted, flawed>>
vars    == <<ram, row, page, configured, local, history>>

\* What the checksum is calculated from.
Crc(config) == [magic |-> config.magic, power |-> config.power]

Checks(r) == r # Blank /\ r.crc = Crc(r) /\ r.magic

\* getDefaultNvmUserConfig
Default == [magic |-> TRUE, power |-> DefaultLevel, crc |-> NoCrc]

\* main: readNvmUserConfig, or the default when it returns false.
Restored(r) == IF Checks(r) THEN r ELSE Default

Init ==
    /\ row \in Images \cup {Blank}
    /\ ram = Restored(row)
    /\ page = NoPage
    /\ configured = FALSE
    /\ pc = "idle"
    /\ tries = 0
    /\ result = FALSE
    /\ accepted = ram.power
    /\ flawed = FALSE

---------------------------------------------------------------------------
Busy == page # NoPage

\* The control task stores a level that differs and calls writeNvmUserConfig.
ChangeLevel ==
    /\ pc = "idle"
    /\ \E l \in Levels \ {ram.power} : ram' = [ram EXCEPT !.power = l]
    /\ pc' = "seal"
    /\ UNCHANGED <<row, page, configured, tries, result, history>>

\* Fault: the checksum is left as it is.
SealMagicOnly ==
    /\ pc = "seal"
    /\ ram' = [ram EXCEPT !.magic = TRUE]
    /\ pc' = "configure"
    /\ UNCHANGED <<row, page, configured, tries, result, history>>

\* The checksum is calculated before magic is stored.
Seal ==
    /\ pc = "seal"
    /\ ram' = [magic |-> TRUE, power |-> ram.power, crc |-> Crc(ram)]
    /\ pc' = "configure"
    /\ UNCHANGED <<row, page, configured, tries, result, history>>

\* nvm_set_config, its STATUS_BUSY ignored.
Configure ==
    /\ pc = "configure"
    /\ configured' = (configured \/ ~Busy)
    /\ pc' = "erase"
    /\ tries' = 0
    /\ UNCHANGED <<ram, row, page, result, history>>

Return(r) ==
    /\ pc' = "idle"
    /\ result' = r
    /\ UNCHANGED tries

\* Fault: after the last attempt the function goes on.
FailGoesOn ==
    /\ IF tries + 1 = Tries
       THEN pc' = "write" /\ tries' = 0
       ELSE tries' = tries + 1 /\ UNCHANGED pc
    /\ UNCHANGED result

\* Another attempt, unless this was the last.
Fail ==
    IF tries + 1 = Tries
    THEN Return(FALSE)
    ELSE tries' = tries + 1 /\ UNCHANGED <<pc, result>>

\* nvm_erase_row: refused while the controller is busy, or the driver does
\* not know the size of the flash; aborted; or done.
EraseRefused ==
    /\ pc = "erase" /\ (Busy \/ ~configured)
    /\ Fail
    /\ UNCHANGED <<ram, row, page, configured, history>>

EraseAborted ==
    /\ pc = "erase" /\ ~Busy /\ configured
    /\ row' \in {row, Blank}
    /\ Fail
    /\ UNCHANGED <<ram, page, configured, history>>

\* Fault: the error flags are not looked at.
EraseUnverified ==
    /\ pc = "erase" /\ ~Busy /\ configured
    /\ row' \in {row, Blank}
    /\ pc' = "write"
    /\ tries' = 0
    /\ UNCHANGED <<ram, page, configured, result, history>>

Erase ==
    /\ pc = "erase" /\ ~Busy /\ configured
    /\ row' = Blank
    /\ pc' = "write"
    /\ tries' = 0
    /\ UNCHANGED <<ram, page, configured, result, history>>

\* nvm_write_buffer: refused while the controller is busy, or the page is
\* copied, which starts its programming.
Write ==
    /\ pc = "write"
    /\ IF Busy
       THEN Fail /\ UNCHANGED <<page, history>>
       ELSE /\ Return(TRUE)
            /\ page' = ram
            /\ accepted' = ram.power
            /\ flawed' = FALSE
    /\ UNCHANGED <<ram, row, configured>>

---------------------------------------------------------------------------
\* The controller is done with the page, well or badly.
Programmed ==
    /\ Busy
    /\ page' = NoPage
    /\ \/ row' = page /\ UNCHANGED flawed
       \/ row' = Blank /\ flawed' = TRUE
    /\ UNCHANGED <<ram, configured, local, accepted>>

\* The supply fails, and the program starts again.  In the middle of erasing
\* or programming it leaves a row that does not check, which Erase and Write
\* left already.
PowerFailure ==
    /\ ram' = Restored(row)
    /\ page' = NoPage
    /\ configured' = FALSE
    /\ pc' = "idle"
    /\ tries' = 0
    /\ result' = FALSE
    /\ UNCHANGED <<row, history>>

Next ==
    \/ ChangeLevel \/ Seal \/ Configure
    \/ EraseRefused \/ EraseAborted \/ Erase \/ Write
    \/ Programmed \/ PowerFailure

Spec == Init /\ [][Next]_vars

---------------------------------------------------------------------------
TypeOK ==
    /\ ram \in [magic : {TRUE}, power : Levels,
               crc : {NoCrc} \cup {Crc(i) : i \in Images}]
    /\ row \in Images \cup {Blank}
    /\ page \in Images \cup {NoPage}
    /\ configured \in BOOLEAN
    /\ pc \in {"idle", "seal", "configure", "erase", "write"}
    /\ tries \in 0..(Tries - 1)
    /\ result \in BOOLEAN
    /\ accepted \in Levels
    /\ flawed \in BOOLEAN

\* "the last power level set by the user" (NvmUserConfig.h): when
\* writeNvmUserConfig returned true and the controller is done, and did not
\* go wrong, a restart finds the level the control task has.  (The checksum
\* is calculated before the magic is stored, and the page is programmed
\* after the function has returned.)
SavedIsRestored ==
    (pc = "idle" /\ result /\ ~Busy /\ ~flawed) =>
        Checks(row) /\ Restored(row).power = ram.power

\* A row that checks never brings back a level older than the last one that
\* writeNvmUserConfig wrote, whichever attempts failed and wherever the
\* supply did: it is that level or no row at all.
NeverAnOlderLevel == Checks(row) => row.power = accepted

\* A page is programmed into an erased row only, though the loops give up
\* and the controller may still be busy with the page before.
PageOnErasedRow == Busy => row = Blank
===========================================================================
