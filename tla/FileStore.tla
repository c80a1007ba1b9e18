----------------------------- MODULE FileStore -----------------------------
(***************************************************************************)
(* What a host stores on the device by system exclusive messages: files    *)
(* (sysex::Protocol on StandardFileOps), the kit read from one of them     *)
(* (ConfigurationManager), settings (SettingsManager), and the format of   *)
(* it all.  The flash may refuse to open or to write, and the power may    *)
(* fail.                                                                   *)
(*                                                                         *)
(* A byte is known by its transfer and its place in it.  A message carries *)
(* whole groups, as its encoding does.  littlefs is external: a file that  *)
(* is open for writing is stored when it is closed, and what a reader or a *)
(* restart finds of it before that is the old file or what there is.       *)
(***************************************************************************)
EXTENDS Naturals, Sequences, SequencesExt

CONSTANTS
    Kit, Others,      \* /kit.bin, and other files
    BlockSize,        \* of the write buffer: 256
    GroupSize,        \* decoded bytes of an encoded group: 7
    KitSize,          \* of a whole kit, a block
    Values, Default,  \* of a setting
    Missing, Factory, Nothing,
    MaxTransfers, MaxGroups, MaxRefusals   \* bounds: transfers, groups in one, failures

ASSUME BlockAssumption == GroupSize \in Nat \ {0} /\ BlockSize \in Nat /\ GroupSize <= BlockSize
ASSUME KitAssumption == KitSize \in 1..BlockSize
ASSUME ValueAssumption == Default \in Values
ASSUME LimitAssumption == {MaxTransfers, MaxGroups, MaxRefusals} \subseteq Nat

VARIABLES
    files,        \* in the flash
    mounted,      \* there is a filesystem to open files of
    directory,    \* /settings, and the file of the setting
    factoryKit,   \* /factory_kit.bin is there
    protocol,     \* its state: Idle or FileTransfer
    opened,       \* opened_file, and what has been written to it
    write_buffer,
    received,     \* new_file_received_
    config, setting,   \* in RAM
    host,         \* transfers so far and groups sent in the last
    faults,
    told          \* history: the bytes acknowledged since the transfer began, the
                  \* setting acknowledged last, and whether the flash took it

fileVars == <<files, mounted, directory, factoryKit, protocol, opened, write_buffer, received, config, setting,
              host, faults, told>>

-----------------------------------------------------------------------------
Files == {Kit} \cup Others
Byte(n, i) == <<n, i>>
Group(g) == [i \in 1..GroupSize |-> Byte(host.transfers, (g - 1) * GroupSize + i)]

\* The file being written, its buffer, and how many more writes succeed.
Writing(good) == [written |-> opened.written, buffer |-> write_buffer, good |-> good, ok |-> TRUE]

\* flush_write_buffer: fwrite takes all bytes, or not, and those that were not
\* all taken stay in the buffer.
Flushed(w) ==
    IF w.buffer = <<>> \/ ~w.ok THEN w
    ELSE IF w.good = 0 THEN [w EXCEPT !.ok = FALSE, !.written = @ \o Front(w.buffer)]
    ELSE [w EXCEPT !.written = @ \o w.buffer, !.buffer = <<>>, !.good = @ - 1]

IfFull(w) == IF Len(w.buffer) = BlockSize THEN Flushed(w) ELSE w

\* decode_8_to_7: a group for which there is no room is decoded as far as it
\* goes, and, not having been consumed, once more after the flush.
Decoded(w, group) ==
    LET room == BlockSize - Len(w.buffer)
        once == IfFull([w EXCEPT !.buffer = @ \o SubSeq(group, 1, room)])
    IN IF ~w.ok THEN w
       ELSE IF room >= GroupSize THEN IfFull([w EXCEPT !.buffer = @ \o group])
       ELSE IF once.ok THEN IfFull([once EXCEPT !.buffer = group]) ELSE once

\* The next n groups of a message, one by one, and their bytes.
Fed(w, n) ==
    LET after[i \in 0..n] ==
           IF i = 0 THEN w ELSE Decoded(after[i - 1], Group(host.groups + i))
    IN after[n]

Bytes(n) == [i \in 1..n * GroupSize |-> Byte(host.transfers, host.groups * GroupSize + i)]

NoFile == [name |-> Nothing, valid |-> FALSE, written |-> <<>>]

\* How many writes succeed: all of them, none of a file that is not open, or
\* fewer if the flash refuses.
Enough == MaxGroups * GroupSize
Good == IF ~opened.valid THEN {0} ELSE {Enough} \cup (IF faults < MaxRefusals THEN {0, 1} ELSE {})
Faulty(w) == faults' = IF w.ok \/ ~opened.valid THEN faults ELSE faults + 1

\* The file is closed, with what has been written to it.
Closed(written) == IF opened.valid THEN [files EXCEPT ![opened.name] = written] ELSE files
Close(written) == opened' = NoFile /\ files' = Closed(written)

UnchangedRam == UNCHANGED <<config, setting>>
UnchangedSettings == UNCHANGED <<mounted, directory, factoryKit>>

-----------------------------------------------------------------------------
(* The protocol *)

\* Mutant: what the last transfer left in the buffer stays there.
OpensKeeping(f, valid) ==
    /\ protocol' = "FileTransfer"
    /\ opened' = [name |-> f, valid |-> valid, written |-> <<>>]
    /\ UNCHANGED write_buffer

\* A file that cannot be opened is not noticed (File::is_valid): the transfer
\* begins and is acknowledged all the same.
Opens(f, valid) ==
    /\ protocol' = "FileTransfer"
    /\ opened' = [name |-> f, valid |-> valid, written |-> <<>>]
    /\ write_buffer' = <<>>

\* handle_begin_file_write.  A transfer in progress is ended.  A path that is
\* refused leaves the state as it is.
Begin ==
    /\ host.transfers < MaxTransfers
    /\ host' = [transfers |-> host.transfers + 1, groups |-> 0]
    /\ told' = [told EXCEPT !.bytes = <<>>]
    /\ \E good \in Good :
          LET w == IF protocol = "Idle" THEN Writing(good) ELSE Flushed(Writing(good))
              failed == IF w.ok \/ ~opened.valid THEN faults ELSE faults + 1
          IN /\ files' = Closed(w.written)
             /\ \/ /\ opened' = NoFile /\ write_buffer' = w.buffer /\ faults' = failed
                   /\ UNCHANGED protocol
                \/ \E f \in Files :
                      \/ mounted /\ Opens(f, TRUE) /\ faults' = failed
                      \/ mounted /\ Opens(f, FALSE) /\ failed < MaxRefusals /\ faults' = failed + 1
                      \/ ~mounted /\ Opens(f, FALSE) /\ faults' = failed
    /\ UNCHANGED received /\ UnchangedRam /\ UnchangedSettings

\* handle_file_bytes_fast
FileBytes ==
    /\ host.groups < MaxGroups
    /\ \E n \in 1..MaxGroups - host.groups :
          /\ host' = [host EXCEPT !.groups = @ + n]
          /\ IF protocol = "Idle"
             THEN UNCHANGED <<files, protocol, opened, write_buffer, told, faults>>
             ELSE IF opened = NoFile
             THEN protocol' = "Idle" /\ UNCHANGED <<files, opened, write_buffer, told, faults>>
             ELSE \E good \in Good :
                     LET w == Fed(Writing(good), n) IN
                     /\ write_buffer' = w.buffer /\ Faulty(w)
                     /\ IF w.ok
                        THEN /\ opened' = [opened EXCEPT !.written = w.written]
                             /\ told' = [told EXCEPT !.bytes = @ \o Bytes(n)]
                             /\ UNCHANGED <<files, protocol>>
                        ELSE protocol' = "Idle" /\ Close(w.written) /\ UNCHANGED told
    /\ UNCHANGED received /\ UnchangedRam /\ UnchangedSettings

\* Mutant: what is in the buffer is left there.
EndUnflushed ==
    /\ protocol = "FileTransfer" /\ protocol' = "Idle" /\ received' = TRUE
    /\ Close(opened.written)
    /\ UNCHANGED <<host, told, write_buffer, faults>> /\ UnchangedRam /\ UnchangedSettings

\* EndFileTransfer: acknowledged whether the last write was taken or not.
EndFileTransfer ==
    /\ protocol = "FileTransfer" /\ protocol' = "Idle" /\ received' = TRUE
    /\ \E good \in Good :
          LET w == Flushed(Writing(good)) IN
          write_buffer' = w.buffer /\ Faulty(w) /\ Close(w.written)
    /\ UNCHANGED <<host, told>> /\ UnchangedRam /\ UnchangedSettings

check_timeout ==
    /\ protocol = "FileTransfer" /\ protocol' = "Idle"
    /\ \E good \in Good :
          LET w == Flushed(Writing(good)) IN
          write_buffer' = w.buffer /\ Faulty(w) /\ Close(w.written)
    /\ UNCHANGED <<host, told, received>> /\ UnchangedRam /\ UnchangedSettings

\* A tag that is not known ends a transfer as it is.
UnknownMessage ==
    /\ protocol = "FileTransfer" /\ protocol' = "Idle"
    /\ Close(opened.written)
    /\ UNCHANGED <<host, told, received, write_buffer, faults>> /\ UnchangedRam /\ UnchangedSettings

\* Everything goes, the directory of the settings with it, whether the format
\* and the mount that follows it come to their end or not.
format_filesystem(done) ==
    /\ files' = [f \in Files |-> Missing] /\ mounted' = done
    /\ directory' = [there |-> FALSE, value |-> Missing] /\ factoryKit' = FALSE
    /\ told' = [told EXCEPT !.value = Missing]

\* Filesystem::format: done, broken off, or refused before anything is changed.
format ==
    \/ format_filesystem(TRUE) /\ UNCHANGED faults
    \/ /\ faults < MaxRefusals /\ faults' = faults + 1
       /\ \/ format_filesystem(FALSE)
          \/ UNCHANGED <<files, told>> /\ UnchangedSettings

FormatFilesystem ==
    /\ protocol = "Idle" /\ format
    /\ UNCHANGED <<protocol, opened, write_buffer, received, host>> /\ UnchangedRam

-----------------------------------------------------------------------------
(* ConfigurationManager *)

\* load, of the content found: the kit if it is whole, else the factory's, if it
\* is there, else the one in RAM.
Loaded(content, kept, ram) ==
    IF content # Missing /\ Len(content) >= KitSize THEN SubSeq(content, 1, KitSize)
    ELSE IF kept THEN Factory ELSE ram

\* What a reader finds of a file: the old one, or what has been written to it.
Found(f) == {files[f]} \cup (IF opened.valid /\ opened.name = f THEN {opened.written} ELSE {})

\* SysExHandler::update, after a file has come.
Update ==
    /\ received /\ received' = FALSE
    /\ \E content \in Found(Kit) : config' = Loaded(content, factoryKit, config)
    /\ UNCHANGED <<files, protocol, opened, write_buffer, setting, host, faults, told>> /\ UnchangedSettings

-----------------------------------------------------------------------------
(* SettingsManager *)

\* A setting without a file has its default.
load_one(value) == IF value = Missing THEN Default ELSE value

\* set: RAM first.  Where the file cannot be opened, for want of its directory
\* if not otherwise, the host is told so; that the byte is refused shows only
\* when the file is closed, where nobody looks: it is acknowledged.
Persist(v) ==
    /\ setting' = v
    /\ \/ /\ directory.there /\ UNCHANGED faults
          /\ directory' = [directory EXCEPT !.value = v]
          /\ told' = [told EXCEPT !.value = v, !.taken = TRUE]
       \/ /\ directory.there /\ faults < MaxRefusals /\ faults' = faults + 1
          /\ \/ /\ directory' \in {directory, [directory EXCEPT !.value = Missing]}
                /\ told' = [told EXCEPT !.value = v, !.taken = FALSE]
             \/ told' = [told EXCEPT !.value = Missing] /\ UNCHANGED directory
       \/ ~directory.there /\ told' = [told EXCEPT !.value = Missing] /\ UNCHANGED <<directory, faults>>

SetSetting ==
    /\ \E v \in Values : Persist(v)
    /\ UNCHANGED <<files, mounted, factoryKit, protocol, opened, write_buffer, received, config, host>>

-----------------------------------------------------------------------------
\* What littlefs has after the power failed: a file that was open is as it was
\* or as it is so far.
Survives ==
    /\ files' \in {files} \cup
          (IF opened.valid THEN {[files EXCEPT ![opened.name] = opened.written]} ELSE {})
    /\ mounted' = TRUE /\ directory' = [directory EXCEPT !.there = TRUE]
    /\ UNCHANGED <<factoryKit, told, faults>>

\* Filesystem::init, where it finds nothing to mount, since the power failed
\* during a format or one was broken off: it formats, which may fail again.
FormatsAgain(done) ==
    /\ protocol = "Idle" \/ ~mounted
    /\ files' = [f \in Files |-> Missing] /\ mounted' = done
    /\ directory' = [there |-> done, value |-> Missing] /\ factoryKit' = FALSE
    /\ told' = [told EXCEPT !.value = Missing]
    /\ IF done THEN UNCHANGED faults ELSE faults < MaxRefusals /\ faults' = faults + 1

\* main(), before its loop: the kit and the settings are loaded, and the
\* directory of the settings is made, if there is a filesystem.
PowerFails ==
    /\ protocol' = "Idle" /\ opened' = NoFile /\ write_buffer' = <<>> /\ received' = FALSE
    /\ Survives \/ \E done \in BOOLEAN : FormatsAgain(done)
    /\ config' = Loaded(files'[Kit], factoryKit', Nothing)
    /\ setting' = load_one(directory'.value)
    /\ UNCHANGED host

FileInit ==
    /\ files = [f \in Files |-> Missing] /\ mounted = TRUE
    /\ directory = [there |-> TRUE, value |-> Missing] /\ factoryKit \in BOOLEAN
    /\ protocol = "Idle" /\ opened = NoFile /\ write_buffer = <<>> /\ received = FALSE
    /\ config = IF factoryKit THEN Factory ELSE Nothing
    /\ setting = Default
    /\ host = [transfers |-> 0, groups |-> 0] /\ faults = 0
    /\ told = [bytes |-> <<>>, value |-> Missing, taken |-> FALSE]

FileNext ==
    \/ Begin \/ FileBytes \/ EndFileTransfer \/ check_timeout \/ UnknownMessage \/ FormatFilesystem
    \/ Update \/ SetSetting \/ PowerFails

FileSpec == FileInit /\ [][FileNext]_fileVars

-----------------------------------------------------------------------------
(* Properties *)

FileTypeOK ==
    /\ \A f \in Files : files[f] = Missing \/ Len(files[f]) <= 2 * MaxGroups * GroupSize
    /\ protocol \in {"Idle", "FileTransfer"} /\ (directory.there => mounted)
    /\ opened.name \in Files \cup {Nothing} /\ Len(write_buffer) <= BlockSize
    /\ setting \in Values /\ faults \in 0..MaxRefusals

\* Bytes of one transfer, none missing between the first and the last.
OnePiece(content) ==
    \A i \in DOMAIN content :
       IF i = 1 THEN content[1][2] = 1
       ELSE content[i][1] = content[1][1] /\ content[i][2] <= content[i - 1][2] + 1

\* Whichever transfers are cut short by another, a timeout, an unknown message,
\* a refusing flash or the power, no file mixes two of them or has a gap, what
\* is in the buffer goes to its own file, and the kit in use is never part of
\* one: it is the factory's, or the first block of one transfer.
NoMixture ==
    /\ \A f \in Files : files[f] # Missing => OnePiece(files[f])
    /\ config \in {Factory, Nothing}
          \cup {[i \in 1..KitSize |-> Byte(n, i)] : n \in 1..MaxTransfers}

\* The end of a transfer leaves the flash with the bytes acknowledged: none is
\* missing and the first block is as it was sent, a file shorter than one
\* altogether.  (A longer one may have bytes twice: FileAsSent.)
WholeFile(sent, kept) ==
    /\ ToSet(sent) = ToSet(kept)
    /\ \A i \in 1..BlockSize : i \in DOMAIN sent => kept[i] = sent[i]
    /\ Len(sent) < BlockSize => kept = sent

\* What the flash has taken is stored, over other transfers, formats that are
\* broken off and power failures: a transfer that comes to its end, if its file
\* could be opened and no write of the end was refused; and a setting whose
\* byte was taken, until it is overtaken or formatted away, in RAM and, for a
\* restart, in the flash.  What is not taken is acknowledged all the same:
\* BeginMeansOpen and SettingIsPersisted are about that.
TakenIsStored ==
    [][/\ EndFileTransfer /\ opened.valid /\ faults' = faults
             => WholeFile(told.bytes, files'[opened.name])
       /\ told'.value # Missing /\ told'.taken
             => setting' = told'.value /\ directory'.value = told'.value]_fileVars

\* drum/README.md:183 has the device write the data of each chunk: the file is
\* what was sent.
FileAsSent ==
    [][EndFileTransfer /\ opened.valid /\ faults' = faults
          => told.bytes = files'[opened.name]]_fileVars

\* drum/README.md:178 has the beginning of a transfer acknowledged on success,
\* and refused otherwise: a transfer in progress has its file.
BeginMeansOpen == protocol = "FileTransfer" /\ opened # NoFile => opened.valid

\* drum/README.md:366-367 has a setting acknowledged on success, and failures to
\* persist it refused: the one acknowledged last is what a restart loads.
SettingIsPersisted == told.value # Missing => load_one(directory.value) = told.value

\* What is acknowledged has succeeded, as both of them have it.
AckMeansSuccess == BeginMeansOpen /\ SettingIsPersisted
=============================================================================
