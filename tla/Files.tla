------------------------------- MODULE Files -------------------------------
(***************************************************************************)
(* KaguFS on one partition of one disk: the disk image, which the emulator *)
(* rewrites whole for every block that is written, the header that lists   *)
(* the files with their chunks of blocks, and the descriptors.             *)
(*                                                                         *)
(* A call of the file system is one step: it runs inside one system call,  *)
(* the loader or the boot, none of which is preempted.  Any program may    *)
(* use any descriptor, in any order.  The emulator may be stopped at any   *)
(* time, in the middle of a rewrite too, and started again.                *)
(*                                                                         *)
(* A block holds the entry of a file (written as the file itself), a line  *)
(* of Data, the empty line, a mark of the file system, or what a rewrite   *)
(* that was cut short left of a line.                                      *)
(***************************************************************************)
EXTENDS Integers, Sequences, SequencesExt

CONSTANTS
    File,       \* the files of the partition
    Data,       \* the lines that programs write
    Blank,      \* ""
    Mark,       \* the block count, FS_HEADER and FS_HEADER_END
    Torn,       \* part of a line
    Lost,       \* no line at all
    NoFile,     \* the file of a free descriptor
    BlockCount, \* what line 1 of the image says
    Header,     \* the partition's blocks up to FIRST_USABLE_BLOCK, block 1 too
    Chunks,     \* for each file its chunks, <<first block, last block>>
    MaxFd,      \* sys_fs_desc_max_count
    Lines       \* the line numbers that programs ask for

FirstUsable == Len(Header) + 1
FsHeader    == 2

\* Headers and chunks as copy_file_to_disk.sh and section 5.3 of the
\* repository's README lay them out: one entry for each file, before the mark
\* that ends the header, and free blocks for each chunk
ASSUME FilesConstants ==
    /\ MaxFd \in Nat \ {0}
    /\ BlockCount \in Nat /\ FirstUsable <= BlockCount
    /\ Header \in Seq(File \cup {Blank, Mark})
    /\ Header[1] = Mark /\ Header[FsHeader] = Mark
    /\ \A f \in File : \E b \in FsHeader + 1 .. Len(Header) :
          /\ Header[b] = f
          /\ \A c \in FsHeader + 1 .. b - 1 : Header[c] # Mark
          /\ \A c \in DOMAIN Header : Header[c] = f => c = b
    /\ Chunks \in [File -> Seq((FirstUsable .. BlockCount) \X (FirstUsable .. BlockCount))]
    /\ \A f \in File : \A i \in DOMAIN Chunks[f] : Chunks[f][i][1] <= Chunks[f][i][2]
    /\ \A f, g \in File : \A i \in DOMAIN Chunks[f], j \in DOMAIN Chunks[g] :
          <<f, i>> = <<g, j>> \/ Chunks[f][i][2] < Chunks[g][j][1]
                             \/ Chunks[g][j][2] < Chunks[f][i][1]

\* What a block holds can be told apart
ASSUME FilesContents ==
    /\ Mark \notin File /\ Blank \notin File /\ NoFile \notin File
    /\ {Torn, Lost} \cap (File \cup Data \cup {Blank, Mark}) = {}
    /\ Torn # Lost

VARIABLES
    disk,   \* the lines of the image
    desc,   \* the descriptors: the block of a file's entry, and its size
    up,     \* the emulator runs
    result  \* REG_ERROR and REG_RES of the last call: lines, or a descriptor

vars == <<disk, desc, up, result>>

Fd      == 0 .. MaxFd - 1
Closed  == [hdr |-> 0, size |-> 0]      \* the string "0"
Content == File \cup Data \cup {Blank, Mark, Torn}

Ok(v) == [ok |-> TRUE, val |-> v]
Error == [ok |-> FALSE, val |-> <<>>]

-----------------------------------------------------------------------------
(* The disk *)

\* Disk::readBlock and Disk::writeBlock accept block b
Readable(b) == b >= 1 /\ b <= BlockCount /\ b <= Len(disk)
Writable(b) == disk # <<>> /\ b >= 2 /\ b < BlockCount

\* Mutant of Rewritten: the image is opened for appending
RewrittenAtEnd(b, v) == disk \o [disk EXCEPT ![b] = v]

\* The image that writeBlock puts in the place of the old one
Rewritten(b, v) ==
    [i \in 1 .. IF b > Len(disk) THEN b ELSE Len(disk) |->
        IF i = b THEN v ELSE IF i <= Len(disk) THEN disk[i] ELSE Blank]

\* What a stop can leave of it: nothing, some lines, some lines and a part of
\* the next one (the first line goes out with the first buffer)
CutShort(image) ==
    {SubSeq(image, 1, k) : k \in 0 .. Len(image)} \cup
    {Append(SubSeq(image, 1, k), Torn) : k \in 1 .. Len(image) - 1}

-----------------------------------------------------------------------------
(* Headers, sizes and lines *)

\* Mutant of ChunkSize: no increment
ChunkSizeLess(c) == c[2] - c[1]

ChunkSize(c) == c[2] - c[1] + 1

\* The number of lines in the first i chunks of a file, and in all
Upto ==
    [f \in File |->
        LET upto[i \in 0 .. Len(Chunks[f])] ==
                IF i = 0 THEN 0 ELSE upto[i - 1] + ChunkSize(Chunks[f][i])
        IN  upto]

CalcSize(f) == Upto[f][Len(Chunks[f])]      \* sys_fs_helper_calc_size

\* Mutant of LineToBlock: CMP_LT for CMP_LE
LineToBlockLess(f, n) ==
    LET found == {i \in DOMAIN Chunks[f] : n < Upto[f][i]}
        i     == CHOOSE j \in found : \A k \in found : j <= k
    IN  IF found = {} THEN 0 ELSE Chunks[f][i][1] + (n - Upto[f][i - 1]) - 1

\* sys_fs_helper_file_line_to_block: the block of line n, 0 if there is none
LineToBlock(f, n) ==
    LET found == {i \in DOMAIN Chunks[f] : n <= Upto[f][i]}
        i     == CHOOSE j \in found : \A k \in found : j <= k
    IN  IF found = {} THEN 0 ELSE Chunks[f][i][1] + (n - Upto[f][i - 1]) - 1

\* The block where sys_fs_open finds the entry of f: the scan starts after
\* FS_HEADER and ends at FS_HEADER_END or at a block that cannot be read
Entries(f) ==
    {b \in FsHeader + 1 .. FirstUsable - 1 :
        /\ Readable(b) /\ disk[b] = f
        /\ disk[FsHeader] = Mark
        /\ \A c \in FsHeader + 1 .. b - 1 : disk[c] \notin {f, Mark}}

FreeFd == {fd \in Fd : desc[fd] = Closed}

Openable(f) == Entries(f) # {} /\ FreeFd # {}

\* The block that sys_fs_read and sys_fs_write come to for line n of
\* descriptor fd, 0 for an error: the size is the one found by sys_fs_open,
\* the entry is read again
Target(fd, n) ==
    LET hdr == desc[fd].hdr
    IN  IF n > desc[fd].size \/ ~Readable(hdr) \/ disk[hdr] \notin File THEN 0
        ELSE LineToBlock(disk[hdr], n)

-----------------------------------------------------------------------------
(* The calls *)

\* The emulator ends, and with it RAM and the registers
PowerOff ==
    /\ up' = FALSE
    /\ desc' = [fd \in Fd |-> Closed]
    /\ result' = Error

Open(f) ==
    /\ up
    /\ \/ /\ Openable(f)
          /\ \E fd \in FreeFd, b \in Entries(f) :
                /\ \A d \in FreeFd : fd <= d
                /\ desc' = [desc EXCEPT ![fd] = [hdr |-> b, size |-> CalcSize(f)]]
                /\ result' = Ok(<<fd>>)
       \/ /\ ~Openable(f)
          /\ result' = Error
          /\ UNCHANGED desc
    /\ UNCHANGED <<disk, up>>

Close(fd) ==
    /\ up
    /\ desc' = [desc EXCEPT ![fd] = Closed]
    /\ result' = Ok(<<>>)
    /\ UNCHANGED <<disk, up>>

\* close, read or write with a descriptor that is not below MaxFd
BadDescriptor ==
    /\ up
    /\ result' = Error
    /\ UNCHANGED <<disk, desc, up>>

\* read or write with a descriptor that is closed: the size is "", which
\* execCmpLt cannot convert, and std::invalid_argument ends the emulator
ClosedDescriptor ==
    /\ up
    /\ FreeFd # {}
    /\ PowerOff
    /\ UNCHANGED disk

Read(fd, n) ==
    /\ up
    /\ desc[fd] # Closed
    /\ result' = LET b == Target(fd, n)
                 IN  IF Readable(b) THEN Ok(<<disk[b]>>) ELSE Error
    /\ UNCHANGED <<disk, desc, up>>

Write(fd, n, v) ==
    /\ up
    /\ desc[fd] # Closed
    /\ LET b == Target(fd, n)
       IN  \/ /\ Writable(b)
              /\ disk' = Rewritten(b, v)
              /\ result' = Ok(<<>>)
           \/ /\ ~Writable(b)
              /\ UNCHANGED disk
              /\ result' = Error
    /\ UNCHANGED <<desc, up>>

\* What sys_sched_process_load and sys_read_config do with a file: open it,
\* read it line by line until an error, which they take for its end, close it
ReadAll(f) ==
    LET block(n) == LineToBlock(f, n)
        end      == CHOOSE m \in 0 .. CalcSize(f) :
                        /\ \A n \in 1 .. m : Readable(block(n))
                        /\ m = CalcSize(f) \/ ~Readable(block(m + 1))
    IN  /\ up
        /\ result' = IF Openable(f)
                     THEN Ok([n \in 1 .. end |-> disk[block(n)]])
                     ELSE Error
        /\ UNCHANGED <<disk, desc, up>>

\* The emulator is stopped while it rewrites the image
StopInWrite(v) ==
    /\ up
    /\ \E b \in {Target(fd, n) : fd \in Fd \ FreeFd, n \in Lines} :
          /\ Writable(b)
          /\ disk' \in CutShort(Rewritten(b, v))
    /\ PowerOff

Stop ==
    /\ up
    /\ PowerOff
    /\ UNCHANGED disk

\* RAM starts from zero
Boot ==
    /\ ~up
    /\ up' = TRUE
    /\ UNCHANGED <<disk, desc, result>>

-----------------------------------------------------------------------------
\* The blocks of a file in the order of its lines: its chunks concatenated
BlocksOf ==
    [f \in File |->
        FlattenSeq([i \in DOMAIN Chunks[f] |->
            [k \in 1 .. Chunks[f][i][2] - Chunks[f][i][1] + 1 |->
                Chunks[f][i][1] + k - 1]])]

Used == UNION {Range(BlocksOf[f]) : f \in File}

\* An image as it is made: the files are there and the rest is empty
Init ==
    /\ disk \in {Header \o [b \in 1 .. BlockCount - Len(Header) |->
                              IF b + Len(Header) \in Used THEN d[b + Len(Header)]
                              ELSE Blank] : d \in [Used -> Data]}
    /\ desc = [fd \in Fd |-> Closed]
    /\ up = TRUE
    /\ result = Error

Next ==
    \/ \E f \in File : Open(f) \/ ReadAll(f)
    \/ \E fd \in Fd :
          \/ Close(fd)
          \/ \E n \in Lines : Read(fd, n)
          \/ \E n \in Lines, v \in Data : Write(fd, n, v)
    \/ \E v \in Data : StopInWrite(v)
    \/ BadDescriptor \/ ClosedDescriptor \/ Stop \/ Boot

Spec == Init /\ [][Next]_vars

-----------------------------------------------------------------------------
(* Properties *)

\* Whatever is rewritten and cut short, the image never outgrows the disk.
FilesTypeOK ==
    /\ disk \in Seq(Content)
    /\ Len(disk) <= BlockCount
    /\ desc \in [Fd -> [hdr : 0 .. Len(Header), size : Nat]]
    /\ up \in BOOLEAN
    /\ result.ok \in BOOLEAN

\* A descriptor never outlives what it was made from: while it is open, the
\* entry it names is there and has the size that was found at the open, so
\* the size that sys_fs_read trusts is never stale.
DescriptorsCurrent ==
    up => \A fd \in Fd : desc[fd] # Closed =>
            /\ Readable(desc[fd].hdr)
            /\ disk[desc[fd].hdr] \in File
            /\ desc[fd].size = Len(BlocksOf[disk[desc[fd].hdr]])

\* What is left of the files on the disk
EntryOf == [f \in File |-> CHOOSE b \in DOMAIN Header : Header[b] = f]

TextOnDisk ==
    [f \in File |->
        [n \in DOMAIN BlocksOf[f] |->
            IF /\ Readable(BlocksOf[f][n])
               /\ Readable(EntryOf[f]) /\ disk[EntryOf[f]] = f
            THEN disk[BlocksOf[f][n]] ELSE Lost]]

OpenFiles == [fd \in Fd |-> IF up /\ desc[fd] # Closed
                            THEN Header[desc[fd].hdr] ELSE NoFile]

Text == INSTANCE TextFiles WITH
            Size   <- [f \in File |-> Len(BlocksOf[f])],
            text   <- TextOnDisk,
            handle <- OpenFiles

\* Whatever is opened, closed, read, written, stopped and started, in any
\* order: a line reads back as it was last written, no write reaches another
\* line or another file, a stop loses text but mixes none, and a program is
\* loaded from its first line to its last one that is left.
ImplementsTextFiles == Text!Spec

\* "LAST_USABLE_BLOCK -- The last block in this partition" (README of the
\* repository, section 5.3): a file that ends there can be written to its end.
EveryLineWritable ==
    up /\ Len(disk) = BlockCount =>
        \A fd \in Fd : \A n \in 1 .. desc[fd].size : Writable(Target(fd, n))

\* "If line number is incorrect ... then we should report error" (sys_fs_read
\* and sys_fs_write; lines are "1-based" in syscalls.hpp).
WrongLineRefused ==
    up => \A fd \in Fd : \A n \in Lines \ (1 .. desc[fd].size) :
              ~Readable(Target(fd, n)) /\ ~Writable(Target(fd, n))
=============================================================================
