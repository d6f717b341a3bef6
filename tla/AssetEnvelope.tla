---------------------------- MODULE AssetEnvelope ----------------------------
(***************************************************************************)
(* How the bytes of one attachment are staged for storage, chunk by chunk, *)
(* and how they are retrieved: into a download file that every retrieve of *)
(* the placement shares, and from there to the caller's destination.       *)
(*                                                                         *)
(* A stored file is a sequence of frames.  A frame has the bytes of one    *)
(* chunk and, when the project is encrypted, what the secret stream        *)
(* authenticates: the asset that the header names, its place in the stream *)
(* and the FINAL tag.  Frame 1 of an encrypted file is the header.  Equal  *)
(* digests mean equal files.                                               *)
(***************************************************************************)
EXTENDS Naturals, Sequences, SequencesExt

CONSTANTS
    Reader,   \* the calls that retrieve
    Absent,   \* no file
    Chunk,    \* kChunkSize, in bytes of the model
    MaxSize,  \* the largest source file
    Damages   \* what may happen to the stored object

VARIABLES
    source,   \* the bytes of the imported file
    enc,      \* "plain" or "holder_asset_v1"
    atomic,   \* the provider's get renames a complete file into place
    stage,    \* stage_asset_file: where it is, the chunk it holds, and the
              \* bytes that its plaintext digest covers
    object,   \* the stored object
    hit,      \* the damage that the object took
    recorded, \* the stored file that the placement's digest is of
    file,     \* file[r]: the contents of the file that reader r created
    name,     \* which of the files is the download file now
    read      \* read[r]: the state of recover_asset_file

vars == <<source, enc, atomic, stage, object, hit, recorded, file, name, read>>

Numbers(n) == [i \in 1..n |-> i]
Block(pos) == SubSeq(source, pos + 1, IF pos + Chunk < Len(source) THEN pos + Chunk ELSE Len(source))

Frame(n, data, final) == [of |-> "this", n |-> n, data |-> data, final |-> final]
Header == Frame(0, <<>>, FALSE)
NotRead == [pc |-> "idle", ino |-> Absent, n |-> 0, out |-> Absent]

Init ==
    /\ \E n \in 0..MaxSize : source = Numbers(n)
    /\ enc \in {"plain", "holder_asset_v1"}
    /\ atomic \in BOOLEAN
    /\ stage = [pc |-> "open", pos |-> 0, current |-> <<>>, plain |-> <<>>]
    /\ object = Absent /\ hit = "none" /\ recorded = Absent
    /\ file = [r \in Reader |-> Absent]
    /\ name = Absent
    /\ read = [r \in Reader |-> NotRead]

-----------------------------------------------------------------------------
(* stage_asset_file *)

StageOpen ==
    /\ stage.pc = "open"
    /\ object' = IF enc = "plain" THEN <<>> ELSE <<Header>>
    /\ stage' = [stage EXCEPT !.pc = "chunk", !.pos = Len(Block(0)), !.current = Block(0)]
    /\ UNCHANGED <<source, enc, atomic, hit, recorded, file, name, read>>

\* The chunk read ahead decides whether the current one is the last.
Ends(next) == next = <<>>

\* An empty file has one frame that is FINAL and empty; plain copies have none.
StageChunk ==
    LET next == Block(stage.pos)
        frame == Frame(Len(object), stage.current, Ends(next)) IN
    /\ stage.pc = "chunk"
    /\ object' = IF enc = "plain" /\ stage.current = <<>> THEN object ELSE Append(object, frame)
    /\ stage' = [pc |-> IF Ends(next) THEN "put" ELSE "chunk",
                 pos |-> stage.pos + Len(next), current |-> next,
                 plain |-> stage.plain \o stage.current]
    /\ UNCHANGED <<source, enc, atomic, hit, recorded, file, name, read>>

Cut(f) == SubSeq(f, 1, Len(f) - 1)
Harm(f, how) ==
    CASE how = "cut" -> Cut(f)
      [] how = "swap" -> Append(Append(SubSeq(f, 1, Len(f) - 2), f[Len(f)]), f[Len(f) - 1])
      [] how = "tail" -> Append(f, Last(f))
      [] how = "other" -> [i \in DOMAIN f |-> [f[i] EXCEPT !.of = "other"]]

\* The object is stored, and may be damaged there.  The digest in the placement
\* is that of the staged file, or, when a caller described the placement anew,
\* that of the object as it is.
Store(how, described) ==
    /\ stage.pc = "put"
    /\ how # "none" => Len(object) > 1
    /\ object' = IF how = "none" THEN object ELSE Harm(object, how)
    /\ recorded' = IF described THEN object' ELSE object
    /\ hit' = how
    /\ stage' = [stage EXCEPT !.pc = "stored"]
    /\ UNCHANGED <<source, enc, atomic, file, name, read>>

-----------------------------------------------------------------------------
(* AssetImportService::retrieve and recover_asset_file *)

Unstaged == UNCHANGED <<source, enc, atomic, stage, object, hit, recorded>>
At(r, pc) == read[r].pc = pc

\* provider.get: LocalDirectoryProvider copies to a temporary file and renames it;
\* a callback may write into the file that is there.
Get(r) ==
    /\ stage.pc = "stored"
    /\ At(r, "idle")
    /\ \/ /\ atomic
          /\ file' = [file EXCEPT ![r] = object]
          /\ name' = r
          /\ read' = [read EXCEPT ![r].pc = "verify"]
       \/ /\ ~atomic
          /\ name' = IF name = Absent THEN r ELSE name
          /\ file' = [file EXCEPT ![name'] = <<>>]
          /\ read' = [read EXCEPT ![r].pc = "fill", ![r].ino = name']
    /\ Unstaged

Fill(r) ==
    /\ At(r, "fill")
    /\ file' = [file EXCEPT ![read[r].ino] = object]
    /\ read' = [read EXCEPT ![r].pc = "verify", ![r].ino = Absent]
    /\ UNCHANGED name
    /\ Unstaged

\* remove_quietly of the download and of the destination
Refuse(r) ==
    /\ read' = [read EXCEPT ![r] = [NotRead EXCEPT !.pc = "failed"]]
    /\ name' = Absent
    /\ UNCHANGED file

Proceed(r, state) ==
    /\ read' = [read EXCEPT ![r] = state]
    /\ UNCHANGED <<file, name>>

DownloadMatches == name # Absent /\ file[name] = recorded

\* The digest of the stored file is taken in a pass of its own.
VerifyStored(r) ==
    /\ At(r, "verify")
    /\ \/ /\ DownloadMatches
          /\ Proceed(r, [read[r] EXCEPT !.pc = "open"])
       \/ /\ ~DownloadMatches
          /\ Refuse(r)
    /\ Unstaged

OpenStored(r) ==
    /\ At(r, "open")
    /\ \/ /\ name # Absent
          /\ Proceed(r, [read[r] EXCEPT !.pc = IF enc = "plain" THEN "copy" ELSE "header",
                                        !.ino = name, !.out = <<>>])
       \/ /\ name = Absent
          /\ Refuse(r)
    /\ Unstaged

Seen(r) == file[read[r].ino]

HeaderMatches(r) == Seen(r) # <<>> /\ Seen(r)[1] = Header

ReadHeader(r) ==
    /\ At(r, "header")
    /\ \/ /\ HeaderMatches(r)
          /\ Proceed(r, [read[r] EXCEPT !.pc = "pull", !.n = 1])
       \/ /\ ~HeaderMatches(r)
          /\ Refuse(r)
    /\ Unstaged

\* The stream accepts its next frame only, and nothing follows the FINAL one.
Authentic(r) ==
    /\ read[r].n < Len(Seen(r))
    /\ LET frame == Seen(r)[read[r].n + 1] IN
       /\ frame.of = "this" /\ frame.n = read[r].n
       /\ frame.final => Len(Seen(r)) = read[r].n + 1

Pull(r) ==
    /\ At(r, "pull")
    /\ \/ /\ Authentic(r)
          /\ LET frame == Seen(r)[read[r].n + 1] IN
             Proceed(r, [read[r] EXCEPT !.pc = IF frame.final THEN "check" ELSE "pull",
                                        !.n = @ + 1, !.out = @ \o frame.data])
       \/ /\ ~Authentic(r)
          /\ Refuse(r)
    /\ Unstaged

Copy(r) ==
    /\ At(r, "copy")
    /\ \/ /\ read[r].n < Len(Seen(r))
          /\ Proceed(r, [read[r] EXCEPT !.n = @ + 1, !.out = @ \o Seen(r)[read[r].n + 1].data])
       \/ /\ read[r].n >= Len(Seen(r))
          /\ Proceed(r, [read[r] EXCEPT !.pc = "check"])
    /\ Unstaged

\* Mutant: the plaintext is not verified again.
AcceptAny(r) == TRUE

AcceptPlaintext(r) == read[r].out = stage.plain

VerifyPlaintext(r) ==
    /\ At(r, "check")
    /\ \/ /\ AcceptPlaintext(r)
          /\ read' = [read EXCEPT ![r].pc = "delivered", ![r].ino = Absent]
          /\ name' = Absent
          /\ UNCHANGED file
       \/ /\ ~AcceptPlaintext(r)
          /\ Refuse(r)
    /\ Unstaged

\* The next import.
Again ==
    /\ \A r \in Reader : read[r].pc \in {"delivered", "failed"}
    /\ \E n \in 0..MaxSize : source' = Numbers(n)
    /\ stage' = [pc |-> "open", pos |-> 0, current |-> <<>>, plain |-> <<>>]
    /\ object' = Absent /\ hit' = "none" /\ recorded' = Absent
    /\ file' = [r \in Reader |-> Absent]
    /\ name' = Absent
    /\ read' = [r \in Reader |-> NotRead]
    /\ UNCHANGED <<enc, atomic>>

Retrieve(r) ==
    \/ Get(r) \/ Fill(r) \/ VerifyStored(r) \/ OpenStored(r) \/ ReadHeader(r)
    \/ Pull(r) \/ Copy(r) \/ VerifyPlaintext(r)

Next ==
    \/ StageOpen
    \/ StageChunk
    \/ \E how \in Damages, described \in BOOLEAN : Store(how, described)
    \/ \E r \in Reader : Retrieve(r)
    \/ Again

Spec == Init /\ [][Next]_vars

-----------------------------------------------------------------------------

\* A retrieve that succeeds delivers the imported bytes, although the download
\* file can be replaced, rewritten or removed by another retrieve between the
\* pass that takes its digest and the pass that decodes it, and although the
\* object may be cut, reordered, extended or another asset's.
DeliversExactly ==
    \A r \in Reader : read[r].pc = "delivered" => read[r].out = source

\* An undamaged object is never refused to a retrieve that runs alone, whatever
\* the size of the file: empty, a multiple of the chunk, or neither.  (Of two that
\* overlap, one can be refused because the other removed the download file.)
NeverRefusedAlone ==
    \A r \in Reader :
        hit = "none" /\ read[r].pc = "failed" => \E q \in Reader \ {r} : read[q] # NotRead
=============================================================================
