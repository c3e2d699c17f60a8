----------------------------- MODULE FragMp4Pay -----------------------------
(***************************************************************************)
(* gst-plugin-pravega/src/fragmp4pay/imp.rs: the element between mp4mux    *)
(* and pravegasink.  mp4mux sends ftyp and moov once, then for each        *)
(* fragment moof, the header of mdat, and the samples in mdat, each in a   *)
(* buffer of its own; one buffer of fragmp4pay is a whole fragment.        *)
(*                                                                         *)
(* A chunk is the data of a buffer.  Of a sample the model keeps which     *)
(* frame it is.  Decoding timestamps and offsets are gathered as the       *)
(* timestamps are and are left out.                                        *)
(***************************************************************************)
EXTENDS Integers, Sequences

VARIABLES
  parser,    (* the chunks in Mp4Parser's buffer                            *)
  header,    (* which of ftyp_atom and moov_atom there are                  *)
  moof,      (* moof_atom: the number of its fragment                       *)
  fragment,  (* fragment_pts, fragment_max_pts_plus_duration and flags      *)
  pushed     (* the buffers that pravegasink has been given                 *)

payState == <<parser, header, moof, fragment>>
payVars  == <<payState, pushed>>

NoPts == -1         \* none, which is below every timestamp
NoMoof == 0

NoFragment == [pts |-> NoPts, end |-> NoPts, delta |-> TRUE]

(* A buffer of pravegasink: the atoms in it, and its metadata. *)
Fragment ==
  [header : BOOLEAN, moof : Nat, mdat : Seq(Nat),
   pts : Int, end : Int, delta : BOOLEAN]

PayTypeOK ==
  /\ header \subseteq {"ftyp", "moov"}
  /\ moof \in Nat
  /\ fragment \in [pts : Int, end : Int, delta : BOOLEAN]
  /\ pushed \in Seq(Fragment)

PayInit ==
  /\ parser = << >>
  /\ header = {}
  /\ moof = NoMoof
  /\ fragment = NoFragment
  /\ pushed = << >>

(* have_mdat: the header of mdat alone is not more than 8 bytes. *)
HaveMdat(chunks) == chunks[1].atom = "mdat" /\ Len(chunks) > 1

(* pop_atom finds an atom when everything that its size says is there. *)
IsWhole(chunks) == Len(chunks) = 1 + chunks[1].samples

Samples(chunks) == [i \in 1 .. Len(chunks) - 1 |-> chunks[i + 1].frame]

(* A wrong version: a fragment has the flags of its last sample. *)
UpdatedLast(chunk) ==
  [pts   |-> IF fragment.pts = NoPts \/ fragment.pts > chunk.pts
               THEN chunk.pts ELSE fragment.pts,
   end   |-> IF fragment.end < chunk.end THEN chunk.end ELSE fragment.end,
   delta |-> chunk.delta]

(* A fragment that contains a key frame is one. *)
Updated(chunk) ==
  [pts   |-> IF fragment.pts = NoPts \/ fragment.pts > chunk.pts
               THEN chunk.pts ELSE fragment.pts,
   end   |-> IF fragment.end < chunk.end THEN chunk.end ELSE fragment.end,
   delta |-> fragment.delta /\ chunk.delta]

Buffer(chunks, info) ==
  [header |-> ~info.delta, moof |-> moof, mdat |-> Samples(chunks),
   pts |-> info.pts, end |-> info.end, delta |-> info.delta]

(* An atom other than mdat is kept until another of its kind. *)
Keep(chunk) ==
  /\ header' = header \cup ({chunk.atom} \cap {"ftyp", "moov"})
  /\ moof' = IF chunk.atom = "moof" THEN chunk.fragment ELSE moof
  /\ UNCHANGED <<fragment, pushed>>

(* mdat completes the fragment if there is everything else.  mp4mux sends no
   mdat before the rest; the fragment would not be cleared. *)
Emit(chunks, info) ==
  /\ IF header = {"ftyp", "moov"} /\ moof # NoMoof
       THEN /\ pushed' = Append(pushed, Buffer(chunks, info))
            /\ fragment' = NoFragment
       ELSE fragment' = info /\ UNCHANGED pushed
  /\ UNCHANGED <<header, moof>>

(* sink_chain *)
Chain(chunk) ==
  LET chunks == Append(parser, chunk)
      info == IF HaveMdat(chunks) THEN Updated(chunk) ELSE fragment
  IN IF ~IsWhole(chunks)
       THEN /\ parser' = chunks
            /\ fragment' = info
            /\ UNCHANGED <<header, moof, pushed>>
       ELSE /\ parser' = << >>
            /\ IF chunks[1].atom = "mdat" THEN Emit(chunks, info) ELSE Keep(chunk)

(* push fails, when the fragment has been cleared. *)
ChainFails(chunk) ==
  LET chunks == Append(parser, chunk)
  IN /\ chunks[1].atom = "mdat" /\ IsWhole(chunks)
     /\ parser' = << >>
     /\ fragment' = NoFragment
     /\ UNCHANGED <<header, moof, pushed>>

==============================================================================
