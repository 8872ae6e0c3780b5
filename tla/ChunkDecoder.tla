----------------------------- MODULE ChunkDecoder -----------------------------
(***************************************************************************)
(* From the bytes of a chunk to its radials: chunk.rs and the parser of    *)
(* nexrad-decoder, with every length and offset in bytes.                  *)
(*                                                                         *)
(* A chunk is what the radar wrote, of which only the first cut bytes      *)
(* exist: a volume header or none, BZ2 blocks with their compressed and    *)
(* decompressed lengths, and the message records that the decompressed     *)
(* blocks spell.  A record is its header fields and, for Message 31, a     *)
(* body: its block count, its product pointers and the blocks at their     *)
(* offsets.  Field values that no bound depends on are left out.           *)
(***************************************************************************)
EXTENDS Integers, Sequences, FiniteSets, SequencesExt

CONSTANTS
    None,
    MaxDecompressed  \* MAX_DECOMPRESSED_CHUNK_BYTES

VOLUME_HEADER_LEN == 24
BLOCK_LEN_PREFIX == 4

(* The length word 0xFFFFFFFF, after which a start chunk has no block.     *)
Sentinel == [clen |-> 0, out |-> 0]

Ok(value) == [ok |-> TRUE, value |-> value]
Err(error) == [ok |-> FALSE, error |-> error]

Sum(s) == FoldLeft(+, 0, s)

-----------------------------------------------------------------------------
(* chunk.rs *)

(* The bytes that exist before the blocks.                                 *)
HeaderLen(c) == IF c.header = "none" THEN 0 ELSE VOLUME_HEADER_LEN

Written(c) == HeaderLen(c) + Sum([i \in DOMAIN c.blocks |-> BLOCK_LEN_PREFIX + c.blocks[i].clen])

(* AR2V, or BZh9 where the first block of a start chunk has it; otherwise  *)
(* the sign of the first length tells the end chunk.                       *)
detect_chunk_kind(c) ==
    IF c.cut < 8 THEN Err("TooShort")
    ELSE CASE c.header = "AR2V"                    -> Ok("Start")
           [] c.header = "none"                    -> Ok(IF c.negative THEN "End" ELSE "Intermediate")
           [] c.header = "unmarked" /\ c.cut >= 32 -> Ok("Start")
           [] OTHER                                -> Err("UnrecognizedFormat")

decompress_block_bounded_PerBlock(s, block) ==
    IF block.out > MaxDecompressed THEN [s EXCEPT !.error = "DecompressedTooLarge"]
    ELSE [s EXCEPT !.out = @ + block.out]

(* The budget is shared by the blocks of the chunk.                        *)
decompress_block_bounded(s, block) ==
    IF block.out > MaxDecompressed - s.out THEN [s EXCEPT !.error = "DecompressedTooLarge"]
    ELSE [s EXCEPT !.out = @ + block.out]

(* One turn of the loop: a length that is not there ends it, and in a      *)
(* start chunk the sentinel does; a block that is not all there is an      *)
(* error.                                                                  *)
DecompressNext(s, block, cut, has_sentinel) ==
    IF s.error # None \/ s.ended THEN s
    ELSE IF s.offset + BLOCK_LEN_PREFIX > cut THEN [s EXCEPT !.ended = TRUE]
    ELSE IF block = Sentinel /\ has_sentinel THEN [s EXCEPT !.ended = TRUE]
    ELSE IF block = Sentinel \/ s.offset + BLOCK_LEN_PREFIX + block.clen > cut
    THEN [s EXCEPT !.error = "TooShort"]
    ELSE decompress_block_bounded([s EXCEPT !.offset = @ + BLOCK_LEN_PREFIX + block.clen], block)

decompress_blocks(c, blocks, has_sentinel) ==
    LET s == FoldLeft(LAMBDA t, b : DecompressNext(t, b, c.cut, has_sentinel),
                      [offset |-> HeaderLen(c), out |-> 0, error |-> None, ended |-> FALSE], blocks)
    IN  IF s.error # None THEN Err(s.error) ELSE Ok(s.out)

(* The length of the message stream.  An end chunk has one block, which    *)
(* must be there.                                                          *)
decompress_chunk(c, expected) ==
    LET detected == detect_chunk_kind(c)
        short    == \/ expected = "Start" /\ c.cut < VOLUME_HEADER_LEN + BLOCK_LEN_PREFIX
                    \/ expected = "End" /\ BLOCK_LEN_PREFIX + c.blocks[1].clen > c.cut
    IN  IF ~detected.ok THEN detected
        ELSE IF detected.value # expected THEN Err("KindMismatch")
        ELSE IF short THEN Err("TooShort")
        ELSE decompress_blocks(c, IF expected = "End" THEN SubSeq(c.blocks, 1, 1) ELSE c.blocks,
                               expected = "Start")

-----------------------------------------------------------------------------
(* nexrad-decoder: message framing *)

CTM_HEADER_SIZE == 12
MSG_HEADER_SIZE == 16
LEGACY_MSG_SIZE == 2432
BODY_OFFSET == 28

Aligned(n) == ((n + 3) \div 4) * 4

(* Where the radar puts a record: Message 31 takes its length, rounded up  *)
(* to a word; every other message a fixed frame.                           *)
FrameLen(r) ==
    IF r.msg_type = 31 /\ r.size_hw # 0 THEN Aligned(CTM_HEADER_SIZE + 2 * r.size_hw)
    ELSE LEGACY_MSG_SIZE

Position(records, i) == Sum([j \in 1..(i - 1) |-> FrameLen(records[j])])

StreamLen(records) == Position(records, Len(records) + 1)

(* The record whose header is at offset; a walk that looks anywhere else   *)
(* has lost the framing.                                                   *)
RecordAt(records, offset) ==
    CHOOSE i \in DOMAIN records : Position(records, i) = offset

advance_Unaligned(r) ==
    IF r.msg_type = 31 /\ r.size_hw # 0 THEN CTM_HEADER_SIZE + 2 * r.size_hw ELSE LEGACY_MSG_SIZE

(* How far the walk moves on.                                              *)
advance(r) ==
    IF r.msg_type = 31 /\ r.size_hw # 0 THEN Aligned(CTM_HEADER_SIZE + 2 * r.size_hw)
    ELSE LEGACY_MSG_SIZE

(* for_each_message: the records handed on, each with the length of its    *)
(* slice, and whether the walk ended in an error.                          *)
for_each_message(records, len) ==
    LET walk[offset \in Nat] ==
            IF offset + CTM_HEADER_SIZE + MSG_HEADER_SIZE > len THEN [seen |-> <<>>, ok |-> TRUE]
            ELSE IF \A i \in DOMAIN records : Position(records, i) # offset
            THEN [seen |-> <<[record |-> 0, len |-> 0]>>, ok |-> TRUE]
            ELSE LET i    == RecordAt(records, offset)
                     r    == records[i]
                     rest == walk[offset + advance(r)]
                     size == CTM_HEADER_SIZE + 2 * r.size_hw
                     slice == IF r.msg_type = 31 THEN size
                              ELSE IF LEGACY_MSG_SIZE < len - offset THEN LEGACY_MSG_SIZE
                              ELSE len - offset
                 IN  IF r.size_hw = 0 THEN rest
                     ELSE IF r.msg_type = 31 /\ offset + size > len
                     THEN [seen |-> <<>>, ok |-> FALSE]
                     ELSE [rest EXCEPT !.seen = <<[record |-> i, len |-> slice]>> \o @]
    IN  walk[0]

-----------------------------------------------------------------------------
(* nexrad-decoder: Message 31 and Message 5 *)

MomentBlocks == {"DREF", "DVEL", "DSW ", "DZDR", "DPHI", "DRHO", "DCFP"}

(* Cursor: n bytes at pos of a slice of len bytes.                         *)
Readable(len, pos, n) == pos + n <= len

(* Cursor::for_block: what a pointer finds, if its id can be read at all.  *)
for_block(body, len, ptr) ==
    IF ptr # 0 /\ ptr \in DOMAIN body.blocks /\ Readable(len, ptr, 4) THEN body.blocks[ptr] ELSE None

parse_product_Unchecked(body, len, ptr) ==
    LET b == for_block(body, len, ptr)
    IN  IF b # None /\ b.id \in MomentBlocks /\ Readable(len, ptr, 28) THEN b ELSE None

(* A moment block is taken whole or not at all.                            *)
parse_product(body, len, ptr) ==
    LET b == for_block(body, len, ptr)
    IN  IF /\ b # None /\ b.id \in MomentBlocks /\ Readable(len, ptr, 28)
           /\ b.word_size \in {8, 16}
           /\ Readable(len, ptr + 28, b.gate_count * (b.word_size \div 8))
        THEN b ELSE None

parse_rvol(body, len, ptr) ==
    LET b == for_block(body, len, ptr)
    IN  IF b # None /\ b.id = "RVOL" /\ Readable(len, ptr, 44) THEN b ELSE None

parse_rrad(body, len, ptr) ==
    LET b == for_block(body, len, ptr)
    IN  IF b # None /\ b.id = "RRAD" /\ Readable(len, ptr, 18) THEN b ELSE None

(* A missing block is no fault; a pointer that cannot be read is.          *)
parse_message31(r, len) ==
    LET body     == r.body
        body_len == len - BODY_OFFSET
        count    == IF body.num_data_blks > 3 THEN body.num_data_blks - 3 ELSE 0
        found    == {parse_product(body, body_len, body.ptrs[i]) : i \in 1..count} \ {None}
        kinds    == {b.id : b \in found}
        last(k)  == CHOOSE i \in 1..count :
                        /\ parse_product(body, body_len, body.ptrs[i]) # None
                        /\ parse_product(body, body_len, body.ptrs[i]).id = k
                        /\ \A j \in (i + 1)..count :
                             LET b == parse_product(body, body_len, body.ptrs[j])
                             IN  b = None \/ b.id # k
    IN  IF len < BODY_OFFSET + 32 \/ ~Readable(body_len, 44, 4 * count) \/ body_len < 44
        THEN Err("Truncated")
        ELSE Ok([products |-> [k \in kinds |-> parse_product(body, body_len, body.ptrs[last(k)])],
                 site_parameters |-> parse_rvol(body, body_len, body.vol_ptr),
                 radial_constants |-> parse_rrad(body, body_len, body.rad_ptr)])

VCP_HEADER_SIZE == 22
EL_CUT_SIZE == 46

parse_vcp(r, len) ==
    IF len < BODY_OFFSET + VCP_HEADER_SIZE + EL_CUT_SIZE * r.body.num_el_cuts THEN Err("Truncated")
    ELSE Ok(r.body)

(* The values of the records of a type, or the first error.                *)
Collect(records, walked, type) ==
    LET taken == SelectSeq(walked.seen, LAMBDA s : s.record = 0 \/ records[s.record].msg_type = type)
        parsed == [i \in DOMAIN taken |->
                     IF taken[i].record = 0 THEN Ok(None)
                     ELSE IF type = 31 THEN parse_message31(records[taken[i].record], taken[i].len)
                     ELSE parse_vcp(records[taken[i].record], taken[i].len)]
    IN  IF walked.ok /\ \A i \in DOMAIN parsed : parsed[i].ok
        THEN Ok([i \in DOMAIN parsed |-> parsed[i].value])
        ELSE Err("Truncated")

parse_radial_stream(records, len) ==
    Collect(records, for_each_message(records, len), 31)

(* The last Message 5 counts.                                              *)
parse_metadata_stream(records, len) ==
    LET all == Collect(records, for_each_message(records, len), 5)
    IN  IF ~all.ok THEN all
        ELSE Ok(IF all.value = <<>> THEN None ELSE all.value[Len(all.value)])

(* decode_and_ingest, up to the assembler: the pattern of a start chunk,   *)
(* which may be missing, and the radials of any other.                     *)
decode_chunk(c, kind) ==
    LET stream   == decompress_chunk(c, kind)
        metadata == parse_metadata_stream(c.records, stream.value)
    IN  IF ~stream.ok THEN stream
        ELSE IF kind = "Start" THEN Ok(IF metadata.ok THEN metadata.value ELSE None)
        ELSE parse_radial_stream(c.records, stream.value)
=============================================================================
