------------------------------ MODULE TextCodec ------------------------------
(***************************************************************************)
(* What the patch service (libs/bridge_core/src/patch_service.cpp) keeps   *)
(* of a file's bytes when it reads them as text and writes a text back:    *)
(* a byte order mark at the front and one line-ending style for the file.  *)
(* Bom stands for the mark of either encoding read_text_file knows; the    *)
(* other symbols are those of LineEdit.                                    *)
(***************************************************************************)
EXTENDS LineEdit

CONSTANT Bom

ASSUME BomIsNoLineBreak == Bom \notin {NL, CR}

\* read_text_file: what is remembered of the raw bytes, and the text that is left
FileBom(raw)  == raw # <<>> /\ Head(raw) = Bom
FileText(raw) == IF FileBom(raw) THEN Tail(raw) ELSE raw
FileCrlf(raw) == \E i \in 1..Len(raw) - 1 : raw[i] = CR /\ raw[i + 1] = NL

\* Mutant: the CRs of the text are not dropped first.
EncodeKeepingCr(text, crlf, bom) ==
  LET body == FlattenSeq([i \in DOMAIN text |->
                            IF text[i] = NL /\ crlf THEN <<CR, NL>> ELSE <<text[i]>>])
  IN  IF bom THEN <<Bom>> \o body ELSE body

\* encode_text drops every CR before it puts in its own.
WithoutCr(d) ==
  FlattenSeq([i \in DOMAIN d |-> IF d[i] = CR THEN <<>> ELSE <<d[i]>>])

EncodeText(text, crlf, bom) ==
  LET kept == WithoutCr(text)
      body == FlattenSeq([i \in DOMAIN kept |->
                            IF kept[i] = NL /\ crlf THEN <<CR, NL>> ELSE <<kept[i]>>])
  IN  IF bom THEN <<Bom>> \o body ELSE body

\* The bytes patch_apply writes over the bytes raw when asked for a text
Rewrite(raw, text) == EncodeText(text, FileCrlf(raw), FileBom(raw))

\* Mutants: a backup without the mark, and one without the line-ending style.
BackupWithoutBom(raw)  == EncodeText(FileText(raw), FileCrlf(raw), FALSE)
BackupWithoutCrlf(raw) == EncodeText(FileText(raw), FALSE, FileBom(raw))

\* The bytes patch_apply saves as the backup of the bytes raw
Backup(raw) == Rewrite(raw, FileText(raw))
=============================================================================
