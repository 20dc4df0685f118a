----------------------------- MODULE ShrimpFile -----------------------------
(***************************************************************************)
(* The executable file: how File lays out its headers and segments, writes *)
(* them and reads them back.  A file on disk is a function from the offset *)
(* of each non-empty write to <<bytes, value>>, so that a read at a wrong  *)
(* offset or of a wrong size finds nothing.  The source name, the magic    *)
(* and the debug dump are left out; offsets stay far below 2^32.           *)
(***************************************************************************)
EXTENDS Integers, Sequences, SequencesExt

CONSTANTS
  TextLen,      \* bytes of each name and string
  EmptyText     \* the string of no bytes

FileHeaderSize   == 80      \* sizeof(Header_t)
EntityHeaderSize == 8       \* sizeof(EntityHeader_t)
EntityHeaders    == 3 * EntityHeaderSize

Sum(f(_), seq) == FoldLeft(LAMBDA n, x : n + f(x), 0, seq)

\* What each fill* adds for an entry of a table.
FieldBytes(f)  == 4 + 8 + 1 + 8 + 8 + TextLen[f.name]
ClassBytes(c)  == 4 + 8 + 8 + TextLen[c.name] + 4 + Sum(FieldBytes, c.fields)
StringBytes(s) == 2 + 8 + TextLen[s.str]
FuncBytes(f)   == 4 + 8 + 8 + 1 + 2 + TextLen[f.name]

\* FileHeader.headers before fillHeaders (offset_from_start has no
\* initialiser: any value; fillHeaders reads only sizes).
NoSegment == [size |-> 0, offset |-> 0]
NoHeaders == [CODE |-> NoSegment, LITERALS |-> NoSegment,
              FUNCTIONS |-> NoSegment, CLASSES |-> NoSegment]

\* Each of these reads the sizes that the ones before it have filled in.
fillClassesHeader(h, file) ==
  [h EXCEPT !.CLASSES = [ offset |-> FileHeaderSize + EntityHeaders,
                          size   |-> Sum(ClassBytes, file.Classes) ]]

fillCodeHeader(h, file) ==
  [h EXCEPT !.CODE = [ offset |-> FileHeaderSize + EntityHeaders + h.CLASSES.size,
                       size   |-> file.Code.size ]]

fillStringsHeader(h, file) ==
  [h EXCEPT !.LITERALS = [ offset |-> FileHeaderSize + EntityHeaders
                                      + h.CODE.size + h.CLASSES.size,
                           size   |-> Sum(StringBytes, file.Strings) ]]

fillFunctionsHeader(h, file) ==
  [h EXCEPT !.FUNCTIONS = [ offset |-> FileHeaderSize + EntityHeaders + h.CODE.size
                                       + h.LITERALS.size + h.CLASSES.size,
                            size   |-> Sum(FuncBytes, file.Functions) ]]

\* Mutant of fillHeaders: the functions' header before that of the strings.
FillFunctionsFirst(file) ==
  fillStringsHeader(
    fillFunctionsHeader(
      fillCodeHeader(
        fillClassesHeader(NoHeaders, file), file), file), file)

fillHeaders(file) ==
  fillFunctionsHeader(
    fillStringsHeader(
      fillCodeHeader(
        fillClassesHeader(NoHeaders, file), file), file), file)

-----------------------------------------------------------------------------
\* The writes of each serialize*, in order.
Text(t) == <<TextLen[t], t>>

FieldWrites(f) == << <<4, f.id>>, <<1, f.is_ref>>, <<8, f.size>>, <<8, f.offset>>,
                     <<8, TextLen[f.name]>>, Text(f.name) >>

ClassWrites(c) == << <<4, c.id>>, <<8, c.size>>, <<8, TextLen[c.name]>>, Text(c.name),
                     <<4, Len(c.fields)>> >>
                  \o FlattenSeq([i \in DOMAIN c.fields |-> FieldWrites(c.fields[i])])

StringWrites(s) == << <<2, s.id>>, <<8, TextLen[s.str]>>, Text(s.str) >>

FuncWrites(f) == << <<4, f.id>>, <<8, f.func_start>>, <<8, TextLen[f.name]>>,
                    <<1, f.num_of_args>>, <<2, f.num_of_vregs>>, Text(f.name) >>

Each(writes(_), seq) == FlattenSeq([i \in DOMAIN seq |-> writes(seq[i])])

\* The file header holds the headers of the segments; then the number of
\* entries of each table.
HeaderWrites(file) ==
  << <<FileHeaderSize, fillHeaders(file)>>,
     <<EntityHeaderSize, Len(file.Classes)>>,
     <<EntityHeaderSize, Len(file.Strings)>>,
     <<EntityHeaderSize, Len(file.Functions)>> >>

\* fwrite: at the present end of the file.
Put(f, w) ==
  IF w[1] = 0 THEN f
  ELSE [ end   |-> f.end + w[1],
         bytes |-> [o \in DOMAIN f.bytes \cup {f.end} |->
                      IF o = f.end THEN w ELSE f.bytes[o]] ]

serialize(file) ==
  FoldLeft(Put, [end |-> 0, bytes |-> [o \in {} |-> <<>>]],
           HeaderWrites(file) \o Each(ClassWrites, file.Classes)
           \o << <<file.Code.size, file.Code>> >>
           \o Each(StringWrites, file.Strings)
           \o Each(FuncWrites, file.Functions)).bytes

-----------------------------------------------------------------------------
\* fread of n bytes at offset o; 0 stands for what a misplaced read returns.
Read(img, o, n) ==
  IF o \in DOMAIN img /\ img[o][1] = n THEN img[o][2] ELSE 0

ReadText(img, o, n) == IF n = 0 THEN EmptyText ELSE Read(img, o, n)

\* A table is read entry by entry: acc holds the position and the entries.
ReadTable(readOne(_, _), img, o, n) ==
  FoldLeft(LAMBDA acc, i : readOne(img, acc), [pos |-> o, seq |-> <<>>],
           [i \in 1 .. n |-> i])

ReadField(img, acc) ==
  LET o == acc.pos
      n == Read(img, o + 21, 8)
  IN  [ pos |-> o + 29 + n,
        seq |-> Append(acc.seq, [ id     |-> Read(img, o, 4),
                                  is_ref |-> Read(img, o + 4, 1),
                                  size   |-> Read(img, o + 5, 8),
                                  offset |-> Read(img, o + 13, 8),
                                  name   |-> ReadText(img, o + 29, n) ]) ]

ReadClass(img, acc) ==
  LET o == acc.pos
      n == Read(img, o + 12, 8)
      fields == ReadTable(ReadField, img, o + 24 + n, Read(img, o + 20 + n, 4))
  IN  [ pos |-> fields.pos,
        seq |-> Append(acc.seq, [ id     |-> Read(img, o, 4),
                                  size   |-> Read(img, o + 4, 8),
                                  name   |-> ReadText(img, o + 20, n),
                                  fields |-> fields.seq ]) ]

ReadString(img, acc) ==
  LET o == acc.pos
      n == Read(img, o + 2, 8)
  IN  [ pos |-> o + 10 + n,
        seq |-> Append(acc.seq, [ id  |-> Read(img, o, 2),
                                  str |-> ReadText(img, o + 10, n) ]) ]

ReadFunc(img, acc) ==
  LET o == acc.pos
      n == Read(img, o + 12, 8)
  IN  [ pos |-> o + 23 + n,
        seq |-> Append(acc.seq, [ id           |-> Read(img, o, 4),
                                  func_start   |-> Read(img, o + 4, 8),
                                  num_of_args  |-> Read(img, o + 20, 1),
                                  num_of_vregs |-> Read(img, o + 21, 2),
                                  name         |-> ReadText(img, o + 23, n) ]) ]

NoCode == [size |-> 0, at |-> [o \in {} |-> 0]]

ReadCode(img, o, n) ==
  IF o \in DOMAIN img /\ img[o][1] = n THEN img[o][2] ELSE NoCode

\* The constructor File(file_name).
ReadFile(img) ==
  LET h == Read(img, 0, FileHeaderSize)
      Num(i) == Read(img, FileHeaderSize + i * EntityHeaderSize, EntityHeaderSize)
  IN  [ Classes   |-> ReadTable(ReadClass, img, h.CLASSES.offset, Num(0)).seq,
        Code      |-> ReadCode(img, h.CODE.offset, h.CODE.size),
        Strings   |-> ReadTable(ReadString, img, h.LITERALS.offset, Num(1)).seq,
        Functions |-> ReadTable(ReadFunc, img, h.FUNCTIONS.offset, Num(2)).seq ]

=============================================================================
