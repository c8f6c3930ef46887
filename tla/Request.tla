------------------------------- MODULE Request -------------------------------
(***************************************************************************)
(* What a worker makes of a request that was read: request::request decodes *)
(* the path (urlpath.c), parse_request has the body parsed (PostData),     *)
(* lumithc::serve looks for a mapped folder (static.c), and handle_static  *)
(* names the file or request_to_xml writes the message for the backend     *)
(* into a str_buffer.                                                      *)
(***************************************************************************)
EXTENDS StrBuffer, UrlPath

CONSTANTS
  Requests,   \* path, as picohttpparser returns it, and body
  Boundary,   \* see PostData
  HeapBytes,  \* the bytes that memory may hold which was not written
  Folders,    \* urls of the mapped folders
  Preamble,   \* what request_to_xml writes before the path, call by call
  Closing     \* and behind it

VARIABLES
  raw,        \* the path as it came
  step,       \* how far the request is
  path,       \* req->path
  folder,     \* the folder it is mapped to, or 0
  file,       \* the name handle_static opens, without the folder's local part
  part,       \* request_to_xml: calls of str_append so far
  post, stage, pstate, offset, mark, valStart, index, isContent, vals

Post == INSTANCE PostData WITH i <- offset

\* picohttpparser refuses a path with a NUL in it.
ASSUME RequestsAssumption ==
  \A r \in Requests :
     r.path \in Seq(Byte \ {0}) /\ r.post \in Post!PostShape /\ Post!IsMeant(r.post)
\* The boundary comes from a header's value, in which is no line end.
ASSUME BoundaryAssumption ==
  Boundary \in Seq(STRING) /\ Len(Boundary) > 0 /\ "cr" \notin ToSet(Boundary)
ASSUME BytesAssumption ==
  /\ Byte = 0..255 /\ HeapBytes \subseteq Byte
  /\ Folders \in Seq(Seq(Byte \ {0}))
  /\ Preamble \in Seq(Seq(Byte)) /\ Len(Preamble) > 0
  /\ Closing \in Seq(Byte)

postvars == <<post, stage, pstate, offset, mark, valStart, index, isContent, vals>>
request == <<raw, path, folder, file>>
allvars == <<vars, raw, step, path, folder, file, part, postvars>>

NoPath == [mem |-> [i \in {0} |-> 0], len |-> 0, slashcnt |-> 0]

\* request::request.  For an empty path decode's loop counts its length down
\* from 0 and reads until the process dies.
Construct ==
  /\ step = "raw"
  /\ LET in == WithoutSlash(raw) IN
     \/ /\ in = <<>>
        /\ step' = "crashed"
        /\ UNCHANGED path
     \/ /\ in # <<>>
        /\ step' = "body"
        /\ \E heap \in HeapBytes : path' = Decode(in, heap)
  /\ UNCHANGED <<vars, postvars, raw, folder, file, part>>

\* parse_request, after that: a step of the parser that the body is given to.
ParseBody ==
  /\ step = "body"
  /\ Post!Parse
  /\ UNCHANGED <<vars, request, step, part>>

\* lumithc::serve, with handle_static.
Serve ==
  /\ step = "body" /\ stage = "toxml"
  /\ folder' = IsMapped(path, Folders)
  /\ IF folder' # 0
     THEN step' = "static" /\ file' = GetFile(path)
     ELSE step' = "xml" /\ UNCHANGED file
  /\ UNCHANGED <<vars, postvars, raw, path, part>>

\* request_to_xml: the post data is walked over behind the thread id.
BodyToXml ==
  /\ step = "xml" /\ part = 1
  /\ Post!ToXml
  /\ UNCHANGED <<vars, request, step, part>>

\* The calls before the path.
AppendPreamble ==
  /\ step = "xml"
  /\ part < Len(Preamble)
  /\ part = 1 => stage = "written"
  /\ StrAppend(Preamble[part + 1])
  /\ part' = part + 1
  /\ UNCHANGED <<postvars, request, step>>

\* Mutant of AppendPath: the first byte is taken for a slash.
MutAppendPathFromOne ==
  /\ step = "xml"
  /\ part = Len(Preamble)
  /\ ValBegin(CString(path, 1))
  /\ step' = "path"
  /\ UNCHANGED <<postvars, request, part>>

\* The path, as the C string getpath gives.
AppendPath ==
  /\ step = "xml"
  /\ part = Len(Preamble)
  /\ ValBegin(CString(path, 0))
  /\ step' = "path"
  /\ UNCHANGED <<postvars, request, part>>

AppendLetter ==
  /\ step = "path"
  /\ ValLetter
  /\ UNCHANGED <<postvars, request, step, part>>

AppendNul ==
  /\ step = "path"
  /\ ValEnd
  /\ step' = "close"
  /\ UNCHANGED <<postvars, request, part>>

\* And what follows the path: the message is complete.
AppendClosing ==
  /\ step = "close"
  /\ StrAppend(Closing)
  /\ step' = "sent"
  /\ UNCHANGED <<postvars, request, part>>

RequestInit ==
  /\ Init
  /\ \E r \in Requests : raw = r.path /\ post = r.post
  /\ Post!Init
  /\ step = "raw"
  /\ path = NoPath
  /\ folder = 0
  /\ file = <<>>
  /\ part = 0

Write ==
  \/ BodyToXml
  \/ AppendPreamble \/ AppendPath \/ AppendLetter \/ AppendNul \/ AppendClosing

RequestNext == Construct \/ ParseBody \/ Serve \/ Write

\* The loops over the body and over the message run on: a worker waits for
\* nobody between its read and its write.
RequestSpec ==
  /\ RequestInit /\ [][RequestNext]_allvars
  /\ WF_allvars(ParseBody) /\ WF_allvars(Write)

-----------------------------------------------------------------------------
(***************************************************************************)
(* Reference definitions, and properties.                                  *)
(***************************************************************************)
\* Every % has its two digits.
WellFormed(in) ==
  \A i \in 1..Len(in) : in[i] = Percent =>
     i + 2 <= Len(in) /\ IsHex(in[i + 1]) /\ IsHex(in[i + 2])

\* Where the letters of a well-formed path start, and what they are decoded.
Starts(in) ==
  {i \in 1..Len(in) : \A j \in {i - 1, i - 2} \cap (1..Len(in)) : in[j] # Percent}

Decoded(in, i) == IF in[i] = Percent THEN HexByte(in[i + 1], in[i + 2]) ELSE in[i]

\* A path without escapes.
Plain(in) == \A i \in 1..Len(in) : in[i] # Percent

In == WithoutSlash(raw)

\* The type of the state; the offsets of the post parser, and the names and
\* values it finds, are in the body (postdata.c:25-38, 86,
\* multipart_parser.c:153, 159).
RequestTypeOK ==
  /\ TypeOK
  /\ Post!TypeOK
  /\ raw \in Seq(Byte)
  /\ step \in {"raw", "crashed", "body", "static", "xml", "path", "close", "sent"}
  /\ path.len \in Nat /\ path.slashcnt \in 0..path.len
  /\ path.mem \in [0..path.len -> Byte]
  /\ folder \in 0..Len(Folders)
  /\ file \in Seq(Byte)
  /\ part \in 0..Len(Preamble)

\* A path starts with its decoding, escapes in any number and place; what
\* follows is the memory the code read past the end (urlpath.c:16-31).
PathStartsDecoded ==
  path # NoPath /\ WellFormed(In) =>
    \A i \in Starts(In) :
      path.mem[Cardinality({j \in Starts(In) : j < i})] = Decoded(In, i)

\* url is one name; the path is that name and a file's name, or a folder's
\* with a slash behind it.
NamesFileIn(in, url) ==
  /\ Len(in) > Len(url) + 1
  /\ SubSeq(in, 1, Len(url) + 1) = url \o <<Slash>>
  /\ \A i \in Len(url) + 2 .. Len(in) - 1 : in[i] # Slash

OneName == \A k \in 1..Len(Folders) : Slash \notin ToSet(Folders[k])

\* With folders of one name (as in conf.xml), a path without escapes is
\* mapped exactly if it names a file in one of them, and that file's name is
\* opened (urlpath.c:91-115, static.c:30-37, lumith.c:75).
MappedRight ==
  OneName /\ Plain(In) /\ step \notin {"raw", "body", "crashed"} =>
    LET fits == {i \in 1..Len(Folders) : NamesFileIn(In, Folders[i])} IN
    /\ folder = 0 => fits = {}
    /\ folder # 0 =>
         /\ folder \in fits
         /\ file = SubSeq(In, Len(Folders[folder]) + 2, Len(In))

\* The message has the path with its escapes, between what goes before and
\* behind, if the area did not grow within the path (lumith.c:299-336).
MessageWhole ==
  step = "sent" /\ ~lost =>
    content = FlattenSeq(Preamble)
              \o FlattenSeq([i \in 1..Len(CString(path, 0)) |->
                               Escape(CString(path, 0)[i])])
              \o Closing

\* The parts of a multipart body are found, of one that a short read cut off
\* as far as it goes (multipart_parser.c:112, 159).
PartsTrue == Post!PartsFound /\ Post!CutPartsTrue

\* The pairs of an urlencoded body are found, each once, in order
\* (postdata.c:21-38).
PairsFound == Post!PairsFound

\* A worker survives every post but those without post data, urlencoded ones
\* without any =, and multipart ones whose first part has no name
\* (server.c:311, lumith.c:311, postdata.c:102).
PostSurvived == Post!PostSurvived

\* The parser, which looks at letters again, comes to the end of the body, and
\* the copying into an area that grows to the end of the message, unless the
\* worker dies (multipart_parser.c:129, str_buffer.c:56).
RequestEnds ==
  /\ step = "body" ~> stage # "parse"
  /\ step = "xml" ~> (step = "sent" \/ stage = "crashed")

\* Every path gets as far as a file or a message: the worker survives it.
RequestSurvived == step # "crashed"
=============================================================================
