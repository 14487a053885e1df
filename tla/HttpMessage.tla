------------------------------ MODULE HttpMessage ------------------------------
(***************************************************************************)
(* The bytes of an HTTP exchange: how HttpContent announces its length and *)
(* is then written, and how HttpClientMT finds the end of an answer.       *)
(* Bytes are counted, not named.                                           *)
(***************************************************************************)
EXTENDS Integers, Sequences

-------------------------------------------------------------------------------
(* A request's content.  A text keeps its bytes; a stream and the parts of *)
(* a multipart content are read through a buffer that keeps its position.  *)

Text(size) == [kind |-> "text", size |-> size]
Stream(size) == [kind |-> "stream", size |-> size, pos |-> 0]
Part(headers, size) == [headers |-> headers, size |-> size, pos |-> 0]
Multipart(parts) == [kind |-> "multipart", parts |-> parts]

Parts == [headers : Nat, size : Nat, pos : {0}]
HttpContents ==
    [kind : {"text"}, size : Nat] \cup [kind : {"stream"}, size : Nat, pos : {0}]
    \cup [kind : {"multipart"}, parts : Seq(Parts)]

(* --boundary, with its line end or its two closing hyphens.               *)
Boundary == 40

CalcSize(part) == part.headers + 4 + part.size

(* HttpMultipartFormDataContentImpl::GetLength.                            *)
MultipartLength(parts) ==
    LET result[n \in 0..Len(parts)] ==
            IF n = 0 THEN 0 ELSE result[n - 1] + (Boundary + 4 + CalcSize(parts[n]) + 2)
    IN IF parts = <<>> THEN 0 ELSE result[Len(parts)] + Boundary + 6

(* GetLength, when SetContent makes the header of it.                      *)
GetLength(content) ==
    IF content.kind = "multipart" THEN MultipartLength(content.parts) ELSE content.size

(* An output stream: the bytes in it, and its failbit.                     *)
Empty == [bytes |-> 0, failed |-> FALSE]
Put(ost, n) == IF ost.failed THEN ost ELSE [ost EXCEPT !.bytes = @ + n]

(* operator<< of the buffer, which is read from pos: nothing to insert      *)
(* sets failbit.                                                           *)
PutBuffer(ost, part) ==
    IF ost.failed \/ part.size > part.pos THEN Put(ost, part.size - part.pos) ELSE [ost EXCEPT !.failed = TRUE]

(* Part::Save without its seekg.                                           *)
SavePartOnce(ost, part) == PutBuffer(Put(ost, part.headers + 4), part)

(* Part::Save.  What follows a failure is not written.                     *)
SavePart(ost, part) == PutBuffer(Put(ost, part.headers + 4), [part EXCEPT !.pos = 0])

SaveMultipart(ost, parts) ==
    LET after[n \in 0..Len(parts)] ==
            IF n = 0 THEN ost ELSE Put(SavePart(Put(after[n - 1], Boundary + 4), parts[n]), 2)
    IN IF parts = <<>> THEN ost ELSE Put(after[Len(parts)], Boundary + 6)

Save(ost, content) ==
    CASE content.kind = "text" -> Put(ost, content.size)
      [] content.kind = "stream" -> PutBuffer(ost, content)
      [] content.kind = "multipart" -> SaveMultipart(ost, content.parts)

(* The content once saved: its buffers are read to the end.                *)
Saved(content) ==
    CASE content.kind = "text" -> content
      [] content.kind = "stream" -> [content EXCEPT !.pos = content.size]
      [] content.kind = "multipart" ->
           [content EXCEPT !.parts = [i \in DOMAIN @ |-> [@[i] EXCEPT !.pos = content.parts[i].size]]]

(* SendRequest saves the content twice, for the log and for the socket;    *)
(* a retried session has the same request and saves it twice more.         *)
Sent(content) == Save(Empty, Saved(content)).bytes

-------------------------------------------------------------------------------
(* An answer: its Content-Length, the bytes of the body that arrive, how   *)
(* many of them with the header, and what the server does then.            *)

InvalidContentLength == -1
NoHeader == InvalidContentLength

(* The value of a header line; the test of pos loses a single character.   *)
(* A value that is lost is like a header that is not there.                *)
HeaderValue(length) == IF length > 9 THEN length ELSE NoHeader

GetContentLength(answer) == HeaderValue(answer.length)

Delivered(n) == [end |-> "delivered", size |-> n]
Failed == [end |-> "failed", size |-> 0]
Waits == [end |-> "waits", size |-> 0]

(* HandleReadContentByLength called with any error but eof ignored.        *)
ByLengthUnchecked(length, size) == Delivered(IF size < length THEN size ELSE length)

(* HandleReadContentByLength: size is what the buffer then holds.          *)
ByLength(length, size) == IF size = length THEN Delivered(size) ELSE Failed

(* ReadContentAll, until the server closes or the connection breaks.       *)
ReadAll(answer) ==
    CASE answer.after = "open" -> Waits
      [] answer.after = "eof" -> Delivered(answer.body)
      [] answer.after = "reset" -> Failed

(* HandleReadHeaders and the reading of the content.                       *)
ReadContent(answer) ==
    LET length == GetContentLength(answer)
    IN IF length = InvalidContentLength THEN ReadAll(answer)
       ELSE IF length <= answer.buffered THEN ByLength(length, answer.buffered)
       ELSE IF length <= answer.body THEN ByLength(length, length)
       ELSE IF answer.after = "open" THEN Waits
       ELSE IF answer.after = "reset" THEN Failed
       ELSE ByLength(length, answer.body)
===============================================================================
