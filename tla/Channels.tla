------------------------------ MODULE Channels ------------------------------
(***************************************************************************)
(* One channel (cmd_channel.rs): the bytes of a device decoded, their line *)
(* endings translated and what was read ahead kept for `gets` and `read`;  *)
(* what `puts` writes translated, encoded and kept until it is flushed;    *)
(* `seek` and `close` over both.  The device is a file, a stream that gives*)
(* what it has, or a driver whose output procedure runs scripts.           *)
(***************************************************************************)
EXTENDS Integers, SequencesExt

CONSTANTS
  Files,       (* what the device holds when the channel is opened           *)
  Kinds,       (* of devices: "file", "stream", "console"                    *)
  Texts,       (* what scripts write                                         *)
  Sizes,       (* of a device read, and of what is held back when writing    *)
  Offsets,     (* that scripts seek to                                       *)
  Counts,      (* of characters that scripts read, and All                   *)
  MaxBytes,    (* bound: how long the file gets                              *)
  MaxTurns,    (* bound: changes of options, and seeks                       *)
  Departures,  (* what scripts and data do that a channel does not allow for *)
  All

(* Bytes: a character of one byte, the line endings, the two bytes of a      *)
(* longer character, one that is in no UTF-8 text, and what stands for a     *)
(* character ISO 8859-1 has not.                                             *)
Bytes == {"a", "n", "r", "L", "T", "X", "q"}
Wide  == "LT"                            \* the longer character, decoded
Bad   == "bad"                           \* the replacement character

Translations == {"auto", "lf", "cr", "crlf"}
Encodings    == {"utf-8", "iso8859-1"}

ASSUME KindsAssumption == Kinds \subseteq {"file", "stream", "console"}
ASSUME TextsAssumption == Files \subseteq Seq(Bytes) /\ Texts \subseteq Seq({"a", "n", Wide})
ASSUME NumbersAssumption ==
  /\ Sizes \subseteq Nat \ {0} /\ Offsets \subseteq Int /\ Counts \subseteq Nat \cup {All}
  /\ MaxBytes \in Nat /\ MaxTurns \in Nat
ASSUME DeparturesAssumption ==
  Departures \subseteq {"held", "invalid", "wide", "configure", "mixed", "cr", "reentry"}

VARIABLES
  kind, mode,  (* of the device, and which sides the channel has             *)
  file, pos,   (* the device: what it holds, and where it is                 *)
  opts,        (* translations, encoding, buffering and size                 *)
  raw,         (* bytes read and not decoded                                 *)
  pending,     (* characters not yet given to a script                       *)
  device_eof, saw_cr,
  out,         (* bytes written and not yet handed to the device             *)
  lent,        (* those a flush has taken and the device has not             *)
  late,        (* history: a flush left them, the device being lent out      *)
  doing,       (* the command being served                                   *)
  open,        (* whether the table has the channel                          *)
  from, got,   (* history: where reading began, the characters given since   *)
  meant,       (* history: the file, had every `puts` reached it at once     *)
  turns        (* how often options changed or a seek moved                  *)

input  == <<raw, pending, device_eof, saw_cr>>
output == <<out, lent, late>>
device == <<kind, mode, file, pos>>
read   == <<from, got>>
vars   == <<device, opts, input, output, doing, open, read, meant, turns>>

Idle     == [what |-> "nothing", count |-> 0, whence |-> "start"]
Busy     == doing # Idle
Readable == "read" \in mode
Writable == "write" \in mode
Seekable == kind = "file"
Unread   == raw # <<>> \/ pending # <<>> \/ saw_cr

(* Where departures begin; see the properties.                               *)
Allows(departure, condition) == condition \/ departure \in Departures

----------------------------------------------------------------------------
(* Texts.  A byte of a longer character is decoded with its other.           *)
Joined(s, i) == i \in 1 .. Len(s) - 1 /\ s[i] = "L" /\ s[i + 1] = "T"

Chosen(positions, As(_)) ==
  LET at == SetToSortSeq(positions, <) IN [k \in 1 .. Len(at) |-> As(at[k])]

(* String::from_utf8_lossy.                                                  *)
Lossy(s) ==
  Chosen({i \in DOMAIN s : ~Joined(s, i - 1)},
         LAMBDA i : IF Joined(s, i) THEN Wide ELSE IF s[i] \in {"L", "T", "X"} THEN Bad ELSE s[i])

Characters(encoding, s) == IF encoding = "utf-8" THEN Lossy(s) ELSE s

(* Utf8Error::valid_up_to: how many bytes are whole characters.              *)
valid_up_to(s) ==
  Cardinality({k \in DOMAIN s : \A i \in 1 .. k :
                 s[i] \notin {"L", "T", "X"} \/ Joined(s, i - 1) \/ Joined(s, i)})

(* The line endings of a text that is all there.                             *)
Lines(translation, s) ==
  LET Pair(i) == i \in 1 .. Len(s) - 1 /\ s[i] = "r" /\ s[i + 1] = "n"
  IN  CASE translation = "lf"   -> s
        [] translation = "cr"   -> [i \in DOMAIN s |-> IF s[i] = "r" THEN "n" ELSE s[i]]
        [] translation = "auto" -> Chosen({i \in DOMAIN s : ~Pair(i - 1)},
                                          LAMBDA i : IF s[i] = "r" THEN "n" ELSE s[i])
        [] translation = "crlf" -> Chosen({i \in DOMAIN s : ~Pair(i)}, LAMBDA i : s[i])

(* translate_in, one character.                                              *)
Auto(st, c) ==
  IF st.cr /\ c = "n" THEN [st EXCEPT !.cr = FALSE]
  ELSE [text |-> Append(st.text, IF c = "r" THEN "n" ELSE c), cr |-> c = "r"]

Crlf(st, c) ==
  LET before == IF st.cr /\ c # "n" THEN Append(st.text, "r") ELSE st.text
  IN  IF c = "r" THEN [text |-> before, cr |-> TRUE]
      ELSE [text |-> Append(before, c), cr |-> FALSE]

translate_in(st, text) ==
  CASE opts.input = "lf"   -> [st EXCEPT !.text = @ \o text]
    [] opts.input = "cr"   -> [st EXCEPT !.text = @ \o Lines("cr", text)]
    [] opts.input = "auto" -> FoldLeft(Auto, st, text)
    [] opts.input = "crlf" -> FoldLeft(Crlf, st, text)

translate_out(text) ==
  FlattenSeq([i \in DOMAIN text |->
     IF text[i] # "n" THEN <<text[i]>>
     ELSE CASE opts.output = "cr" -> <<"r">> [] opts.output = "crlf" -> <<"r", "n">>
            [] OTHER -> <<"n">>])

encode(text) ==
  FlattenSeq([i \in DOMAIN text |->
     IF text[i] # Wide THEN <<text[i]>>
     ELSE IF opts.encoding = "utf-8" THEN <<"L", "T">> ELSE <<"q">>])

(* Bytes written into a file at a position.                                  *)
Written(f, at, bytes) ==
  [i \in 1 .. (IF bytes = <<>> \/ Len(f) > at + Len(bytes) THEN Len(f) ELSE at + Len(bytes)) |->
     IF i \in at + 1 .. at + Len(bytes) THEN bytes[i - at]
     ELSE IF i <= Len(f) THEN f[i] ELSE "a"]

----------------------------------------------------------------------------
(* Reading.                                                                  *)
Ask(what, n) ==
  /\ open /\ Readable /\ ~Busy
  /\ Allows("mixed", out = <<>>)
  /\ doing' = [Idle EXCEPT !.what = what, !.count = n]
  /\ UNCHANGED <<device, opts, input, output, open, read, meant, turns>>

LineAt(s) == SelectInSeq(s, LAMBDA c : c = "n")

Wanting ==
  \/ doing.what = "gets" /\ LineAt(pending) = 0
  \/ doing.what = "read" /\ IF doing.count = All THEN TRUE ELSE Len(pending) < doing.count

Left == Len(file) - pos

(* decode: every whole character out of `raw`; (all of it, whole or not).    *)
AllOfIt(s) == Len(s)
WholeIn(s) == IF opts.encoding = "utf-8" THEN valid_up_to(s) ELSE Len(s)

decode(s) ==
  LET whole == WholeIn(s)
      after == translate_in([text |-> pending, cr |-> saw_cr],
                            Characters(opts.encoding, SubSeq(s, 1, whole)))
  IN  /\ raw' = SubSeq(s, whole + 1, Len(s))
      /\ pending' = after.text /\ saw_cr' = after.cr

(* What is to be read is UTF-8, but for the end.                             *)
Decodable ==
  LET s == SubSeq(file, from + 1, Len(file))
  IN  \A i \in DOMAIN s : /\ s[i] # "X"
                          /\ s[i] = "T" => Joined(s, i - 1)
                          /\ s[i] = "L" => i = Len(s) \/ Joined(s, i)

(* fill: the device gives bytes, a stream as many as it has.                 *)
Given == IF kind = "file" THEN {Min({opts.size, Left})} ELSE 1 .. Min({opts.size, Left})

Fill ==
  /\ Wanting /\ ~device_eof /\ Left > 0
  /\ Allows("invalid", opts.encoding = "utf-8" => Decodable)
  /\ \E n \in Given :
        LET s == raw \o SubSeq(file, pos + 1, pos + n)
        IN  decode(s) /\ pos' = pos + n
  /\ UNCHANGED <<kind, mode, file, opts, device_eof, output, doing, open, read, meant, turns>>

(* It has no more: a character cut off is decoded for what it is.            *)
FillAtEnd ==
  /\ Wanting /\ ~device_eof /\ Left <= 0
  /\ Allows("held", opts.input = "crlf" => ~saw_cr)
  /\ device_eof' = TRUE
  /\ LET after == translate_in([text |-> pending, cr |-> FALSE], Lossy(raw))
     IN  pending' = after.text /\ saw_cr' = after.cr
  /\ raw' = <<>>
  /\ UNCHANGED <<device, opts, output, doing, open, read, meant, turns>>

FillFails ==
  /\ Wanting /\ ~device_eof
  /\ doing' = Idle
  /\ UNCHANGED <<device, opts, input, output, open, read, meant, turns>>

(* What a script is given, of what is pending.                               *)
Taken ==
  IF doing.what = "gets" THEN IF LineAt(pending) > 0 THEN LineAt(pending) ELSE Len(pending)
  ELSE IF doing.count = All THEN Len(pending) ELSE Min({doing.count, Len(pending)})

Answer ==
  /\ doing.what \in {"gets", "read"} /\ (~Wanting \/ device_eof)
  /\ got' = got \o SubSeq(pending, 1, Taken)
  /\ pending' = SubSeq(pending, Taken + 1, Len(pending))
  /\ doing' = Idle
  /\ UNCHANGED <<device, opts, raw, device_eof, saw_cr, output, open, from, meant, turns>>

----------------------------------------------------------------------------
(* Writing.  A driver's output procedure runs scripts: they may write to the *)
(* channel whose device is lent out to that very call.                       *)
Reentrant == kind = "console" /\ lent # <<>>

(* flush_id: what is out is handed over; with the device lent out it comes   *)
(* back to where it was, and stays when the flush under way is over.         *)
Flushing(bytes, what) ==
  IF lent # <<>> THEN out' = bytes /\ late' = (bytes # <<>>) /\ UNCHANGED <<lent, doing>>
  ELSE /\ lent' = bytes /\ out' = <<>> /\ late' = FALSE
       /\ doing' = IF bytes = <<>> /\ what = "flush" THEN Idle ELSE [Idle EXCEPT !.what = what]

(* Whether it is time to flush; (a byte late).                               *)
ReadyLate(bytes, translated) ==
  CASE opts.buffering = "none" -> TRUE
    [] opts.buffering = "line" -> Contains(translated, "n")
    [] opts.buffering = "full" -> Len(bytes) > opts.size
Ready(bytes, translated) ==
  CASE opts.buffering = "none" -> TRUE
    [] opts.buffering = "line" -> Contains(translated, "n")
    [] opts.buffering = "full" -> Len(bytes) >= opts.size

(* `puts`: what it is meant to do is done at once.                           *)
puts(text) ==
  /\ open /\ Writable /\ (~Busy \/ Reentrant)
  /\ Len(meant) + 2 * Len(text) <= MaxBytes
  /\ Allows("mixed", ~Unread)
  /\ Allows("cr", opts.buffering = "line" => opts.output # "cr")
  /\ Allows("reentry", Reentrant => doing.what # "close")
  /\ LET translated == translate_out(text)
         bytes      == out \o encode(translated)
     IN  /\ meant' = Written(meant, pos + Len(lent) + Len(out), encode(translated))
         /\ IF Ready(bytes, translated) THEN Flushing(bytes, "flush")
            ELSE out' = bytes /\ UNCHANGED <<lent, late, doing>>
  /\ UNCHANGED <<device, opts, input, open, read, turns>>

flush ==
  /\ open /\ Writable /\ (~Busy \/ Reentrant)
  /\ Flushing(out, "flush")
  /\ UNCHANGED <<device, opts, input, open, read, meant, turns>>

(* The device takes some of it, and the last of it ends a flush; where it is *)
(* then is where reading would go on.                                        *)
Accept ==
  /\ lent # <<>>
  /\ \E n \in 1 .. Len(lent) :
        /\ file' = Written(file, pos, SubSeq(lent, 1, n))
        /\ pos' = pos + n
        /\ lent' = SubSeq(lent, n + 1, Len(lent))
        /\ doing' = IF n = Len(lent) /\ doing.what = "flush" THEN Idle ELSE doing
  /\ from' = pos' /\ got' = <<>>
  /\ UNCHANGED <<kind, mode, opts, input, out, late, open, meant, turns>>

(* It fails: the rest is dropped and the command that flushed says so.       *)
AcceptFails ==
  /\ lent # <<>>
  /\ lent' = <<>>
  /\ meant' = Written(file, pos, out)
  /\ doing' = IF doing.what = "close" THEN doing ELSE Idle
  /\ UNCHANGED <<device, opts, input, out, late, open, read, turns>>

----------------------------------------------------------------------------
(* `seek`, once what was written is out (or not): what was read ahead goes.  *)
KeepsIt    == UNCHANGED output
HandsOver  == lent' = out /\ out' = <<>> /\ late' = FALSE

(* What was decoded since reading began has a byte for each character.       *)
OneByteEach ==
  LET s == SubSeq(file, from + 1, pos - Len(raw))
  IN  /\ opts.encoding = "utf-8" => \A i \in DOMAIN s : s[i] \notin {"L", "T", "X"}
      /\ opts.input \in {"auto", "crlf"} => \A i \in 1 .. Len(s) - 1 : s[i] # "r" \/ s[i + 1] # "n"
      /\ opts.input = "crlf" => ~saw_cr

seek(offset, whence) ==
  /\ open /\ ~Busy /\ turns < MaxTurns
  /\ Allows("wide", whence = "current" => OneByteEach)
  /\ HandsOver
  /\ doing' = [what |-> "seek", count |-> offset, whence |-> whence]
  /\ turns' = turns + 1
  /\ UNCHANGED <<device, opts, input, open, read, meant>>

Ahead == Len(pending) + Len(raw)

Target ==
  CASE doing.whence = "start"   -> IF doing.count > 0 THEN doing.count ELSE 0
    [] doing.whence = "current" -> pos + doing.count - Ahead
    [] doing.whence = "end"     -> Len(file) + doing.count

SeekMoves ==
  /\ doing.what = "seek" /\ lent = <<>>
  /\ doing' = Idle
  /\ IF Seekable /\ Target >= 0
     THEN /\ pos' = Target /\ got' = <<>>
          /\ from' = IF doing.whence = "current" THEN from + Len(encode(got)) + doing.count ELSE Target
          /\ raw' = <<>> /\ pending' = <<>> /\ device_eof' = FALSE /\ saw_cr' = FALSE
     ELSE UNCHANGED <<pos, read, input>>
  /\ UNCHANGED <<kind, mode, file, opts, output, open, meant, turns>>

tell == pos - Ahead

----------------------------------------------------------------------------
(* `close`: what is out is flushed, then the table forgets the channel.  With*)
(* the device lent out it does so at once.                                   *)
close ==
  /\ open /\ (~Busy \/ Reentrant)
  /\ Allows("reentry", ~Reentrant)
  /\ IF Reentrant THEN open' = FALSE /\ UNCHANGED <<output, doing>>
     ELSE /\ HandsOver /\ doing' = [Idle EXCEPT !.what = "close"]
          /\ UNCHANGED open
  /\ UNCHANGED <<device, opts, input, read, meant, turns>>

CloseEnds ==
  /\ doing.what = "close" /\ lent = <<>>
  /\ open' = FALSE /\ doing' = Idle
  /\ UNCHANGED <<device, opts, input, output, read, meant, turns>>

(* `fconfigure`: `-translation`, of one word for both sides or of a word for *)
(* each, `-encoding`, `-buffering` and `-buffersize`.                        *)
parse_translation(word, auto) ==
  CASE word = "auto" -> auto [] word = "binary" -> "lf" [] OTHER -> word

Configured ==
  {[opts EXCEPT !.input    = IF Readable THEN parse_translation(r, "auto") ELSE @,
                !.output   = IF Writable THEN parse_translation(w, "lf") ELSE @,
                !.encoding = IF (Readable /\ r = "binary") \/ (Writable /\ w = "binary")
                             THEN "iso8859-1" ELSE @] : r, w \in Translations \cup {"binary"}}
  \cup {[opts EXCEPT !.encoding = e] : e \in Encodings}
  \cup {[opts EXCEPT !.buffering = b] : b \in {"full", "line", "none"}}
  \cup {[opts EXCEPT !.size = n] : n \in Sizes}

fconfigure ==
  /\ open /\ ~Busy /\ turns < MaxTurns
  /\ Allows("configure", ~Unread /\ out = <<>>)
  /\ opts' \in Configured \ {opts}
  /\ from' = pos /\ got' = <<>>
  /\ turns' = turns + 1
  /\ UNCHANGED <<device, input, output, doing, open, meant>>

----------------------------------------------------------------------------
Init ==
  /\ kind \in Kinds
  /\ mode \in CASE kind = "file"    -> {{"read"}, {"write"}, {"read", "write"}}
               [] kind = "stream"  -> {{"read"}}
               [] kind = "console" -> {{"write"}}
  /\ file \in IF kind = "console" THEN {<<>>} ELSE Files
  /\ pos = 0
  /\ opts \in [input : {"auto"}, output : {"lf"}, encoding : {"utf-8"}, buffering : {"full"}, size : Sizes]
  /\ raw = <<>> /\ pending = <<>> /\ device_eof = FALSE /\ saw_cr = FALSE
  /\ out = <<>> /\ lent = <<>> /\ late = FALSE /\ doing = Idle /\ open = TRUE
  /\ from = 0 /\ got = <<>> /\ meant = file /\ turns = 0

Next ==
  \/ Ask("gets", 0) \/ \E n \in Counts : Ask("read", n)
  \/ Fill \/ FillAtEnd \/ FillFails \/ Answer
  \/ (\E text \in Texts : puts(text)) \/ flush \/ Accept \/ AcceptFails
  \/ (\E n \in Offsets, whence \in {"start", "current", "end"} : seek(n, whence)) \/ SeekMoves
  \/ close \/ CloseEnds \/ fconfigure

Spec == Init /\ [][Next]_vars

----------------------------------------------------------------------------
TypeOK ==
  /\ file \in Seq(Bytes) /\ pos \in Nat /\ raw \in Seq(Bytes)
  /\ out \in Seq(Bytes) /\ lent \in Seq(Bytes) /\ meant \in Seq(Bytes)
  /\ pending \in Seq(Bytes \cup {Wide, Bad}) /\ got \in Seq(Bytes \cup {Wide, Bad})
  /\ late \in BOOLEAN /\ device_eof \in BOOLEAN /\ saw_cr \in BOOLEAN /\ open \in BOOLEAN
  /\ turns \in 0 .. MaxTurns /\ from \in Nat
  /\ lent # <<>> => Busy

(* However the device's reads cut characters and line endings, what scripts  *)
(* are given and what waits for them is the decoded text from where reading  *)
(* began, all of it at the end; nothing waits to be decoded but the start of *)
(* a character; and with a byte for each character `tell` is the place after *)
(* what was given.                                                           *)
ReadsWhatIsThere ==
  LET s == SubSeq(file, from + 1, Len(file))
      text == Lines(opts.input, Characters(opts.encoding, s))
  IN  Readable =>
        /\ IsPrefix(got \o pending, text)
        /\ device_eof /\ doing.what # "seek" => got \o pending = text
        /\ raw \in {<<>>, <<"L">>}
        /\ Seekable /\ ~Busy /\ out = <<>> /\ OneByteEach =>
             got = Lines(opts.input, Characters(opts.encoding, SubSeq(file, from + 1, tell)))

(* Every byte written is at the place in the file where the script was when  *)
(* it wrote it, or is on the way there; none is left out when the channel is *)
(* closed.                                                                   *)
WritesLandWhereMeant ==
  /\ TypeOK
  /\ Written(file, pos, lent \o out) = meant
  /\ ~open => out = <<>>

(* Between commands a channel holds back no more than its buffering says, a  *)
(* file and a driver alike: an unfinished line, less than a buffer, nothing. *)
(* But for one thing: what a driver's own script had written in the middle   *)
(* of a flush is there until the next flush, however due it was.             *)
LineEnd == CASE opts.output = "cr" -> "r" [] OTHER -> "n"
LeavesInTime ==
  open /\ ~Busy /\ ~late =>
    CASE opts.buffering = "none" -> out = <<>>
      [] opts.buffering = "line" -> ~Contains(out, LineEnd)
      [] opts.buffering = "full" -> Len(out) < opts.size
=============================================================================
