---------------------------------- MODULE Sci ----------------------------------
(***************************************************************************)
(* sh-sci.c: the serial line, by the SCI with a register each way or by    *)
(* the SCIF of an SH-4 with a FIFO each way (external).  The driver polls; *)
(* characters come whether it does or not.  An overrun stops reception     *)
(* until its flag is cleared, on the SCI any error does; a flag is cleared *)
(* by writing 0 after it has been read as 1.  Where an SH-3 or an SH7300   *)
(* keep the overrun of their SCIF, the driver does not look.               *)
(***************************************************************************)
EXTENDS Integers, Sequences

CONSTANTS
  FIFO,          \* characters in a FIFO of the SCIF: 16 in the chip
  TRIGGER,       \* TDFE is set while no more than so many wait to be sent: 8
  COUNTS,        \* range of count: 2^32 in the code
  MaxChars       \* bound: characters that come, and characters to put

ASSUME SciConstantsOK ==
  /\ FIFO \in Nat \ {0} /\ TRIGGER \in 0 .. FIFO - 1
  /\ COUNTS \in Nat \ {0} /\ MaxChars \in Nat

VARIABLES
  port,               \* "SCI" or "SCIF", as configured
  rdr, rdf,           \* external: characters to read, RDRF or RDF
  err, orer,          \* external: ER, FER, PER, BRK; ORER
  tdr, tde,           \* external: characters to send, TDRE or TDFE
  come, sent,         \* external: characters that came; the last one sent
  dropped,            \* history: characters that came and the port did not keep
  pc, then,           \* the driver: where it is, what handleError is called in
  count,              \* of getDebugCharTimeout; NoCount in getDebugChar
  status,             \* what it has read: RD_F, and whether any of the error flags
  got,                \* the character read last
  put                 \* the character put last

line == <<rdr, rdf, err, orer, come, dropped>>
out == <<tdr, tde, sent, put>>
vars == <<port, line, out, pc, then, count, status, got>>

NoCount == -1
Char == 0 .. MaxChars

TypeOK ==
  /\ port \in {"SCI", "SCIF"}
  /\ rdr \in Seq(Char) /\ tdr \in Seq(Char) /\ Len(rdr) <= FIFO /\ Len(tdr) <= FIFO
  /\ {rdf, err, orer, tde} \subseteq BOOLEAN
  /\ dropped \subseteq Char
  /\ come \in Char /\ sent \in Char /\ got \in Char /\ put \in Char
  /\ pc \in {"idle", "poll", "error", "overrun", "ready", "read", "status", "clear", "put", "sent"}
  /\ then \in {"ready", "idle"} /\ count \in NoCount .. COUNTS - 1
  /\ status \in [rd_f : BOOLEAN, error : BOOLEAN]

----------------------------------------------------------------------------
(* The port *)

Depth == IF port = "SCI" THEN 1 ELSE FIFO
Stopped == orer \/ (port = "SCI" /\ err)

\* A good character or a damaged one.  The SCI does not set RDRF for a damaged one,
\* and takes what is in its register for unread as long as RDRF is set.
CharComes ==
  /\ come < MaxChars /\ come' = come + 1
  /\ \E bad \in BOOLEAN :
       LET kept == ~Stopped /\ (IF port = "SCI" THEN ~rdf /\ ~bad ELSE Len(rdr) < FIFO)
       IN /\ dropped' = IF kept THEN dropped ELSE dropped \cup {come'}
          /\ IF Stopped THEN UNCHANGED <<rdr, rdf, err, orer>>
             ELSE IF port = "SCI" THEN
               /\ orer' = rdf /\ err' = bad
               /\ rdr' = (IF rdf THEN rdr ELSE <<come'>>) /\ rdf' = (rdf \/ ~bad)
             ELSE IF ~kept THEN orer' = TRUE /\ UNCHANGED <<rdr, rdf, err>>
             ELSE rdr' = Append(rdr, come') /\ rdf' = TRUE /\ err' = (err \/ bad) /\ UNCHANGED orer
  /\ UNCHANGED <<port, out, pc, then, count, status, got>>

\* What is written for the port to send goes out once TDRE is clear; a SCIF does not wait.
CharGoes ==
  /\ tdr # <<>> /\ (port = "SCI" => ~tde)
  /\ sent' = Head(tdr) /\ tdr' = Tail(tdr) /\ tde' = (port = "SCI" \/ Len(tdr') <= TRIGGER)
  /\ UNCHANGED <<port, line, put, pc, then, count, status, got>>

----------------------------------------------------------------------------
(* handleError *)

\* SSR is read and its error flags written as 0, and then, on an SCIF, ORER of SCLSR.
ErrorsCleared == err' = FALSE /\ orer' = FALSE

SeenErrors == err \/ (port = "SCI" /\ orer)

\* The status is read; errors are looked at after it, and ORER of SCLSR again.
HandleError ==
  /\ pc = "error" /\ pc' = "overrun"
  /\ IF status.error THEN ErrorsCleared ELSE UNCHANGED <<err, orer>>
  /\ UNCHANGED <<port, rdr, rdf, come, dropped, out, then, count, status, got>>

HandleOverrun ==
  /\ pc = "overrun" /\ pc' = then
  /\ IF port = "SCIF" /\ orer THEN ErrorsCleared ELSE UNCHANGED <<err, orer>>
  /\ UNCHANGED <<port, rdr, rdf, come, dropped, out, then, count, status, got>>

----------------------------------------------------------------------------
(* getDebugChar and getDebugCharTimeout *)

Get(n) ==
  /\ pc = "idle" /\ pc' = "poll" /\ count' = n
  /\ UNCHANGED <<port, line, out, then, status, got>>

\* A mutant looks at the errors only when there is a character.
ReadyBlind ==
  /\ pc = "poll"
  /\ status' = [rd_f |-> rdf, error |-> SeenErrors]
  /\ pc' = (IF rdf THEN "error" ELSE "ready") /\ then' = "ready"
  /\ UNCHANGED <<port, line, out, count, got>>

getDebugCharReady ==
  /\ pc = "poll"
  /\ status' = [rd_f |-> rdf, error |-> SeenErrors]
  /\ pc' = "error" /\ then' = "ready"
  /\ UNCHANGED <<port, line, out, count, got>>

\* The count goes down before it is compared with 0, and may go round.
Ready ==
  /\ pc = "ready"
  /\ LET left == (count + COUNTS - 1) % COUNTS
     IN IF status.rd_f THEN pc' = "read" /\ UNCHANGED count
        ELSE IF count = NoCount THEN pc' = "poll" /\ UNCHANGED count
        ELSE count' = left /\ pc' = (IF left = 0 THEN "idle" ELSE "poll")
  /\ UNCHANGED <<port, line, out, then, status, got>>

ReadChar ==
  /\ pc = "read" /\ pc' = "status"
  /\ got' = IF rdr = <<>> THEN got ELSE Head(rdr)
  /\ rdr' = IF port = "SCI" \/ rdr = <<>> THEN rdr ELSE Tail(rdr)
  /\ UNCHANGED <<port, rdf, err, orer, come, dropped, out, then, count, status>>

ReadStatus ==
  /\ pc = "status" /\ pc' = "clear"
  /\ status' = [rd_f |-> rdf, error |-> SeenErrors]
  /\ UNCHANGED <<port, line, out, then, count, got>>

\* A mutant forgets to.
ClearNothing ==
  /\ pc = "clear" /\ pc' = "error" /\ then' = "idle"
  /\ UNCHANGED <<port, line, out, count, status, got>>

\* RD_F is written as 0; on an SCIF it stays while there is more.
ClearReceived ==
  /\ pc = "clear" /\ pc' = "error" /\ then' = "idle"
  /\ rdf' = (port = "SCIF" /\ rdr # <<>>)
  /\ UNCHANGED <<port, rdr, err, orer, come, dropped, out, count, status, got>>

----------------------------------------------------------------------------
(* putDebugChar *)

Put ==
  /\ pc = "idle" /\ put < MaxChars /\ pc' = "put"
  /\ UNCHANGED <<port, line, out, then, count, status, got>>

\* Once there is room.
WriteChar ==
  /\ pc = "put" /\ tde /\ pc' = "sent"
  /\ put' = put + 1
  /\ tdr' = IF Len(tdr) < Depth THEN Append(tdr, put') ELSE [tdr EXCEPT ![Len(tdr)] = put']
  /\ UNCHANGED <<port, line, tde, sent, then, count, status, got>>

\* The status is read and TD_E written as 0; the SCIF sets it again while it has room.
ClearSent ==
  /\ pc = "sent" /\ pc' = "idle"
  /\ tde' = (port = "SCIF" /\ Len(tdr) <= TRIGGER)
  /\ UNCHANGED <<port, line, tdr, sent, put, then, count, status, got>>

Driver ==
  \/ HandleError \/ HandleOverrun \/ getDebugCharReady \/ Ready \/ ReadChar \/ ReadStatus
  \/ ClearReceived
  \/ WriteChar \/ ClearSent

Next ==
  \/ CharComes \/ CharGoes
  \/ Get(NoCount) \/ (\E n \in 0 .. COUNTS - 1 : Get(n)) \/ Put
  \/ Driver

\* init_serial has switched both directions on.
Init ==
  /\ port \in {"SCI", "SCIF"}
  /\ rdr = <<>> /\ rdf = FALSE /\ err = FALSE /\ orer = FALSE
  /\ tdr = <<>> /\ tde = TRUE /\ come = 0 /\ sent = 0 /\ dropped = {}
  /\ pc = "idle" /\ then = "idle" /\ count = NoCount
  /\ status = [rd_f |-> FALSE, error |-> FALSE] /\ got = 0 /\ put = 0

Spec == Init /\ [][Next]_vars

\* The driver goes on, and the port sends what it has.
FairSpec == Spec /\ WF_vars(Driver) /\ WF_vars(CharGoes)

----------------------------------------------------------------------------
(* Properties *)

\* A character is read once, after those that came before it, and none that the port
\* kept is passed over; a character is sent once, after those put before it; though
\* characters come and go between any two steps of the driver.
InOrder ==
  [][/\ pc = "read" /\ pc' # "read" =>
          /\ rdr # <<>> /\ Head(rdr) > got
          /\ got + 1 .. Head(rdr) - 1 \subseteq dropped
     /\ sent' # sent => sent' = sent + 1]_vars

\* Reception is stopped by an overrun or an error only until the driver looks again, and a
\* call that has a time-out ends, as does one that sends.
Deaf == Stopped /\ pc \in {"poll", "error", "overrun", "ready"}
Calling == count # NoCount \/ pc \in {"put", "sent"}
ReceptionGoesOn ==
  /\ Deaf ~> (~Stopped \/ pc = "idle")
  /\ (Calling /\ pc # "idle") ~> (pc = "idle")
=============================================================================
