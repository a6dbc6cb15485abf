------------------------------ MODULE HttpBase ------------------------------
(***************************************************************************)
(* Writing an HTTP object to a socket: http_base::write_data, shared by    *)
(* http_request and http_response.  The buffers are numbers of bytes; the  *)
(* socket takes as many of them as it likes.                               *)
(***************************************************************************)
EXTENDS Naturals

VARIABLES
    m_state,        \* io_state
    m_data,         \* m_data_buffer.to_read()
    m_content       \* m_content_buffer.to_read()

baseVars == <<m_state, m_data, m_content>>

BaseTypeOK ==
    /\ m_state \in {"READY", "WRITE_DATA", "WRITE_CONTENT", "DONE"}
    /\ m_data \in Nat
    /\ m_content \in Nat

clear ==
    /\ m_state' = "READY"
    /\ m_data' = 0
    /\ m_content' = 0

\* prepare_data_buffer produces size bytes of status line and headers.
ToWrite(size) == IF m_state = "READY" THEN size ELSE m_data

\* In a call of write_data the first write may take nd bytes, and the second
\* one, if the headers are out, nc bytes of the content.
Takes(size, nd, nc) ==
    /\ m_state # "DONE"
    /\ nd <= ToWrite(size)
    /\ nc <= m_content
    /\ nd < ToWrite(size) => nc = 0

\* A mutated form of Completes: the object is done when its headers are out.
Completes_headers(size, nd, nc) == nd = ToWrite(size)

Completes(size, nd, nc) == nd = ToWrite(size) /\ nc = m_content

write_data(size, nd, nc) ==
    /\ Takes(size, nd, nc)
    /\ m_data' = ToWrite(size) - nd
    /\ m_content' = m_content - nc
    /\ m_state' = IF Completes(size, nd, nc) THEN "DONE"
                  ELSE IF nd = ToWrite(size) THEN "WRITE_CONTENT" ELSE "WRITE_DATA"
=============================================================================
