--------------------------- MODULE MCWechatBridge ---------------------------
EXTENDS WechatBridge, TLC

\* A stranger's message fills the ring before an owner's text; the last text has no id.
MCKindOf == <<"stranger", "text", "media", "text">>

\* The instance is among those the theorem on HandledOnce is about, at their edge.
ASSUME MCRingReaches == RingReaches
=============================================================================
