SPECIFICATION ReceiverSpec
CONSTANTS
  kFrameHeaderBytes = 2
  kReceiveChunk = 4
  max_frame_bytes = 2
  send_bound = 3
  Lengths = {0, 2, 3, 4}
  kErrorReplyBytes = 1
  MaxFrames = 3
  max_string = 4
  kMaxReasonBytes = 3
  Strings <- Samples
CHECK_DEADLOCK FALSE
INVARIANT DeliveredIsPrefix
INVARIANT RefusedAtFirstFault
INVARIANT NothingLeftBehind
INVARIANT AcceptsText
