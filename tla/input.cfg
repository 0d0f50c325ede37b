SPECIFICATION MCSpec
CONSTANTS
  Chars = {"KeyA", "KeyB"}
  Others = {"ShiftLeft", "ShiftRight", "AltRight", "ControlLeft", "CapsLock"}
  Browsers <- MCBrowsers
  PressBounds = {0, 3}
  Sizes = {1, 2, 3}
  Colours = {"red", "blue"}
  ChangeBounds = {0, 1, 4}
  Buttons = {"left", "right"}
  DragThreshold = 0
  ActBounds = {0, 4}
INVARIANT KeysReleased
INVARIANT ButtonsReleased
INVARIANT ViewShown
INVARIANT GuestAskedToFit
PROPERTY PointerTold
CHECK_DEADLOCK FALSE
