\* One worker and one session are enough for the accept thread to be missed.
SPECIFICATION FairSpec
CONSTANTS
    Early = {}
    Late = {usb}
    Tracers = {}
    Sessions = {s1}
PROPERTY RunsAgain
