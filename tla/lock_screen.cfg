\* One user at the keyboard, no other locker and no failure of spawn_app.
SPECIFICATION Spec
CONSTANTS
    keyboard = keyboard
    Locker = {keyboard}
    MaxLock = 2
    MaxFailure = 0
PROPERTY PinUnlocks
CHECK_DEADLOCK FALSE
