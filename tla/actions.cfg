SPECIFICATION Spec
CONSTANTS
  Names <- MCNames
  HostTools = {"dnf", "rpm", "pacman", "pw", "systemctl", "sudo"}
  Locales = {TRUE, FALSE}
  MaxChanges = 1
INVARIANTS
  TypeOK
  SuccessMeansDone
  NamesAreChecked
  RootStaysUnlocked
  FirstAvailable
